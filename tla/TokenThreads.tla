---------------------------- MODULE TokenThreads ----------------------------
(***************************************************************************)
(* RefreshTokenStore under KEMTLSTCPServer: one thread per client          *)
(* connection, one KEMTLS session per connection, no lock anywhere.  The   *)
(* refresh grant is taken apart at every read and write of the shared      *)
(* dictionary, since the interpreter may switch threads between any two.   *)
(*                                                                         *)
(* A thread serves its session's requests one after the other, so sessions *)
(* and threads are the same thing here.  Record fields that never change   *)
(* (client, subject, hash) are left out, and the clock is reduced to the   *)
(* set of tokens whose lifetime is over: see TokenService for both.        *)
(***************************************************************************)
EXTENDS Naturals, Sequences

CONSTANTS Token,     \* refresh token values; never drawn twice
          Session,   \* KEMTLS sessions, each with its thread
          NoRecord   \* "not in the dictionary", "no parent", "no request"

ASSUME ThreadsAssumption == NoRecord \notin Token

RefreshTokenRecord ==
  [family: Token, binding: Session, used: BOOLEAN, revoked: BOOLEAN]

ASSUME NoRecordAssumption == NoRecord \notin RefreshTokenRecord

\* The refresh grant checks the record, then rotate_token has consume_token
\* check it again.
Caller == {"grant", "consume"}

Idle == <<"session", "idle">>
Mark == <<"consume", "mark">>
IssueNext == <<"rotate", "issue">>

Label == {Idle, Mark, IssueNext}
           \cup (Caller \X {"revoked", "expired", "used", "revoke", "next"})

VARIABLES refresh,   \* RefreshTokenStore._records
          order,     \* its keys in insertion order, which iteration follows
          parent,    \* history: the token that was exchanged for token t
          expired,   \* tokens past expires_at
          held,      \* tokens that reached a client
          reused,    \* history: families in which a reuse was answered
          pc,        \* pc[s]: what session s's thread does next
          request,   \* request[s]: the token it was presented
          loop       \* loop[s]: its dictionary iterator in revoke_family

store == <<refresh, order, parent>>
vars == <<store, expired, held, reused, pc, request, loop>>

NoLoop == [size |-> 0, visited |-> 0]

Init ==
  /\ refresh = [t \in Token |-> NoRecord]
  /\ order = <<>>
  /\ parent = [t \in Token |-> NoRecord]
  /\ expired = {}
  /\ held = {}
  /\ reused = {}
  /\ pc = [s \in Session |-> Idle]
  /\ request = [s \in Session |-> NoRecord]
  /\ loop = [s \in Session |-> NoLoop]

Issued == {t \in Token : refresh[t] # NoRecord}
Live(t) == t \in Issued /\ ~refresh[t].used /\ ~refresh[t].revoked
Family(f) == {t \in Issued : refresh[t].family = f}

GoTo(s, label) == /\ pc' = [pc EXCEPT ![s] = label]
                  /\ UNCHANGED request

\* The handler returns or raises, and its locals are gone.
Finish(s) == /\ pc' = [pc EXCEPT ![s] = Idle]
             /\ request' = [request EXCEPT ![s] = NoRecord]

\* Mutant: two arguments in the wrong order.
IssueSwapped(s, u, family, bought) ==
  /\ u \notin Issued
  /\ refresh' = [refresh EXCEPT ![u] = [family |-> bought, binding |-> s,
                                        used |-> FALSE, revoked |-> FALSE]]
  /\ order' = Append(order, u)
  /\ parent' = [parent EXCEPT ![u] = family]
  /\ held' \in {held, held \cup {u}}

\* Only the thread's own answer can follow _issue_token, so the reply is sent
\* (or lost, or replaced by a binding-proof error) in the same step.
Issue(s, u, family, bought) ==
  /\ u \notin Issued
  /\ refresh' = [refresh EXCEPT ![u] = [family |-> family, binding |-> s,
                                        used |-> FALSE, revoked |-> FALSE]]
  /\ order' = Append(order, u)
  /\ parent' = [parent EXCEPT ![u] = bought]
  /\ held' \in {held, held \cup {u}}
-----------------------------------------------------------------------------
(* What a thread does. *)

\* An authorization-code grant: a new family, bound to this session.
BeginFamily(s, t) ==
  /\ pc[s] = Idle
  /\ Issue(s, t, t, NoRecord)
  /\ UNCHANGED <<expired, reused, pc, request, loop>>

Present(s, t) ==
  /\ pc[s] = Idle
  /\ t \in held
  /\ request' = [request EXCEPT ![s] = t]
  /\ pc' = [pc EXCEPT ![s] = <<"grant", "revoked">>]
  /\ UNCHANGED <<store, expired, held, reused, loop>>

CheckRevoked(s, caller) ==
  /\ pc[s] = <<caller, "revoked">>
  /\ IF refresh[request[s]].revoked THEN Finish(s)
                                    ELSE GoTo(s, <<caller, "expired">>)
  /\ UNCHANGED <<store, expired, held, reused, loop>>

CheckExpired(s, caller) ==
  /\ pc[s] = <<caller, "expired">>
  /\ IF request[s] \in expired
       THEN /\ refresh' = [refresh EXCEPT ![request[s]].revoked = TRUE]
            /\ Finish(s)
       ELSE /\ GoTo(s, <<caller, "used">>)
            /\ UNCHANGED refresh
  /\ UNCHANGED <<order, parent, expired, held, reused, loop>>

\* Mutant: verify_refresh_binding_metadata is not called.
MayUseAnySession(s, t) == TRUE

MayUse(s, t) == refresh[t].binding = s

CheckUsed(s, caller) ==
  /\ pc[s] = <<caller, "used">>
  /\ \/ /\ refresh[request[s]].used
        /\ GoTo(s, <<caller, "revoke">>)
     \/ /\ ~refresh[request[s]].used
        /\ caller = "grant"
        /\ IF MayUse(s, request[s]) THEN GoTo(s, <<"consume", "revoked">>)
                                    ELSE Finish(s)
     \/ /\ ~refresh[request[s]].used
        /\ caller = "consume"
        /\ GoTo(s, Mark)
  /\ UNCHANGED <<store, expired, held, reused, loop>>

MarkUsed(s) ==
  /\ pc[s] = Mark
  /\ refresh' = [refresh EXCEPT ![request[s]].used = TRUE]
  /\ GoTo(s, IssueNext)
  /\ UNCHANGED <<order, parent, expired, held, reused, loop>>

IssueSuccessor(s, u) ==
  /\ pc[s] = IssueNext
  /\ Issue(s, u, refresh[request[s]].family, request[s])
  /\ Finish(s)
  /\ UNCHANGED <<expired, reused, loop>>
-----------------------------------------------------------------------------
(* revoke_family: a loop over self._records.values() while other threads   *)
(* may insert.  The iterator remembers how many entries the dictionary had *)
(* and refuses to go on, or even to end, once that number has changed.     *)

RevokeStart(s, caller) ==
  /\ pc[s] = <<caller, "revoke">>
  /\ loop' = [loop EXCEPT ![s] = [size |-> Len(order), visited |-> 0]]
  /\ GoTo(s, <<caller, "next">>)
  /\ UNCHANGED <<store, expired, held, reused>>

\* Mutant: the loop runs over list(self._records.values()).
NeverResized(s) == FALSE

Resized(s) == Len(order) # loop[s].size

RevokeNext(s, caller) ==
  /\ pc[s] = <<caller, "next">>
  /\ ~Resized(s)
  /\ loop[s].visited < loop[s].size
  /\ LET t == order[loop[s].visited + 1]
     IN  refresh' = IF refresh[t].family = refresh[request[s]].family
                      THEN [refresh EXCEPT ![t].revoked = TRUE]
                      ELSE refresh
  /\ loop' = [loop EXCEPT ![s].visited = @ + 1]
  /\ UNCHANGED <<order, parent, expired, held, reused, pc, request>>

\* RuntimeError: dictionary changed size during iteration.  No handler below
\* the WSGI application catches it; the client gets a server error.
RevokeAbort(s, caller) ==
  /\ pc[s] = <<caller, "next">>
  /\ Resized(s)
  /\ loop' = [loop EXCEPT ![s] = NoLoop]
  /\ Finish(s)
  /\ UNCHANGED <<store, expired, held, reused>>

RevokeDone(s, caller) ==
  /\ pc[s] = <<caller, "next">>
  /\ ~Resized(s)
  /\ loop[s].visited = loop[s].size
  /\ reused' = IF caller = "grant" THEN reused \cup {refresh[request[s]].family}
                                   ELSE reused
  /\ loop' = [loop EXCEPT ![s] = NoLoop]
  /\ Finish(s)
  /\ UNCHANGED <<store, expired, held>>
-----------------------------------------------------------------------------
Expire(t) ==
  /\ t \in Issued
  /\ expired' = expired \cup {t}
  /\ UNCHANGED <<store, held, reused, pc, request, loop>>

\* The rest of a request once it was presented.
Continue(s) ==
  \/ MarkUsed(s)
  \/ \E u \in Token : IssueSuccessor(s, u)
  \/ \E caller \in Caller :
       \/ CheckRevoked(s, caller)
       \/ CheckExpired(s, caller)
       \/ CheckUsed(s, caller)
       \/ RevokeStart(s, caller)
       \/ RevokeNext(s, caller)
       \/ RevokeAbort(s, caller)
       \/ RevokeDone(s, caller)

Next ==
  \/ \E s \in Session : \/ Continue(s)
                        \/ \E t \in Token : BeginFamily(s, t) \/ Present(s, t)
  \/ \E t \in Token : Expire(t)

Spec == Init /\ [][Next]_vars
-----------------------------------------------------------------------------
(* Properties *)

TypeOK ==
  /\ refresh \in [Token -> RefreshTokenRecord \cup {NoRecord}]
  /\ order \in Seq(Issued)
  /\ parent \in [Token -> Token \cup {NoRecord}]
  /\ expired \subseteq Issued
  /\ held \subseteq Issued
  /\ reused \subseteq Issued
  /\ pc \in [Session -> Label]
  /\ request \in [Session -> held \cup {NoRecord}]
  /\ loop \in [Session -> [size: Nat, visited: Nat]]
  /\ \A s \in Session : pc[s] = Idle <=> request[s] = NoRecord

\* used_at is tested and set in different steps and without a lock; still no
\* refresh token is ever exchanged twice, because only the one thread of the
\* session a token is bound to gets as far as setting it.
SingleUse ==
  \A t, u \in Issued : parent[t] = parent[u] /\ parent[t] # NoRecord => t = u

\* However the threads interleave, and after revocations that missed a token
\* too, a family never has two tokens that can be exchanged.
OneLivePerFamily ==
  \A t, u \in Token :
    Live(t) /\ Live(u) /\ refresh[t].family = refresh[u].family => t = u

\* At the moment "refresh token reuse detected" is answered every token of
\* the family that is in the dictionary is revoked: the loop cannot end
\* normally with an insertion behind its back.
RevocationIsComplete ==
  [][\A f \in reused' \ reused : \A t \in Family(f) : refresh[t].revoked]_vars

\* "old token replay revokes new token": after the answer no token of the
\* family can be exchanged any more.
ReusedFamilyIsDead ==
  \A f \in reused : \A t \in Family(f) : ~Live(t)

\* The same for the thread rather than for the answer: a request that found
\* its token used leaves the whole family revoked when it is over.  Does not
\* hold, and no run checks it: see the README, section 4.
ReplayRevokes ==
  [][\A s \in Session, caller \in Caller :
       pc[s] = <<caller, "next">> /\ pc'[s] = Idle
         => \A t \in Family(refresh[request[s]].family) : refresh[t].revoked]_vars
=============================================================================
