------------------------- MODULE TokenThreadsProofs -------------------------
(***************************************************************************)
(* Proofs about TokenThreads, for any number of threads and tokens: without *)
(* a lock no token is exchanged twice, no family has two tokens that can be *)
(* exchanged, and a revocation that ends normally has missed no token.  The *)
(* argument is that the session binding makes one thread the only one that  *)
(* gets past the checks for a given token.                                  *)
(***************************************************************************)
EXTENDS TokenThreads, TLAPS

\* Thread s has passed the binding check for the token it was presented.
Exchanging(s) == pc[s][1] \in {"consume", "rotate"}

BoundHere == \A s \in Session : Exchanging(s) => refresh[request[s]].binding = s

UnusedAtMark == \A s \in Session : pc[s] = Mark => ~refresh[request[s]].used

UsedAtIssue ==
  \A s \in Session : pc[s] = IssueNext =>
    /\ refresh[request[s]].used
    /\ \A u \in Issued : parent[u] # request[s]

ParentIsUsed ==
  \A u \in Issued : parent[u] # NoRecord =>
    parent[u] \in Issued /\ refresh[parent[u]].used

\* No family is named after a token that is still to be issued.
FamiliesBegun == \A t \in Issued : refresh[t].family \in Issued

\* The newest of a family: the token to be exchanged next, or being exchanged.
Newest(t) ==
  /\ t \in Issued
  /\ ~refresh[t].used \/ \E s \in Session : pc[s] = IssueNext /\ request[s] = t

OneNewest ==
  \A t, u \in Token :
    Newest(t) /\ Newest(u) /\ refresh[t].family = refresh[u].family => t = u

\* Iteration reaches every record, and has revoked what it has passed.
AllOrdered == \A t \in Issued : \E i \in 1..Len(order) : order[i] = t

PassedIsRevoked ==
  \A s \in Session : pc[s][2] = "next" =>
    /\ loop[s].visited <= loop[s].size
    /\ loop[s].size <= Len(order)
    /\ \A i \in 1..loop[s].visited :
         refresh[order[i]].family = refresh[request[s]].family
           => refresh[order[i]].revoked

IInv ==
  /\ TypeOK
  /\ BoundHere
  /\ UnusedAtMark
  /\ UsedAtIssue
  /\ ParentIsUsed
  /\ FamiliesBegun
  /\ OneNewest
  /\ AllOrdered
  /\ PassedIsRevoked
  /\ SingleUse

USE ThreadsAssumption, NoRecordAssumption
-----------------------------------------------------------------------------
(* Types *)

LEMMA NewRecordType ==
  ASSUME NEW f \in Token, NEW s \in Session
  PROVE  [family |-> f, binding |-> s, used |-> FALSE, revoked |-> FALSE]
           \in RefreshTokenRecord \ {NoRecord}
<1>1. [family |-> f, binding |-> s, used |-> FALSE, revoked |-> FALSE] \in RefreshTokenRecord
  BY DEF RefreshTokenRecord
<1>2. QED
  BY <1>1

\* Marking a record used or revoked leaves a record, with the other fields as
\* they were.
LEMMA MarkedRecordType ==
  ASSUME NEW r \in RefreshTokenRecord
  PROVE  /\ [r EXCEPT !.used = TRUE] \in RefreshTokenRecord \ {NoRecord}
         /\ [r EXCEPT !.revoked = TRUE] \in RefreshTokenRecord \ {NoRecord}
<1>1. /\ [r EXCEPT !.used = TRUE] \in RefreshTokenRecord
      /\ [r EXCEPT !.revoked = TRUE] \in RefreshTokenRecord
  BY DEF RefreshTokenRecord
<1>2. QED
  BY <1>1

LEMMA TypeInit == Init => TypeOK
BY DEF Init, TypeOK, Issued, NoLoop, Label

\* Setting `used` or `revoked` of one record.
LEMMA MarkedStore ==
  ASSUME refresh \in [Token -> RefreshTokenRecord \cup {NoRecord}],
         NEW t \in Issued,
         \/ refresh' = [refresh EXCEPT ![t].used = TRUE]
         \/ refresh' = [refresh EXCEPT ![t].revoked = TRUE]
  PROVE  /\ refresh' \in [Token -> RefreshTokenRecord \cup {NoRecord}]
         /\ Issued' = Issued
<1>1. t \in Token /\ refresh[t] \in RefreshTokenRecord
  BY DEF Issued
<1>2. \/ refresh' = [refresh EXCEPT ![t] = [refresh[t] EXCEPT !.used = TRUE]]
      \/ refresh' = [refresh EXCEPT ![t] = [refresh[t] EXCEPT !.revoked = TRUE]]
  OBVIOUS
<1>3. QED
  BY <1>1, <1>2, MarkedRecordType DEF Issued

\* A new record, at the end of the dictionary.
LEMMA IssueType ==
  ASSUME TypeOK, NEW s \in Session, NEW u \in Token, NEW f \in Token,
         NEW b \in Token \cup {NoRecord}, Issue(s, u, f, b)
  PROVE  /\ refresh' \in [Token -> RefreshTokenRecord \cup {NoRecord}]
         /\ Issued' = Issued \cup {u}
         /\ order' \in Seq(Issued')
         /\ parent' \in [Token -> Token \cup {NoRecord}]
         /\ held' \subseteq Issued'
         /\ held \subseteq held'
<1>1. refresh' \in [Token -> RefreshTokenRecord \cup {NoRecord}]
  BY NewRecordType DEF Issue, TypeOK
<1>2. Issued' = Issued \cup {u}
  BY NewRecordType DEF Issue, TypeOK, Issued
<1>3. order \in Seq(Issued')
  BY <1>2 DEF TypeOK
<1>4. order' \in Seq(Issued')
  BY <1>2, <1>3 DEF Issue
<1>5. QED
  BY <1>1, <1>2, <1>4 DEF Issue, TypeOK

\* What a thread with a request in hand may go on to.
LEMMA GoToType ==
  ASSUME TypeOK, NEW s \in Session, pc[s] # Idle, NEW label \in Label \ {Idle}, GoTo(s, label)
  PROVE  /\ pc' \in [Session -> Label]
         /\ request' \in [Session -> held \cup {NoRecord}]
         /\ \A x \in Session : pc'[x] = Idle <=> request'[x] = NoRecord
BY DEF TypeOK, GoTo

LEMMA FinishType ==
  ASSUME TypeOK, NEW s \in Session, Finish(s)
  PROVE  /\ pc' \in [Session -> Label]
         /\ request' \in [Session -> held \cup {NoRecord}]
         /\ \A x \in Session : pc'[x] = Idle <=> request'[x] = NoRecord
BY DEF TypeOK, Finish, Label

LEMMA Labels ==
  /\ Idle \in Label /\ Mark \in Label /\ IssueNext \in Label
  /\ \A caller \in Caller, step \in {"revoked", "expired", "used", "revoke", "next"} :
       <<caller, step>> \in Label \ {Idle}
  /\ Idle # Mark /\ Idle # IssueNext /\ Mark # IssueNext
  /\ {Mark, IssueNext} \cap (Caller \X {"revoked", "expired", "used", "revoke", "next"}) = {}
BY DEF Label, Idle, Mark, IssueNext, Caller

LEMMA TypeNext == TypeOK /\ FamiliesBegun /\ [Next]_vars => TypeOK'
<1> SUFFICES ASSUME TypeOK, FamiliesBegun, [Next]_vars PROVE TypeOK'
  OBVIOUS
<1> USE Labels
<1>1. ASSUME NEW s \in Session, NEW t \in Token, BeginFamily(s, t)
      PROVE  TypeOK'
  BY <1>1, IssueType DEF BeginFamily, TypeOK
<1>2. ASSUME NEW s \in Session, NEW t \in Token, Present(s, t)
      PROVE  TypeOK'
  BY <1>2 DEF Present, TypeOK, store, Issued, Caller
<1>3. ASSUME NEW s \in Session, NEW caller \in Caller, CheckRevoked(s, caller)
      PROVE  TypeOK'
  BY <1>3, GoToType, FinishType DEF CheckRevoked, TypeOK, store, Issued
<1>4. ASSUME NEW s \in Session, NEW caller \in Caller, CheckExpired(s, caller)
      PROVE  TypeOK'
  <2>1. pc[s] # Idle /\ request[s] \in Issued
    BY <1>4 DEF CheckExpired, TypeOK
  <2>2. CASE request[s] \in expired
    BY <1>4, <2>1, <2>2, MarkedStore, FinishType DEF CheckExpired, TypeOK
  <2>3. CASE request[s] \notin expired
    <3>1. GoTo(s, <<caller, "used">>) /\ refresh' = refresh /\ order' = order
          /\ UNCHANGED <<parent, expired, held, reused, loop>>
      BY <1>4, <2>3 DEF CheckExpired
    <3>2. <<caller, "used">> \in Label \ {Idle}
      OBVIOUS
    <3>3. Issued' = Issued
      BY <3>1 DEF Issued
    <3>4. QED
      BY <2>1, <3>1, <3>2, <3>3, GoToType DEF TypeOK
  <2>4. QED
    BY <2>2, <2>3
<1>5. ASSUME NEW s \in Session, NEW caller \in Caller, CheckUsed(s, caller)
      PROVE  TypeOK'
  BY <1>5, GoToType, FinishType DEF CheckUsed, TypeOK, store, Issued, Caller
<1>6. ASSUME NEW s \in Session, MarkUsed(s)
      PROVE  TypeOK'
  <2>1. pc[s] # Idle /\ request[s] \in Issued
    BY <1>6 DEF MarkUsed, TypeOK
  <2>2. QED
    BY <1>6, <2>1, MarkedStore, GoToType DEF MarkUsed, TypeOK
<1>7. ASSUME NEW s \in Session, NEW u \in Token, IssueSuccessor(s, u)
      PROVE  TypeOK'
  <2>1. pc[s] # Idle /\ request[s] \in Issued
    BY <1>7 DEF IssueSuccessor, TypeOK
  <2>2. refresh[request[s]].family \in Token
    BY <2>1 DEF TypeOK, Issued, RefreshTokenRecord
  <2>3. request[s] \in Token
    BY <2>1 DEF Issued
  <2>4. QED
    BY <1>7, <2>2, <2>3, IssueType, FinishType DEF IssueSuccessor, TypeOK
<1>8. ASSUME NEW s \in Session, NEW caller \in Caller, RevokeStart(s, caller)
      PROVE  TypeOK'
  <2>1. [size |-> Len(order), visited |-> 0] \in [size: Nat, visited: Nat]
    BY DEF TypeOK
  <2>2. loop' \in [Session -> [size: Nat, visited: Nat]]
    BY <1>8, <2>1 DEF RevokeStart, TypeOK
  <2>3. Issued' = Issued
    BY <1>8 DEF RevokeStart, store, Issued
  <2>4. QED
    BY <1>8, <2>2, <2>3, GoToType DEF RevokeStart, TypeOK, store
<1>9. ASSUME NEW s \in Session, NEW caller \in Caller, RevokeNext(s, caller)
      PROVE  TypeOK'
  <2>1. /\ loop[s] \in [size: Nat, visited: Nat]
        /\ loop[s].size \in Nat /\ loop[s].visited \in Nat
    BY DEF TypeOK
  <2>2. order[loop[s].visited + 1] \in Issued
    <3>1. loop[s].visited + 1 \in 1..Len(order)
      BY <1>9, <2>1 DEF RevokeNext, Resized
    <3>2. QED
      BY <3>1 DEF TypeOK
  <2>3. /\ refresh' \in [Token -> RefreshTokenRecord \cup {NoRecord}]
        /\ Issued' = Issued
    <3>1. \/ refresh' = refresh
          \/ refresh' = [refresh EXCEPT ![order[loop[s].visited + 1]].revoked = TRUE]
      BY <1>9 DEF RevokeNext
    <3>2. refresh \in [Token -> RefreshTokenRecord \cup {NoRecord}]
      BY DEF TypeOK
    <3>3. CASE refresh' = refresh
      BY <3>2, <3>3 DEF Issued
    <3>4. CASE refresh' = [refresh EXCEPT ![order[loop[s].visited + 1]].revoked = TRUE]
      BY <2>2, <3>2, <3>4, MarkedStore
    <3>5. QED
      BY <3>1, <3>3, <3>4
  <2>4. loop' \in [Session -> [size: Nat, visited: Nat]]
    <3>1. [loop[s] EXCEPT !.visited = @ + 1] \in [size: Nat, visited: Nat]
      BY <2>1
    <3>2. QED
      BY <1>9, <3>1 DEF RevokeNext, TypeOK
  <2>5. QED
    BY <1>9, <2>3, <2>4 DEF RevokeNext, TypeOK
<1>10. ASSUME NEW s \in Session, NEW caller \in Caller, RevokeAbort(s, caller)
       PROVE  TypeOK'
  BY <1>10, FinishType DEF RevokeAbort, TypeOK, store, Issued, NoLoop
<1>11. ASSUME NEW s \in Session, NEW caller \in Caller, RevokeDone(s, caller)
       PROVE  TypeOK'
  <2>1. request[s] \in Issued
    BY <1>11 DEF RevokeDone, TypeOK
  <2>2. reused' \subseteq Issued
    BY <1>11, <2>1 DEF RevokeDone, TypeOK, FamiliesBegun
  <2>3. Issued' = Issued
    BY <1>11 DEF RevokeDone, store, Issued
  <2>4. NoLoop \in [size: Nat, visited: Nat]
    BY DEF NoLoop
  <2>5. loop' \in [Session -> [size: Nat, visited: Nat]]
    BY <1>11, <2>4 DEF RevokeDone, TypeOK
  <2>6. QED
    BY <1>11, <2>2, <2>3, <2>5, FinishType DEF RevokeDone, TypeOK, store
<1>12. ASSUME NEW t \in Token, Expire(t)
       PROVE  TypeOK'
  BY <1>12 DEF Expire, TypeOK, store, Issued
<1>13. CASE UNCHANGED vars
  BY <1>13 DEF vars, store, TypeOK, Issued
<1>14. QED
  BY <1>1, <1>2, <1>3, <1>4, <1>5, <1>6, <1>7, <1>8, <1>9, <1>10, <1>11, <1>12, <1>13
     DEF Next, Continue
-----------------------------------------------------------------------------
(* What a step does to the store, to a thread, and to a loop.  The actions   *)
(* are looked at here only; the invariants follow from these facts.          *)

RecordsStay ==
  \A t \in Issued :
    /\ t \in Issued' /\ parent'[t] = parent[t]
    /\ refresh'[t].family = refresh[t].family
    /\ refresh'[t].binding = refresh[t].binding
    /\ refresh[t].used => refresh'[t].used
    /\ refresh[t].revoked => refresh'[t].revoked

OrderGrows ==
  /\ Len(order) \in Nat /\ Len(order') \in Nat /\ Len(order) <= Len(order')
  /\ \A i \in 1..Len(order) : order'[i] = order[i]
  /\ \A t \in Issued' \ Issued : \E i \in 1..Len(order') : order'[i] = t

OnlyMarkUses ==
  \A t \in Issued : refresh'[t].used /\ ~refresh[t].used =>
    \E s \in Session : pc[s] = Mark /\ request[s] = t /\ pc'[s] = IssueNext /\ request'[s] = t

NewTokens ==
  \A u \in Issued' \ Issued :
    /\ \A v \in Issued' \ Issued : v = u
    /\ \/ parent'[u] = NoRecord /\ refresh'[u].family = u
       \/ \E s \in Session :
            /\ pc[s] = IssueNext /\ pc'[s] = Idle
            /\ parent'[u] = request[s]
            /\ refresh'[u].family = refresh[request[s]].family

\* An action that revokes t, or none at all.
Struck(t) ==
  /\ refresh' = [refresh EXCEPT ![t].revoked = TRUE]
  /\ UNCHANGED <<order, parent>>

LEMMA StoreKinds ==
  ASSUME TypeOK, [Next]_vars
  PROVE  \/ UNCHANGED store
         \/ \E t \in Issued : Struck(t)
         \/ \E s \in Session : MarkUsed(s)
         \/ \E s \in Session, t \in Token : BeginFamily(s, t) \/ IssueSuccessor(s, t)
<1>1. ASSUME NEW s \in Session, NEW caller \in Caller, CheckExpired(s, caller)
      PROVE  UNCHANGED store \/ \E t \in Issued : Struck(t)
  <2>1. request[s] \in Issued
    BY <1>1, Labels DEF CheckExpired, TypeOK
  <2>2. QED
    BY <1>1, <2>1 DEF CheckExpired, Struck, store
<1>2. ASSUME NEW s \in Session, NEW caller \in Caller, RevokeNext(s, caller)
      PROVE  UNCHANGED store \/ \E t \in Issued : Struck(t)
  <2>1. loop[s].visited + 1 \in 1..Len(order)
    BY <1>2 DEF RevokeNext, Resized, TypeOK
  <2>2. order[loop[s].visited + 1] \in Issued
    BY <2>1 DEF TypeOK
  <2>3. QED
    BY <1>2, <2>2 DEF RevokeNext, Struck, store
<1>3. ASSUME NEW s \in Session, NEW caller \in Caller,
             \/ CheckRevoked(s, caller) \/ CheckUsed(s, caller)
             \/ RevokeStart(s, caller) \/ RevokeAbort(s, caller) \/ RevokeDone(s, caller)
      PROVE  UNCHANGED store
  BY <1>3 DEF CheckRevoked, CheckUsed, RevokeStart, RevokeAbort, RevokeDone
<1>4. ASSUME NEW s \in Session, NEW t \in Token, Present(s, t) \/ Expire(t)
      PROVE  UNCHANGED store
  BY <1>4 DEF Present, Expire
<1>5. CASE UNCHANGED vars
  BY <1>5 DEF vars
<1>6. CASE \E t \in Token : Expire(t)
  BY <1>6 DEF Expire
<1>7. QED
  BY <1>1, <1>2, <1>3, <1>4, <1>5, <1>6 DEF Next, Continue

LEMMA StoreSteps ==
  ASSUME TypeOK, [Next]_vars
  PROVE  RecordsStay /\ OrderGrows /\ OnlyMarkUses /\ NewTokens
<1> USE DEF RecordsStay, OrderGrows, OnlyMarkUses, NewTokens
<1>0. /\ refresh \in [Token -> RefreshTokenRecord \cup {NoRecord}]
      /\ order \in Seq(Issued) /\ Len(order) \in Nat
      /\ parent \in [Token -> Token \cup {NoRecord}]
      /\ \A t \in Issued : t \in Token /\ refresh[t] \in RefreshTokenRecord
  BY DEF TypeOK, Issued
<1>1. CASE UNCHANGED store
  BY <1>0, <1>1 DEF store, Issued
<1>2. ASSUME NEW t \in Issued, Struck(t)
      PROVE  RecordsStay /\ OrderGrows /\ OnlyMarkUses /\ NewTokens
  <2>1. Issued' = Issued
    BY <1>0, <1>2, MarkedStore DEF Struck
  <2>2. \A x \in Issued : x # t => refresh'[x] = refresh[x]
    BY <1>0, <1>2 DEF Struck
  <2>3. refresh'[t] = [refresh[t] EXCEPT !.revoked = TRUE]
    BY <1>0, <1>2 DEF Struck
  <2>4. /\ refresh'[t].family = refresh[t].family /\ refresh'[t].binding = refresh[t].binding
        /\ refresh'[t].used = refresh[t].used /\ refresh'[t].revoked
    BY <1>0, <2>3 DEF RefreshTokenRecord
  <2>5. QED
    BY <1>0, <1>2, <2>1, <2>2, <2>4 DEF Struck
<1>3. ASSUME NEW s \in Session, MarkUsed(s)
      PROVE  RecordsStay /\ OrderGrows /\ OnlyMarkUses /\ NewTokens
  <2> DEFINE t == request[s]
  <2>0. t \in Issued
    BY <1>3, Labels DEF MarkUsed, TypeOK
  <2>1. Issued' = Issued
    BY <1>0, <1>3, <2>0, MarkedStore DEF MarkUsed
  <2>2. \A x \in Issued : x # t => refresh'[x] = refresh[x]
    BY <1>0, <1>3 DEF MarkUsed
  <2>3. refresh'[t] = [refresh[t] EXCEPT !.used = TRUE]
    BY <1>0, <1>3, <2>0 DEF MarkUsed
  <2>4. /\ refresh'[t].family = refresh[t].family /\ refresh'[t].binding = refresh[t].binding
        /\ refresh'[t].used /\ refresh'[t].revoked = refresh[t].revoked
    BY <1>0, <2>0, <2>3 DEF RefreshTokenRecord
  <2>5. pc[s] = Mark /\ pc'[s] = IssueNext /\ request'[s] = t
    BY <1>3 DEF MarkUsed, GoTo, TypeOK
  <2>6. order' = order /\ parent' = parent
    BY <1>3 DEF MarkUsed
  <2>7. QED
    BY <1>0, <2>1, <2>2, <2>4, <2>5, <2>6
<1>4. ASSUME NEW s \in Session, NEW u \in Token, NEW f \in Token,
             NEW b \in Token \cup {NoRecord}, Issue(s, u, f, b)
      PROVE  /\ RecordsStay /\ OrderGrows /\ OnlyMarkUses
             /\ Issued' \ Issued = {u}
             /\ refresh'[u].family = f /\ parent'[u] = b
  <2>1. Issued' = Issued \cup {u} /\ u \notin Issued
    BY <1>4, IssueType DEF Issue
  <2>2. \A x \in Issued : refresh'[x] = refresh[x] /\ parent'[x] = parent[x]
    BY <1>0, <1>4 DEF Issue
  <2>3. refresh'[u].family = f /\ parent'[u] = b
    BY <1>0, <1>4 DEF Issue
  <2>4. /\ Len(order') = Len(order) + 1
        /\ order'[Len(order) + 1] = u
        /\ \A i \in 1..Len(order) : order'[i] = order[i]
    BY <1>0, <1>4 DEF Issue
  <2>5. OrderGrows
    BY <1>0, <2>1, <2>4
  <2>6. QED
    BY <2>1, <2>2, <2>3, <2>5
<1>5. ASSUME NEW s \in Session, NEW t \in Token, BeginFamily(s, t)
      PROVE  RecordsStay /\ OrderGrows /\ OnlyMarkUses /\ NewTokens
  BY <1>4, <1>5 DEF BeginFamily
<1>6. ASSUME NEW s \in Session, NEW u \in Token, IssueSuccessor(s, u)
      PROVE  RecordsStay /\ OrderGrows /\ OnlyMarkUses /\ NewTokens
  <2>1. request[s] \in Issued
    BY <1>6, Labels DEF IssueSuccessor, TypeOK
  <2>2. request[s] \in Token /\ refresh[request[s]].family \in Token
    BY <1>0, <2>1 DEF RefreshTokenRecord
  <2>3. pc[s] = IssueNext /\ pc'[s] = Idle
    BY <1>6 DEF IssueSuccessor, Finish, TypeOK
  <2>4. QED
    BY <1>4, <1>6, <2>2, <2>3 DEF IssueSuccessor
<1>7. QED
  BY <1>1, <1>2, <1>3, <1>5, <1>6, StoreKinds

ThreadsMove ==
  \A s \in Session :
    /\ Exchanging(s)' =>
         /\ request'[s] = request[s] /\ pc[s] # Idle
         /\ Exchanging(s) \/ refresh[request[s]].binding = s
    /\ pc'[s] = Mark =>
         \/ pc[s] = Mark
         \/ Exchanging(s) /\ ~refresh[request[s]].used /\ refresh' = refresh
    /\ pc'[s] = IssueNext =>
         \/ pc[s] = IssueNext
         \/ pc[s] = Mark /\ refresh'[request[s]].used /\ Issued' = Issued

\* A loop stays where it is, begins, or passes one more record.
LoopsMove ==
  \A s \in Session : pc'[s][2] = "next" =>
    /\ request'[s] = request[s] /\ pc[s] # Idle
    /\ \/ pc[s][2] = "next" /\ loop'[s] = loop[s]
       \/ loop'[s].visited = 0 /\ loop'[s].size = Len(order)
       \/ /\ pc[s][2] = "next"
          /\ loop[s].visited < loop[s].size /\ loop[s].size = Len(order)
          /\ loop'[s].size = loop[s].size /\ loop'[s].visited = loop[s].visited + 1
          /\ refresh'[order[loop[s].visited + 1]].family = refresh'[request[s]].family
               => refresh'[order[loop[s].visited + 1]].revoked

LEMMA ThreadSteps ==
  ASSUME TypeOK, [Next]_vars
  PROVE  ThreadsMove
<1> USE DEF ThreadsMove, Exchanging, Idle, Mark, IssueNext
<1>0. pc \in [Session -> Label] /\ request \in [Session -> held \cup {NoRecord}]
  BY DEF TypeOK
<1>1. CASE UNCHANGED <<pc, request>>
  BY <1>1
<1>2. ASSUME NEW s \in Session, Finish(s)
      PROVE  ThreadsMove
  BY <1>0, <1>2 DEF Finish
<1>3. ASSUME NEW s \in Session, NEW t \in Token, Present(s, t)
      PROVE  ThreadsMove
  BY <1>0, <1>3 DEF Present
<1>4. ASSUME NEW s \in Session, NEW caller \in Caller, CheckRevoked(s, caller)
      PROVE  ThreadsMove
  BY <1>0, <1>2, <1>4 DEF CheckRevoked, GoTo, Caller
<1>5. ASSUME NEW s \in Session, NEW caller \in Caller, CheckExpired(s, caller)
      PROVE  ThreadsMove
  BY <1>0, <1>2, <1>5 DEF CheckExpired, GoTo, Caller
<1>6. ASSUME NEW s \in Session, NEW caller \in Caller, CheckUsed(s, caller)
      PROVE  ThreadsMove
  BY <1>0, <1>2, <1>6 DEF CheckUsed, GoTo, Caller, MayUse, store
<1>7. ASSUME NEW s \in Session, MarkUsed(s)
      PROVE  ThreadsMove
  <2>1. request[s] \in Issued
    BY <1>7, Labels DEF MarkUsed, TypeOK
  <2>2. refresh[request[s]] \in RefreshTokenRecord /\ request[s] \in Token
    BY <2>1 DEF TypeOK, Issued
  <2>3. refresh'[request[s]] = [refresh[request[s]] EXCEPT !.used = TRUE]
    BY <1>7, <2>2 DEF MarkUsed, TypeOK
  <2>4. refresh'[request[s]].used
    BY <2>2, <2>3 DEF RefreshTokenRecord
  <2>5. Issued' = Issued
    BY <1>7, <2>1, MarkedStore DEF MarkUsed, TypeOK
  <2>6. QED
    BY <1>0, <1>7, <2>4, <2>5 DEF MarkUsed, GoTo
<1>8. ASSUME NEW s \in Session, NEW caller \in Caller, RevokeStart(s, caller)
      PROVE  ThreadsMove
  BY <1>0, <1>8 DEF RevokeStart, GoTo, Caller
<1>9. CASE UNCHANGED vars
  BY <1>1, <1>9 DEF vars
<1>10. ASSUME NEW s \in Session, NEW t \in Token, BeginFamily(s, t)
       PROVE  ThreadsMove
  BY <1>1, <1>10 DEF BeginFamily
<1>11. CASE \E t \in Token : Expire(t)
  BY <1>1, <1>11 DEF Expire
<1>12. ASSUME NEW s \in Session, NEW u \in Token, IssueSuccessor(s, u)
       PROVE  ThreadsMove
  BY <1>2, <1>12 DEF IssueSuccessor
<1>13. ASSUME NEW s \in Session, NEW caller \in Caller,
              \/ RevokeNext(s, caller) \/ RevokeAbort(s, caller)
              \/ RevokeDone(s, caller)
       PROVE  ThreadsMove
  BY <1>1, <1>2, <1>13 DEF RevokeNext, RevokeAbort, RevokeDone
<1>14. QED
  BY <1>3, <1>4, <1>5, <1>6, <1>7, <1>8, <1>9, <1>10, <1>11, <1>12, <1>13 DEF Next, Continue

LEMMA LoopSteps ==
  ASSUME TypeOK, [Next]_vars
  PROVE  LoopsMove
<1> USE DEF LoopsMove, Idle, Mark, IssueNext
<1>0. /\ pc \in [Session -> Label] /\ request \in [Session -> held \cup {NoRecord}]
      /\ loop \in [Session -> [size: Nat, visited: Nat]]
  BY DEF TypeOK
<1>1. CASE UNCHANGED <<pc, request, loop>>
  BY <1>1
<1>2. ASSUME NEW s \in Session, Finish(s),
             \A x \in Session \ {s} : loop'[x] = loop[x]
      PROVE  LoopsMove
  BY <1>0, <1>2 DEF Finish
<1>3. ASSUME NEW s \in Session, NEW label, GoTo(s, label), label[2] # "next",
             UNCHANGED loop
      PROVE  LoopsMove
  BY <1>0, <1>3 DEF GoTo
<1>4. ASSUME NEW s \in Session, NEW t \in Token, Present(s, t)
      PROVE  LoopsMove
  <2>1. pc'[s] = <<"grant", "revoked">> /\ \A x \in Session \ {s} : pc'[x] = pc[x]
    BY <1>0, <1>4 DEF Present
  <2>2. \A x \in Session \ {s} : request'[x] = request[x] /\ loop'[x] = loop[x]
    BY <1>0, <1>4 DEF Present
  <2>3. QED
    BY <2>1, <2>2
<1>5. ASSUME NEW s \in Session, NEW caller \in Caller, CheckRevoked(s, caller)
      PROVE  LoopsMove
  BY <1>2, <1>3, <1>5 DEF CheckRevoked
<1>6. ASSUME NEW s \in Session, NEW caller \in Caller, CheckExpired(s, caller)
      PROVE  LoopsMove
  BY <1>2, <1>3, <1>6 DEF CheckExpired
<1>7. ASSUME NEW s \in Session, NEW caller \in Caller, CheckUsed(s, caller)
      PROVE  LoopsMove
  BY <1>2, <1>3, <1>7 DEF CheckUsed
<1>8. ASSUME NEW s \in Session, MarkUsed(s)
      PROVE  LoopsMove
  BY <1>3, <1>8 DEF MarkUsed
<1>9. ASSUME NEW s \in Session, NEW caller \in Caller, RevokeStart(s, caller)
      PROVE  LoopsMove
  <2>1. loop'[s].visited = 0 /\ loop'[s].size = Len(order)
    BY <1>0, <1>9 DEF RevokeStart
  <2>2. QED
    BY <1>0, <1>9, <2>1 DEF RevokeStart, GoTo, Caller
<1>10. ASSUME NEW s \in Session, NEW caller \in Caller, RevokeNext(s, caller)
       PROVE  LoopsMove
  <2> DEFINE t == order[loop[s].visited + 1]
  <2>1. /\ loop[s].visited < loop[s].size /\ loop[s].size = Len(order)
        /\ loop[s].visited \in Nat /\ loop[s].size \in Nat
    BY <1>0, <1>10 DEF RevokeNext, Resized
  <2>2. /\ loop'[s].size = loop[s].size /\ loop'[s].visited = loop[s].visited + 1
        /\ \A x \in Session \ {s} : loop'[x] = loop[x]
    BY <1>0, <1>10 DEF RevokeNext
  <2>3. t \in Issued
    <3>1. loop[s].visited + 1 \in 1..Len(order)
      BY <2>1
    <3>2. QED
      BY <3>1 DEF TypeOK
  <2>4. /\ t \in Token /\ refresh[t] \in RefreshTokenRecord
        /\ request[s] \in Token /\ refresh[request[s]] \in RefreshTokenRecord
    BY <1>10, <2>3, Labels DEF RevokeNext, TypeOK, Issued
  <2>5. refresh'[t].family = refresh'[request[s]].family => refresh'[t].revoked
    <3>1. CASE refresh[t].family = refresh[request[s]].family
      <4>1. refresh'[t] = [refresh[t] EXCEPT !.revoked = TRUE]
        BY <1>10, <2>4, <3>1 DEF RevokeNext, TypeOK
      <4>2. QED
        BY <2>4, <4>1 DEF RefreshTokenRecord
    <3>2. CASE refresh[t].family # refresh[request[s]].family
      BY <1>10, <3>2 DEF RevokeNext
    <3>3. QED
      BY <3>1, <3>2
  <2>6. UNCHANGED <<pc, request>> /\ pc[s] # Idle /\ pc[s][2] = "next"
    BY <1>10 DEF RevokeNext
  <2>7. QED
    BY <2>1, <2>2, <2>5, <2>6
<1>11. ASSUME NEW s \in Session, NEW caller \in Caller,
              RevokeAbort(s, caller) \/ RevokeDone(s, caller)
       PROVE  LoopsMove
  BY <1>0, <1>2, <1>11 DEF RevokeAbort, RevokeDone
<1>12. ASSUME NEW s \in Session, NEW u \in Token, IssueSuccessor(s, u)
       PROVE  LoopsMove
  BY <1>2, <1>12 DEF IssueSuccessor
<1>13. ASSUME NEW s \in Session, NEW t \in Token, BeginFamily(s, t)
       PROVE  LoopsMove
  BY <1>1, <1>13 DEF BeginFamily
<1>14. CASE \E t \in Token : Expire(t)
  BY <1>1, <1>14 DEF Expire
<1>15. CASE UNCHANGED vars
  BY <1>1, <1>15 DEF vars
<1>16. QED
  BY <1>4, <1>5, <1>6, <1>7, <1>8, <1>9, <1>10, <1>11, <1>12, <1>13, <1>14, <1>15
     DEF Next, Continue
-----------------------------------------------------------------------------
(* The invariants *)

LEMMA RequestIsIssued ==
  ASSUME TypeOK, NEW s \in Session, pc[s] # Idle
  PROVE  request[s] \in Issued /\ request[s] \in Token
BY DEF TypeOK, Issued

\* A step from a state of the invariant, taken apart.
Step ==
  /\ IInv /\ TypeOK'
  /\ RecordsStay /\ OrderGrows /\ OnlyMarkUses /\ NewTokens
  /\ ThreadsMove /\ LoopsMove

LEMMA StepOf == IInv /\ [Next]_vars => Step
BY TypeNext, StoreSteps, ThreadSteps, LoopSteps DEF IInv, Step

LEMMA BoundHereNext == Step => BoundHere'
<1> SUFFICES ASSUME Step, NEW s \in Session, Exchanging(s)'
             PROVE  refresh'[request'[s]].binding = s
  BY DEF BoundHere
<1>1. /\ request'[s] = request[s] /\ pc[s] # Idle
      /\ Exchanging(s) \/ refresh[request[s]].binding = s
  BY DEF Step, ThreadsMove
<1>2. request[s] \in Issued
  BY <1>1, RequestIsIssued DEF Step, IInv
<1>3. QED
  BY <1>1, <1>2 DEF Step, IInv, RecordsStay, BoundHere

\* Two threads past the binding check have different tokens.
LEMMA OneThreadPerToken ==
  ASSUME BoundHere, NEW s \in Session, NEW x \in Session,
         Exchanging(s), Exchanging(x), request[s] = request[x]
  PROVE  s = x
BY DEF BoundHere

LEMMA AtMarkOrIssue ==
  ASSUME NEW s \in Session
  PROVE  /\ pc[s] \in {Mark, IssueNext} => Exchanging(s) /\ pc[s] # Idle
         /\ pc'[s] \in {Mark, IssueNext} => Exchanging(s)'
         /\ Mark # IssueNext /\ Idle # IssueNext /\ Idle # Mark
BY DEF Exchanging, Mark, IssueNext, Idle

LEMMA UnusedAtMarkNext == Step => UnusedAtMark'
<1> SUFFICES ASSUME Step, NEW s \in Session, pc'[s] = Mark
             PROVE  ~refresh'[request'[s]].used
  BY DEF UnusedAtMark
<1>1. request'[s] = request[s] /\ pc[s] # Idle
  BY AtMarkOrIssue DEF Step, ThreadsMove
<1>2. request[s] \in Issued
  BY <1>1, RequestIsIssued DEF Step, IInv
<1>3. CASE pc[s] = Mark
  <2>1. ~refresh[request[s]].used
    BY <1>3 DEF Step, IInv, UnusedAtMark
  <2>2. SUFFICES ASSUME refresh'[request[s]].used PROVE FALSE
    BY <1>1
  <2>3. PICK x \in Session : pc[x] = Mark /\ request[x] = request[s] /\ pc'[x] = IssueNext
    BY <1>2, <2>1, <2>2 DEF Step, OnlyMarkUses
  <2>4. x = s
    BY <1>3, <2>3, AtMarkOrIssue, OneThreadPerToken DEF Step, IInv
  <2>5. QED
    BY <2>3, <2>4, AtMarkOrIssue
<1>4. CASE ~refresh[request[s]].used /\ refresh' = refresh
  BY <1>1, <1>4
<1>5. QED
  BY <1>3, <1>4 DEF Step, ThreadsMove

LEMMA UsedAtIssueNext == Step => UsedAtIssue'
<1> SUFFICES ASSUME Step, NEW s \in Session, pc'[s] = IssueNext
             PROVE  /\ refresh'[request'[s]].used
                    /\ \A u \in Issued' : parent'[u] # request'[s]
  BY DEF UsedAtIssue
<1> DEFINE t == request[s]
<1>1. request'[s] = t /\ pc[s] # Idle
  BY AtMarkOrIssue DEF Step, ThreadsMove
<1>2. t \in Issued /\ t \in Token /\ t # NoRecord
  BY <1>1, RequestIsIssued DEF Step, IInv
<1>3. CASE pc[s] = IssueNext
  <2>1. refresh[t].used /\ \A u \in Issued : parent[u] # t
    BY <1>3 DEF Step, IInv, UsedAtIssue
  <2>2. refresh'[t].used /\ \A u \in Issued : parent'[u] # t
    BY <1>2, <2>1 DEF Step, RecordsStay
  <2>3. ASSUME NEW u \in Issued' \ Issued, parent'[u] = t
        PROVE  FALSE
    <3>1. PICK x \in Session : pc[x] = IssueNext /\ pc'[x] = Idle /\ request[x] = t
      BY <1>2, <2>3 DEF Step, NewTokens
    <3>2. x = s
      BY <1>3, <3>1, AtMarkOrIssue, OneThreadPerToken DEF Step, IInv
    <3>3. QED
      BY <3>1, <3>2, AtMarkOrIssue
  <2>4. QED
    BY <1>1, <2>2, <2>3
<1>4. CASE pc[s] = Mark /\ refresh'[t].used /\ Issued' = Issued
  <2>1. ~refresh[t].used
    BY <1>4 DEF Step, IInv, UnusedAtMark
  <2>2. \A u \in Issued : parent[u] # t
    BY <1>2, <2>1 DEF Step, IInv, ParentIsUsed
  <2>3. QED
    BY <1>1, <1>4, <2>2 DEF Step, RecordsStay
<1>5. QED
  BY <1>3, <1>4 DEF Step, ThreadsMove

LEMMA ParentIsUsedNext == Step => ParentIsUsed'
<1> SUFFICES ASSUME Step, NEW u \in Issued', parent'[u] # NoRecord
             PROVE  parent'[u] \in Issued' /\ refresh'[parent'[u]].used
  BY DEF ParentIsUsed
<1>1. CASE u \in Issued
  BY <1>1 DEF Step, IInv, RecordsStay, ParentIsUsed
<1>2. CASE u \notin Issued
  <2>1. PICK s \in Session : pc[s] = IssueNext /\ parent'[u] = request[s]
    BY <1>2 DEF Step, NewTokens
  <2>2. request[s] \in Issued
    BY <2>1, AtMarkOrIssue, RequestIsIssued DEF Step, IInv
  <2>3. QED
    BY <2>1, <2>2 DEF Step, IInv, RecordsStay, UsedAtIssue
<1>3. QED
  BY <1>1, <1>2

LEMMA FamiliesBegunNext == Step => FamiliesBegun'
<1> SUFFICES ASSUME Step, NEW u \in Issued'
             PROVE  refresh'[u].family \in Issued'
  BY DEF FamiliesBegun
<1>1. CASE u \in Issued
  BY <1>1 DEF Step, IInv, RecordsStay, FamiliesBegun
<1>2. CASE refresh'[u].family = u
  BY <1>2
<1>3. ASSUME NEW s \in Session, pc[s] = IssueNext,
             refresh'[u].family = refresh[request[s]].family
      PROVE  refresh'[u].family \in Issued'
  <2>1. request[s] \in Issued
    BY <1>3, AtMarkOrIssue, RequestIsIssued DEF Step, IInv
  <2>2. QED
    BY <1>3, <2>1 DEF Step, IInv, RecordsStay, FamiliesBegun
<1>4. QED
  BY <1>1, <1>2, <1>3 DEF Step, NewTokens

\* A token never becomes the newest of its family again.
LEMMA NewestBefore ==
  ASSUME Step, NEW t \in Issued, Newest(t)'
  PROVE  Newest(t)
<1>1. CASE ~refresh'[t].used
  BY <1>1 DEF Step, RecordsStay, Newest
<1>2. ASSUME NEW s \in Session, pc'[s] = IssueNext, request'[s] = t
      PROVE  Newest(t)
  <2>1. request[s] = t /\ pc[s] \in {Mark, IssueNext}
    BY <1>2, AtMarkOrIssue DEF Step, ThreadsMove
  <2>2. QED
    BY <2>1 DEF Step, IInv, UnusedAtMark, Newest
<1>3. QED
  BY <1>1, <1>2 DEF Newest

\* The token an exchange has just replaced is not the newest any more.
LEMMA ReplacedIsOld ==
  ASSUME Step, NEW s \in Session, pc[s] = IssueNext, pc'[s] = Idle,
         NEW r, r = request[s]
  PROVE  ~Newest(r)'
<1>1. r \in Issued /\ refresh'[r].used
  BY AtMarkOrIssue, RequestIsIssued DEF Step, IInv, UsedAtIssue, RecordsStay
<1>2. ASSUME NEW x \in Session, pc'[x] = IssueNext, request'[x] = r
      PROVE  FALSE
  <2>1. request[x] = r /\ pc[x] \in {Mark, IssueNext}
    BY <1>2, AtMarkOrIssue DEF Step, ThreadsMove
  <2>2. x = s
    BY <2>1, AtMarkOrIssue, OneThreadPerToken DEF Step, IInv
  <2>3. QED
    BY <1>2, <2>2, AtMarkOrIssue
<1>3. QED
  BY <1>1, <1>2 DEF Newest

\* No older token of a family is the newest beside one just issued.
LEMMA NewIsAlone ==
  ASSUME Step, NEW t \in Issued, NEW u \in Issued' \ Issued, Newest(t)',
         refresh'[t].family = refresh'[u].family
  PROVE  FALSE
<1>1. Newest(t) /\ refresh'[t].family = refresh[t].family /\ t \in Token
  BY NewestBefore DEF Step, RecordsStay, Issued
<1>2. CASE refresh'[u].family = u
  BY <1>1, <1>2 DEF Step, IInv, FamiliesBegun
<1>3. ASSUME NEW s \in Session, pc[s] = IssueNext, pc'[s] = Idle,
             refresh'[u].family = refresh[request[s]].family
      PROVE  FALSE
  <2>1. request[s] \in Issued /\ request[s] \in Token
    BY <1>3, AtMarkOrIssue, RequestIsIssued DEF Step, IInv
  <2>2. Newest(request[s])
    BY <1>3, <2>1 DEF Newest
  <2>3. t = request[s]
    BY <1>1, <1>3, <2>1, <2>2 DEF Step, IInv, OneNewest
  <2>4. QED
    BY <1>3, <2>3, ReplacedIsOld
<1>4. QED
  BY <1>2, <1>3 DEF Step, NewTokens

LEMMA OneNewestNext == Step => OneNewest'
<1> SUFFICES ASSUME Step, NEW t \in Token, NEW u \in Token, Newest(t)', Newest(u)',
                    refresh'[t].family = refresh'[u].family
             PROVE  t = u
  BY DEF OneNewest
<1>1. t \in Issued' /\ u \in Issued'
  BY DEF Newest
<1>2. CASE t \in Issued /\ u \in Issued
  BY <1>2, NewestBefore DEF Step, IInv, RecordsStay, OneNewest
<1>3. CASE t \in Issued /\ u \notin Issued
  BY <1>1, <1>3, NewIsAlone
<1>4. CASE t \notin Issued /\ u \in Issued
  BY <1>1, <1>4, NewIsAlone
<1>5. CASE t \notin Issued /\ u \notin Issued
  BY <1>1, <1>5 DEF Step, NewTokens
<1>6. QED
  BY <1>2, <1>3, <1>4, <1>5

LEMMA AllOrderedNext == Step => AllOrdered'
<1> SUFFICES ASSUME Step, NEW t \in Issued'
             PROVE  \E i \in 1..Len(order') : order'[i] = t
  BY DEF AllOrdered
<1>1. CASE t \in Issued
  <2>1. PICK i \in 1..Len(order) : order[i] = t
    BY <1>1 DEF Step, IInv, AllOrdered
  <2>2. i \in 1..Len(order') /\ order'[i] = t
    BY <2>1 DEF Step, OrderGrows
  <2>3. QED
    BY <2>2
<1>2. CASE t \notin Issued
  BY <1>2 DEF Step, OrderGrows
<1>3. QED
  BY <1>1, <1>2

LEMMA PassedIsRevokedNext == Step => PassedIsRevoked'
<1> SUFFICES ASSUME Step, NEW s \in Session, pc'[s][2] = "next"
             PROVE  /\ loop'[s].visited <= loop'[s].size
                    /\ loop'[s].size <= Len(order')
                    /\ \A i \in 1..loop'[s].visited :
                         refresh'[order'[i]].family = refresh'[request'[s]].family
                           => refresh'[order'[i]].revoked
  BY DEF PassedIsRevoked
<1> DEFINE t == request[s]
           Revoked(i) == refresh[order[i]].family = refresh[t].family
                           => refresh[order[i]].revoked
<1>1. request'[s] = t /\ pc[s] # Idle
  BY DEF Step, LoopsMove
<1>2. t \in Issued
  BY <1>1, RequestIsIssued DEF Step, IInv
<1>3. /\ loop[s].visited \in Nat /\ loop[s].size \in Nat
      /\ Len(order) \in Nat /\ Len(order') \in Nat /\ Len(order) <= Len(order')
  BY DEF Step, IInv, TypeOK, OrderGrows
<1>4. ASSUME NEW i \in 1..Len(order), Revoked(i)
      PROVE  refresh'[order'[i]].family = refresh'[t].family
               => refresh'[order'[i]].revoked
  <2>1. order[i] \in Issued /\ order'[i] = order[i]
    BY DEF Step, IInv, TypeOK, OrderGrows
  <2>2. QED
    BY <1>2, <1>4, <2>1 DEF Step, RecordsStay
<1>5. pc[s][2] = "next" =>
        /\ loop[s].visited <= loop[s].size /\ loop[s].size <= Len(order)
        /\ \A i \in 1..loop[s].visited : Revoked(i)
  BY DEF Step, IInv, PassedIsRevoked
<1>6. CASE pc[s][2] = "next" /\ loop'[s] = loop[s]
  BY <1>1, <1>3, <1>4, <1>5, <1>6
<1>7. CASE loop'[s].visited = 0 /\ loop'[s].size = Len(order)
  BY <1>3, <1>7
<1>8. CASE /\ pc[s][2] = "next"
           /\ loop[s].visited < loop[s].size /\ loop[s].size = Len(order)
           /\ loop'[s].size = loop[s].size /\ loop'[s].visited = loop[s].visited + 1
           /\ refresh'[order[loop[s].visited + 1]].family = refresh'[t].family
                => refresh'[order[loop[s].visited + 1]].revoked
  <2>1. loop'[s].visited <= loop'[s].size /\ loop'[s].size <= Len(order')
    BY <1>3, <1>8
  <2>2. ASSUME NEW i \in 1..loop'[s].visited
        PROVE  refresh'[order'[i]].family = refresh'[t].family
                 => refresh'[order'[i]].revoked
    <3>1. i \in 1..Len(order) /\ (i \in 1..loop[s].visited \/ i = loop[s].visited + 1)
      BY <1>3, <1>8
    <3>2. CASE i \in 1..loop[s].visited
      BY <1>4, <1>5, <1>8, <3>1, <3>2
    <3>3. CASE i = loop[s].visited + 1
      <4>1. order'[i] = order[i]
        BY <3>1 DEF Step, OrderGrows
      <4>2. QED
        BY <1>8, <3>3, <4>1
    <3>4. QED
      BY <3>1, <3>2, <3>3
  <2>3. QED
    BY <1>1, <2>1, <2>2
<1>9. QED
  BY <1>1, <1>6, <1>7, <1>8 DEF Step, LoopsMove

LEMMA SingleUseNext == Step => SingleUse'
<1> SUFFICES ASSUME Step, NEW t \in Issued', NEW u \in Issued',
                    parent'[t] = parent'[u], parent'[t] # NoRecord
             PROVE  t = u
  BY DEF SingleUse
<1>1. ASSUME NEW x \in Issued, NEW y \in Issued' \ Issued,
             parent'[x] = parent'[y], parent'[y] # NoRecord
      PROVE  FALSE
  <2>1. PICK s \in Session : pc[s] = IssueNext /\ parent'[y] = request[s]
    BY <1>1 DEF Step, NewTokens
  <2>2. parent'[x] = parent[x]
    BY DEF Step, RecordsStay
  <2>3. QED
    BY <1>1, <2>1, <2>2 DEF Step, IInv, UsedAtIssue
<1>2. CASE t \in Issued /\ u \in Issued
  BY <1>2 DEF Step, IInv, RecordsStay, SingleUse
<1>3. CASE t \notin Issued /\ u \notin Issued
  BY <1>3 DEF Step, NewTokens
<1>4. QED
  BY <1>1, <1>2, <1>3

LEMMA IInvInit == Init => IInv
<1> SUFFICES ASSUME Init PROVE IInv
  OBVIOUS
<1>1. Issued = {}
  BY DEF Init, Issued
<1>2. \A s \in Session : pc[s] = Idle
  BY DEF Init
<1>3. BoundHere /\ UnusedAtMark /\ UsedAtIssue /\ PassedIsRevoked
  BY <1>2 DEF BoundHere, UnusedAtMark, UsedAtIssue, PassedIsRevoked, Exchanging,
              Idle, Mark, IssueNext
<1>4. ParentIsUsed /\ FamiliesBegun /\ OneNewest /\ AllOrdered /\ SingleUse
  BY <1>1 DEF ParentIsUsed, FamiliesBegun, OneNewest, AllOrdered, SingleUse, Newest
<1>5. QED
  BY <1>3, <1>4, TypeInit DEF IInv

LEMMA IInvNext == IInv /\ [Next]_vars => IInv'
<1> SUFFICES ASSUME Step PROVE IInv'
  BY StepOf
<1>1. TypeOK'
  BY DEF Step
<1>2. QED
  BY <1>1, BoundHereNext, UnusedAtMarkNext, UsedAtIssueNext, ParentIsUsedNext,
     FamiliesBegunNext, OneNewestNext, AllOrderedNext, PassedIsRevokedNext,
     SingleUseNext DEF IInv

LEMMA IInvAlways == Spec => []IInv
<1>1. QED
  BY IInvInit, IInvNext, PTL DEF Spec
-----------------------------------------------------------------------------
(* The theorems *)

\* In every reachable state the dictionary, the iterators and the locals of
\* the threads have the types TokenThreads gives them; in particular a thread
\* in a refresh grant always holds a token that is in the dictionary.
THEOREM ThreadsTypeCorrect == Spec => []TypeOK
<1>1. IInv => TypeOK
  BY DEF IInv
<1>2. QED
  BY <1>1, IInvAlways, PTL

\* Whatever the number of threads, no refresh token is exchanged twice,
\* although consume_token tests used_at and sets it without a lock.
THEOREM ThreadsSingleUse == Spec => []SingleUse
<1>1. IInv => SingleUse
  BY DEF IInv
<1>2. QED
  BY <1>1, IInvAlways, PTL

\* No interleaving of rotate_token and revoke_family, an aborted revocation
\* included, leaves a family with two tokens that can be exchanged.
THEOREM ThreadsOneLivePerFamily == Spec => []OneLivePerFamily
<1>1. ASSUME IInv PROVE OneLivePerFamily
  <2>1. \A t \in Token : Live(t) => Newest(t)
    BY DEF Live, Newest
  <2>2. QED
    BY <1>1, <2>1 DEF IInv, OneNewest, OneLivePerFamily
<1>2. QED
  BY <1>1, IInvAlways, PTL

\* When revoke_family's loop ends normally, it has revoked every token of the
\* family that is in the dictionary at that moment.
LEMMA DoneIsComplete ==
  ASSUME IInv, NEW s \in Session, NEW caller \in Caller, RevokeDone(s, caller),
         NEW t \in Issued, refresh[t].family = refresh[request[s]].family
  PROVE  refresh[t].revoked
<1>1. PICK i \in 1..Len(order) : order[i] = t
  BY DEF IInv, AllOrdered
<1>2. pc[s][2] = "next" /\ loop[s].visited = loop[s].size /\ loop[s].size = Len(order)
  BY DEF RevokeDone, Resized
<1>3. i \in 1..loop[s].visited
  BY <1>1, <1>2
<1>4. QED
  BY <1>1, <1>2, <1>3 DEF IInv, PassedIsRevoked

\* Whenever "refresh token reuse detected" is answered, every token of the
\* family is revoked, whatever other threads did during revoke_family.
THEOREM ThreadsRevocationIsComplete == Spec => RevocationIsComplete
<1> DEFINE Complete == \A f \in reused' \ reused : \A t \in Family(f) : refresh[t].revoked
<1>1. ASSUME IInv, [Next]_vars PROVE Complete
  <2>1. ASSUME NEW s \in Session, NEW caller \in Caller, RevokeDone(s, caller)
        PROVE  Complete
    <3>1. \A f \in reused' \ reused : f = refresh[request[s]].family
      BY <2>1 DEF RevokeDone
    <3>2. QED
      BY <1>1, <2>1, <3>1, DoneIsComplete DEF Family
  <2>2. CASE UNCHANGED reused
    BY <2>2
  <2>3. \/ UNCHANGED reused
        \/ \E s \in Session, caller \in Caller : RevokeDone(s, caller)
    BY <1>1 DEF Next, Continue, BeginFamily, Present, CheckRevoked, CheckExpired, CheckUsed,
                MarkUsed, IssueSuccessor, RevokeStart, RevokeNext, RevokeAbort, Expire, vars
  <2>4. QED
    BY <2>1, <2>2, <2>3
<1>2. QED
  BY <1>1, IInvAlways, PTL DEF Spec, RevocationIsComplete
=============================================================================
