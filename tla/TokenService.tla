---------------------------- MODULE TokenService ----------------------------
(***************************************************************************)
(* The authorization server's grants: AuthorizationEndpoint hands out      *)
(* authorization codes, TokenEndpoint exchanges a code or a refresh token  *)
(* presented over a KEMTLS session, RefreshTokenStore keeps the refresh    *)
(* tokens.  A request runs from start to end before the next one, as under *)
(* the QUIC server's single receive loop; TokenThreads takes the handlers  *)
(* apart for the thread-per-client TCP server.                             *)
(*                                                                         *)
(* A request that changes no state (unknown client, missing parameter, no  *)
(* session, unknown or revoked token, ...) is a stuttering step and has no *)
(* action.                                                                 *)
(***************************************************************************)
EXTENDS Naturals

CONSTANTS Client,          \* registered client_ids
          User,            \* subjects
          RedirectUri,
          Registry,        \* Registry[cl]: the redirect URIs allowed for cl
          Verifier,        \* PKCE code verifiers
          Code,            \* authorization code values; never drawn twice
          Token,           \* refresh token values; never drawn twice
          Session,         \* established KEMTLS sessions
          NoRecord,        \* "not in the dictionary"
          NoProof,         \* a request without binding-proof headers
          CodeLifetime,
          RefreshLifetime,
          MaxTime          \* bound on the clock, for model checking only

ASSUME ServiceAssumption ==
  /\ Registry \in [Client -> SUBSET RedirectUri]
  /\ CodeLifetime \in Nat
  /\ RefreshLifetime \in Nat \ {0}
  /\ MaxTime \in Nat
  /\ NoRecord \notin Token \cup Code
  /\ Token \cap Code = {}
  /\ NoProof \notin Session

\* A code_challenge: the S256 digest, which two verifiers never share.
S256(v) == <<"S256", v>>
Challenge == {S256(v) : v \in Verifier}

AuthorizationCodeRecord ==
  [client: Client, redirect: RedirectUri, user: User,
   challenge: Challenge, expires: Nat]

\* family is the first token issued in it: the code draws a random family_id
\* for each.  binding is the session whose refresh_binding_id is hashed into
\* binding_meta.  used says whether used_at is set.
RefreshTokenRecord ==
  [family: Token, client: Client, subject: User, binding: Session,
   expires: Nat, used: BOOLEAN, revoked: BOOLEAN]

\* "Not in the dictionary" is not an entry.
ASSUME NoRecordAssumption ==
  NoRecord \notin AuthorizationCodeRecord \cup RefreshTokenRecord

VARIABLES now,       \* get_timestamp()
          codes,     \* codes[c]: the record code c was issued with
          stored,    \* the codes still in InMemoryAuthorizationCodeStore
          refresh,   \* RefreshTokenStore._records
          parent,    \* history: the code or token that bought refresh token t
          reused,    \* history: families in which a reuse was answered
          held       \* refresh tokens that reached a client in a reply

vars == <<now, codes, stored, refresh, parent, reused, held>>
codeVars == <<codes, stored>>
refreshVars == <<refresh, parent, reused, held>>

Init ==
  /\ now = 0
  /\ codes = [c \in Code |-> NoRecord]
  /\ stored = {}
  /\ refresh = [t \in Token |-> NoRecord]
  /\ parent = [t \in Token |-> NoRecord]
  /\ reused = {}
  /\ held = {}

Issued == {t \in Token : refresh[t] # NoRecord}
Live(t) == t \in Issued /\ ~refresh[t].used /\ ~refresh[t].revoked
-----------------------------------------------------------------------------
(* Authorization codes *)

\* Mutant of InMemoryAuthorizationCodeStore.consume: get instead of pop.
ConsumeGets(c) == stored

\* InMemoryAuthorizationCodeStore.consume: the store without code c.
Consume(c) == stored \ {c}

\* GET /authorize for a logged-in user.
Authorize(c, cl, uri, u, v) ==
  /\ codes[c] = NoRecord
  /\ uri \in Registry[cl]
  /\ codes' = [codes EXCEPT ![c] =
                 [client |-> cl, redirect |-> uri, user |-> u,
                  challenge |-> S256(v), expires |-> now + CodeLifetime]]
  /\ stored' = stored \cup {c}
  /\ UNCHANGED <<now, refreshVars>>

\* AuthorizationEndpoint.validate_code: takes the code out of the store
\* whether or not it then accepts it.
ValidateCode(c) ==
  /\ c \in stored
  /\ stored' = Consume(c)
  /\ UNCHANGED <<now, codes, refreshVars>>

\* Mutant of validate_code: the PKCE verifier is not compared.
CodeAcceptedUnproved(c, cl, uri, v) ==
  now <= codes[c].expires /\ codes[c].client = cl /\ codes[c].redirect = uri

CodeAccepted(c, cl, uri, v) ==
  /\ now <= codes[c].expires
  /\ codes[c].client = cl
  /\ codes[c].redirect = uri
  /\ codes[c].challenge = S256(v)

\* A proof is a signature over one session's session_binding_id; it verifies
\* only on that session.  p is NoProof or the session that was signed for.
ProofAccepted(s, p) == p \in {NoProof, s}

\* The reply carrying refresh token t arrives, or is lost on the way.
Answer(t) == held' \in {held, held \cup {t}}

\* Mutant of RefreshTokenStore._issue_token: the lifetime is subtracted.
NewRecordInThePast(f, cl, u, s) ==
  [family |-> f, client |-> cl, subject |-> u, binding |-> s,
   expires |-> now - RefreshLifetime, used |-> FALSE, revoked |-> FALSE]

NewRecord(f, cl, u, s) ==
  [family |-> f, client |-> cl, subject |-> u, binding |-> s,
   expires |-> now + RefreshLifetime, used |-> FALSE, revoked |-> FALSE]

\* POST /token, grant_type=authorization_code, every check passed.
RedeemCode(s, c, cl, uri, v, p, t) ==
  /\ c \in stored
  /\ CodeAccepted(c, cl, uri, v)
  /\ ProofAccepted(s, p)
  /\ t \notin Issued
  /\ stored' = Consume(c)
  /\ refresh' = [refresh EXCEPT ![t] = NewRecord(t, cl, codes[c].user, s)]
  /\ parent' = [parent EXCEPT ![t] = c]
  /\ Answer(t)
  /\ UNCHANGED <<now, codes, reused>>

\* The same request when a check fails: the code is gone all the same.
BurnCode(s, c, cl, uri, v, p) ==
  /\ c \in stored
  /\ ~(CodeAccepted(c, cl, uri, v) /\ ProofAccepted(s, p))
  /\ stored' = Consume(c)
  /\ UNCHANGED <<now, codes, refreshVars>>
-----------------------------------------------------------------------------
(* POST /token, grant_type=refresh_token.  The checks come in this order:  *)
(* revoked, expired, used, client, binding.                                *)

Expired(t) == now >= refresh[t].expires

\* Mutant: only the token the family is named after is revoked.
RevokeFamilyRoot(f) == refresh' = [refresh EXCEPT ![f].revoked = TRUE]

RevokeFamily(f) ==
  refresh' = [t \in Token |->
                IF t \in Issued /\ refresh[t].family = f
                  THEN [refresh[t] EXCEPT !.revoked = TRUE]
                  ELSE refresh[t]]

RefreshExpired(t) ==
  /\ ~refresh[t].revoked
  /\ Expired(t)
  /\ refresh' = [refresh EXCEPT ![t].revoked = TRUE]
  /\ UNCHANGED <<now, codeVars, parent, reused, held>>

RefreshReused(t) ==
  /\ ~refresh[t].revoked
  /\ ~Expired(t)
  /\ refresh[t].used
  /\ RevokeFamily(refresh[t].family)
  /\ reused' = reused \cup {refresh[t].family}
  /\ UNCHANGED <<now, codeVars, parent, held>>

\* Mutant of consume_token: used_at is never set.
ConsumedUnmarked(r) == r

\* consume_token once every check has passed.
Consumed(r) == [r EXCEPT !.used = TRUE]

\* Mutant: verify_refresh_binding_metadata is not called.
MayUseAnySession(r, cl, s) == r.client = cl

\* The record belongs to this client and to this session.
MayUse(r, cl, s) == r.client = cl /\ r.binding = s

\* The token is rotated before the binding proof is looked at, so a bad proof
\* costs the client its token: the successor exists but is never sent.
RefreshRotate(s, cl, t, p, u) ==
  /\ Live(t)
  /\ ~Expired(t)
  /\ MayUse(refresh[t], cl, s)
  /\ u \notin Issued
  /\ refresh' = [refresh EXCEPT
                   ![t] = Consumed(refresh[t]),
                   ![u] = NewRecord(refresh[t].family, cl, refresh[t].subject, s)]
  /\ parent' = [parent EXCEPT ![u] = t]
  /\ IF ProofAccepted(s, p) THEN Answer(u) ELSE UNCHANGED held
  /\ UNCHANGED <<now, codeVars, reused>>
-----------------------------------------------------------------------------
Tick ==
  /\ now < MaxTime
  /\ now' = now + 1
  /\ UNCHANGED <<codeVars, refreshVars>>

CodeRequest ==
  \E c \in Code :
    \/ ValidateCode(c)
    \/ \E cl \in Client, uri \in RedirectUri, v \in Verifier :
         \/ \E u \in User : Authorize(c, cl, uri, u, v)
         \/ \E s \in Session, p \in Session \cup {NoProof} :
              \/ BurnCode(s, c, cl, uri, v, p)
              \/ \E t \in Token : RedeemCode(s, c, cl, uri, v, p, t)

RefreshRequest ==
  \E t \in held :
    \/ RefreshExpired(t)
    \/ RefreshReused(t)
    \/ \E s \in Session, cl \in Client, p \in Session \cup {NoProof}, u \in Token :
         RefreshRotate(s, cl, t, p, u)

Next == CodeRequest \/ RefreshRequest \/ Tick

Spec == Init /\ [][Next]_vars
-----------------------------------------------------------------------------
(* Properties *)

TypeOK ==
  /\ now \in Nat
  /\ codes \in [Code -> AuthorizationCodeRecord \cup {NoRecord}]
  /\ stored \subseteq {c \in Code : codes[c] # NoRecord}
  /\ refresh \in [Token -> RefreshTokenRecord \cup {NoRecord}]
  /\ parent \in [Token -> Code \cup Token \cup {NoRecord}]
  /\ reused \subseteq Token
  /\ held \subseteq Issued

\* No authorization code and no refresh token ever buys two refresh tokens,
\* whatever is retried, replayed, refused or lost in between
\* (RefreshTokenStore "enforces single-use rotation").
SingleUse ==
  \A t, u \in Issued : parent[t] = parent[u] => t = u

\* Of all the tokens ever issued in a family at most one can still be
\* exchanged (consume_token marks the old one before the new one is issued).
OneLivePerFamily ==
  \A t, u \in Token :
    Live(t) /\ Live(u) /\ refresh[t].family = refresh[u].family => t = u

\* Once the server has answered "refresh token reuse detected", no token of
\* that family is usable again, the newest one included (revoke_family).
ReusedFamilyIsDead ==
  \A t \in Issued : refresh[t].family \in reused => refresh[t].revoked

\* However often a family is rotated, all its tokens stay with the client,
\* the subject and the KEMTLS session the first one was issued to, which are
\* those of the authorization code that started it.
FamilyKeepsItsOwner ==
  \A t \in Issued :
    LET f == refresh[t].family
    IN  /\ f \in Issued
        /\ refresh[t].client = refresh[f].client
        /\ refresh[t].subject = refresh[f].subject
        /\ refresh[t].binding = refresh[f].binding
        /\ parent[f] \in Code \ stored
        /\ codes[parent[f]].client = refresh[f].client
        /\ codes[parent[f]].user = refresh[f].subject

\* The store implements the promise of RefreshRotation.
StatusOf(t) ==
  IF t \notin Issued THEN "fresh"
  ELSE IF refresh[t].revoked THEN "revoked"
  ELSE IF refresh[t].used THEN "used" ELSE "live"

Rotation == INSTANCE RefreshRotation WITH
  NoFamily <- NoRecord,
  status <- [t \in Token |-> StatusOf(t)],
  family <- [t \in Token |-> IF t \in Issued THEN refresh[t].family ELSE NoRecord]

\* Every step of the endpoints is a step of RefreshRotation or leaves its
\* state alone: tokens only ever go fresh, live, used, revoked, and a whole
\* family dies at once.
ImplementsRotation == Rotation!Spec
=============================================================================
