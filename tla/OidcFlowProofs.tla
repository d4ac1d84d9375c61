--------------------------- MODULE OidcFlowProofs ---------------------------
(***************************************************************************)
(* Proofs about OidcFlow for any numbers of verifiers, codes, tokens,      *)
(* sessions and lost exchanges and any lifetimes.  A run of the client is a *)
(* run of the authorization server of TokenService, so that everything     *)
(* TokenServiceProofs proves of the server's invariant is available here.  *)
(***************************************************************************)
EXTENDS OidcFlow, TLAPS

\* TokenService with its theorems, for the one client of this module.
P == INSTANCE TokenServiceProofs WITH
  Client <- {App}, User <- {Alice}, RedirectUri <- {Uri}, Registry <- [c \in {App} |-> {Uri}]

-----------------------------------------------------------------------------
(* The inductive invariant *)

ConnectionRecord == [server: {"auth", "resource"}, session: Nat, carrier: Carrier, trust: Trust]
HttpClient == [key: Key, conn: ConnectionRecord \cup {None}, trust: Trust, carrier: Carrier]

HttpFine ==
  /\ opened \in 0..MaxSessions /\ lost \in 0..MaxLost
  /\ http \in [Http -> HttpClient]
  /\ \A h \in Http : http[h].conn # None => http[h].conn.session \in 1..opened

ClientFine ==
  /\ drawn \subseteq Verifier /\ granted \subseteq Code
  /\ oidc \in [code_verifier: drawn \cup {None}, access_token: held \cup {None},
               refresh_token: held \cup {None}]

\* Every access token is bound to a binding key and outlives its issue by one
\* lifetime at the most.
BoundToKey ==
  /\ access \in [Token -> AccessTokenClaims \cup {NoRecord}]
  /\ \A t \in Token : access[t] # NoRecord =>
       /\ t \in P!Issued
       /\ access[t].kmt = "kemtls-pop-v1" /\ access[t].jwk \in Key
       /\ access[t].expires \in Nat /\ access[t].expires <= now + AccessLifetime

\* No access token was issued in a family after that was revoked.
DeadFamilies ==
  /\ dead_at \in [Token -> Nat \cup {None}]
  /\ \A f \in Token : dead_at[f] # None => f \in reused
  /\ \A t \in P!Issued :
       LET d == dead_at[refresh[t].family]
       IN  access[t] # NoRecord /\ d # None => access[t].expires <= d + AccessLifetime

IInv ==
  /\ P!IInv /\ HttpFine /\ ClientFine
  /\ BoundToKey /\ DeadFamilies /\ OnlyHolderServed /\ HeldTokenLive

-----------------------------------------------------------------------------
(* The server is that of TokenService.                                     *)

LEMMA Assumptions == P!ServiceAssumption /\ P!NoRecordAssumption
<1>1. P!ServiceAssumption
  BY FlowAssumption, ServerAssumption DEF P!ServiceAssumption, Session
<1>2. /\ Server!AuthorizationCodeRecord = P!AuthorizationCodeRecord
      /\ Server!RefreshTokenRecord = P!RefreshTokenRecord
  BY DEF P!AuthorizationCodeRecord, Server!AuthorizationCodeRecord, P!RefreshTokenRecord,
         Server!RefreshTokenRecord, P!Challenge, Server!Challenge, P!S256, Server!S256
<1>3. P!NoRecordAssumption
  BY <1>2, ServerRecordAssumption DEF P!NoRecordAssumption
<1>4. QED
  BY <1>1, <1>3

LEMMA SameState ==
  /\ P!Issued = Server!Issued
  /\ \A t : P!Live(t) <=> Server!Live(t)
  /\ P!TypeOK <=> Server!TypeOK
  /\ \A v : P!S256(v) = Server!S256(v)
  /\ P!Init <=> Server!Init
  /\ P!vars = server /\ Server!vars = server
BY DEF P!TypeOK, Server!TypeOK, P!Issued, Server!Issued, P!Live, Server!Live,
       P!AuthorizationCodeRecord, Server!AuthorizationCodeRecord, P!RefreshTokenRecord,
       Server!RefreshTokenRecord, P!Challenge, Server!Challenge, P!S256, Server!S256,
       P!Init, Server!Init, P!vars, Server!vars, server

LEMMA SameCodeSteps ==
  ASSUME NEW s, NEW c, NEW cl, NEW uri, NEW u, NEW v, NEW p, NEW t
  PROVE  /\ Server!Authorize(c, cl, uri, u, v) <=> P!Authorize(c, cl, uri, u, v)
         /\ Server!BurnCode(s, c, cl, uri, v, p) <=> P!BurnCode(s, c, cl, uri, v, p)
         /\ Server!RedeemCode(s, c, cl, uri, v, p, t) <=> P!RedeemCode(s, c, cl, uri, v, p, t)
BY SameState
DEF P!Authorize, Server!Authorize, P!BurnCode, Server!BurnCode, P!RedeemCode,
    Server!RedeemCode, P!refreshVars, Server!refreshVars, P!S256, Server!S256,
    P!CodeAccepted, Server!CodeAccepted, P!ProofAccepted, Server!ProofAccepted,
    P!Consume, Server!Consume, P!NewRecord, Server!NewRecord, P!Answer, Server!Answer

LEMMA SameRefreshSteps ==
  ASSUME NEW s, NEW cl, NEW p, NEW t, NEW u
  PROVE  /\ Server!RefreshExpired(t) <=> P!RefreshExpired(t)
         /\ Server!RefreshReused(t) <=> P!RefreshReused(t)
         /\ Server!RefreshRotate(s, cl, t, p, u) <=> P!RefreshRotate(s, cl, t, p, u)
BY SameState
DEF P!RefreshExpired, Server!RefreshExpired, P!RefreshReused, Server!RefreshReused,
    P!RefreshRotate, Server!RefreshRotate, P!codeVars, Server!codeVars, P!Expired,
    Server!Expired, P!RevokeFamily, Server!RevokeFamily, P!Consumed, Server!Consumed,
    P!MayUse, Server!MayUse, P!NewRecord, Server!NewRecord, P!ProofAccepted,
    Server!ProofAccepted, P!Answer, Server!Answer

LEMMA SameTick == Server!Tick <=> P!Tick
BY DEF Server!Tick, P!Tick, Server!codeVars, P!codeVars, Server!refreshVars, P!refreshVars


-----------------------------------------------------------------------------
(* Sessions *)

LEMMA SessionOf ==
  ASSUME HttpFine, NEW h \in Http, NEW e, NEW s, Over(h, e, s)
  PROVE  /\ s \in Session /\ s \in Nat
         /\ Opens(s) => opened' \in 0..MaxSessions /\ opened <= opened' /\ s \in 1..opened'
<1>1. opened \in Nat /\ MaxSessions \in Nat /\ opened <= MaxSessions
  BY FlowAssumption DEF HttpFine
<1>2. CASE Reusable(h, e)
  <2>1. s \in 1..opened
    BY <1>2 DEF Over, Reusable, HttpFine
  <2>2. QED
    BY <1>1, <2>1 DEF Session, Opens
<1>3. CASE ~Reusable(h, e)
  <2>1. s = opened + 1 /\ s \in 1..MaxSessions
    BY <1>3 DEF Over, Session
  <2>2. QED
    BY <1>1, <2>1 DEF Session, Opens
<1>4. QED
  BY <1>2, <1>3

\* Where a request leaves the HTTP client, answered or not.
LEMMA HttpKeeps ==
  ASSUME HttpFine, NEW h \in Http, NEW e \in {"auth", "resource"}, NEW s, Over(h, e, s),
         Answered(h, e, s) \/ Lost(h, s)
  PROVE  /\ HttpFine' /\ lost' \in Nat /\ lost \in Nat
         /\ Answered(h, e, s) => lost' = lost
         /\ Lost(h, s) => lost' = lost + 1
<1> DEFINE conn == Connection(h, e, s)
<1>1. /\ Opens(s) /\ opened' \in 0..MaxSessions /\ opened <= opened' /\ s \in 1..opened'
      /\ opened \in Nat
  BY SessionOf DEF Answered, Lost, HttpFine
<1>2. conn \in ConnectionRecord /\ conn.session \in 1..opened'
  <2>1. CASE Reusable(h, e)
    <3>1. conn = http[h].conn /\ conn # None
      BY <2>1 DEF Connection, Reusable
    <3>2. conn \in ConnectionRecord /\ conn.session \in 1..opened
      BY <3>1 DEF HttpFine, HttpClient
    <3>3. QED
      BY <1>1, <3>2
  <2>2. CASE ~Reusable(h, e)
    BY <1>1, <2>2 DEF Connection, ConnectionRecord, HttpFine, HttpClient
  <2>3. QED
    BY <2>1, <2>2
<1>3. \E c \in {conn, None} : http' = [http EXCEPT ![h].conn = c]
  BY DEF Answered, Lost, Keeps, Drops
<1> HIDE DEF conn
<1>4. http' \in [Http -> HttpClient]
  BY <1>2, <1>3 DEF HttpFine, HttpClient
<1>5. \A g \in Http : http'[g].conn # None => http'[g].conn.session \in 1..opened'
  BY <1>1, <1>2, <1>3 DEF HttpFine, HttpClient
<1>6. /\ lost \in Nat /\ lost' \in 0..MaxLost
      /\ Answered(h, e, s) => lost' = lost
      /\ Lost(h, s) => lost' = lost + 1
  BY FlowAssumption DEF HttpFine, Answered, Lost
<1>7. QED
  BY <1>1, <1>4, <1>5, <1>6 DEF HttpFine

-----------------------------------------------------------------------------
(* What the steps of the client do                                         *)

\* The answer with tokens t came or was lost.
Issues(call, t) ==
  /\ \E k \in Key : access' = [access EXCEPT ![t] =
       [kmt |-> "kemtls-pop-v1", jwk |-> k, expires |-> now + AccessLifetime]]
  /\ \/ /\ t \in held' /\ lost' = lost /\ oidc' = Stores(t)
        /\ reply' = Reply(call, "ok", t, "own")
     \/ lost' = lost + 1 /\ oidc' = oidc /\ reply' = Raised(call)

\* No tokens were issued.
Nothing(call) == UNCHANGED <<access, oidc>> /\ reply' = Raised(call)

LEMMA IssuesEffect ==
  ASSUME HttpFine, NEW call, NEW s, NEW t, Over("own", "auth", s), TokensIssued(call, s, t)
  PROVE  Issues(call, t) /\ HttpFine'
<1>1. "own" \in Http /\ "auth" \in {"auth", "resource"}
  BY DEF Http
<1>2. /\ HttpFine'
      /\ Answered("own", "auth", s) => lost' = lost
      /\ Lost("own", s) => lost' = lost + 1
  <2>1. Answered("own", "auth", s) \/ Lost("own", s)
    BY DEF TokensIssued
  <2>2. QED
    BY <1>1, <2>1, HttpKeeps
<1>3. /\ http["own"].key \in Key
      /\ Claims(BindingProof("own", s, "/token"), s) =
           [kmt |-> "kemtls-pop-v1", jwk |-> http["own"].key, expires |-> now + AccessLifetime]
  <2>1. http["own"].key \in Key
    BY <1>1 DEF HttpFine, HttpClient
  <2>2. s \in Nat
    BY <1>1 DEF Over, Reusable, HttpFine, HttpClient, ConnectionRecord, Session
  <2>3. BindingProof("own", s, "/token") # NoProof
    BY <2>1, <2>2, ProofAssumption DEF BindingProof
  <2>4. QED
    BY <2>1, <2>3 DEF Claims, BindingProof
<1>4. QED
  BY <1>2, <1>3 DEF TokensIssued, Issues

LEMMA NothingEffect ==
  ASSUME HttpFine, NEW call, NEW s, Over("own", "auth", s),
         Refused(call, s) \/ NeverSent(call, s)
  PROVE  /\ Nothing(call) /\ HttpFine' /\ lost' \in Nat /\ lost \in Nat /\ lost <= lost'
         /\ Refused(call, s) => lost' = lost
<1>1. "own" \in Http /\ "auth" \in {"auth", "resource"}
  BY DEF Http
<1>2. /\ Answered("own", "auth", s) \/ Lost("own", s)
      /\ Refused(call, s) => Answered("own", "auth", s)
  BY DEF Refused, NeverSent
<1>3. /\ HttpFine'
      /\ Answered("own", "auth", s) => lost' = lost
      /\ Lost("own", s) => lost' = lost + 1
  BY <1>1, <1>2, HttpKeeps
<1>4. Nothing(call)
  BY DEF Refused, NeverSent, Nothing
<1>5. lost \in Nat /\ lost' \in Nat
  BY <1>1, <1>2, HttpKeeps
<1>6. QED
  BY <1>2, <1>3, <1>4, <1>5

LEMMA ExchangeEffect ==
  ASSUME HttpFine, ClientFine, NEW c \in Code, ExchangeCode(c)
  PROVE  /\ HttpFine' /\ UNCHANGED <<drawn, granted, dead_at>> /\ oidc.code_verifier \in Verifier
         /\ \/ \E s \in Session, t \in Token :
                 /\ P!RedeemCode(s, c, App, Uri, oidc.code_verifier, s, t)
                 /\ Issues("exchange_code", t)
            \/ /\ Nothing("exchange_code") /\ lost \in Nat /\ lost' \in Nat /\ lost <= lost'
               /\ \/ UNCHANGED server
                  \/ \E s \in Session : P!BurnCode(s, c, App, Uri, oidc.code_verifier, s)
<1>1. oidc.code_verifier \in Verifier /\ UNCHANGED <<drawn, granted, dead_at>>
  BY DEF ExchangeCode, ClientFine
<1>2. PICK s \in Session :
        /\ Over("own", "auth", s)
        /\ \/ \E t \in Token : Server!RedeemCode(s, c, App, Uri, oidc.code_verifier, s, t)
                               /\ TokensIssued("exchange_code", s, t)
           \/ Server!BurnCode(s, c, App, Uri, oidc.code_verifier, s) /\ Refused("exchange_code", s)
           \/ c \notin stored /\ UNCHANGED server /\ Refused("exchange_code", s)
           \/ NeverSent("exchange_code", s)
  BY DEF ExchangeCode
<1>3. ASSUME NEW t \in Token, Server!RedeemCode(s, c, App, Uri, oidc.code_verifier, s, t),
             TokensIssued("exchange_code", s, t)
      PROVE  /\ P!RedeemCode(s, c, App, Uri, oidc.code_verifier, s, t)
             /\ Issues("exchange_code", t) /\ HttpFine'
  BY <1>2, <1>3, SameCodeSteps, IssuesEffect
<1>4. CASE Refused("exchange_code", s) \/ NeverSent("exchange_code", s)
  <2>1. /\ Nothing("exchange_code") /\ HttpFine'
        /\ lost' \in Nat /\ lost \in Nat /\ lost <= lost'
    BY <1>2, <1>4, NothingEffect
  <2>2. CASE UNCHANGED server
    BY <1>1, <2>1, <2>2
  <2>3. CASE Server!BurnCode(s, c, App, Uri, oidc.code_verifier, s)
    <3>1. P!BurnCode(s, c, App, Uri, oidc.code_verifier, s)
      BY <2>3, SameCodeSteps
    <3>2. QED
      BY <1>1, <2>1, <3>1
  <2>4. CASE \E t \in Token : Server!RedeemCode(s, c, App, Uri, oidc.code_verifier, s, t)
                              /\ TokensIssued("exchange_code", s, t)
    BY <1>1, <1>3, <2>4
  <2>5. QED
    BY <1>2, <2>2, <2>3, <2>4 DEF NeverSent
<1>5. QED
  BY <1>1, <1>2, <1>3, <1>4


LEMMA RefreshEffect ==
  ASSUME HttpFine, ClientFine, NEW t, t = oidc.refresh_token, Refresh
  PROVE  /\ t \in held /\ HttpFine' /\ UNCHANGED <<drawn, granted>>
         /\ \/ \E s \in Session, u \in Token :
                 /\ P!RefreshRotate(s, App, t, s, u)
                 /\ Issues("refresh", u) /\ UNCHANGED dead_at
            \/ /\ Nothing("refresh") /\ lost \in Nat /\ lost' \in Nat /\ lost <= lost'
               /\ \/ UNCHANGED <<server, dead_at>>
                  \/ P!RefreshExpired(t) /\ UNCHANGED dead_at
                  \/ /\ P!RefreshReused(t) /\ lost' = lost
                     /\ dead_at' = [dead_at EXCEPT ![refresh[t].family] = now]
<1>1. t \in held /\ UNCHANGED <<drawn, granted>>
  BY DEF Refresh, ClientFine
<1>2. PICK s \in Session :
        /\ Over("own", "auth", s)
        /\ \/ /\ \E u \in Token : Server!RefreshRotate(s, App, t, s, u)
                                  /\ TokensIssued("refresh", s, u)
              /\ UNCHANGED dead_at
           \/ NotRotated(t, s) /\ Refused("refresh", s)
           \/ NeverSent("refresh", s) /\ UNCHANGED dead_at
  BY DEF Refresh
<1>3. ASSUME NEW u \in Token, Server!RefreshRotate(s, App, t, s, u),
             TokensIssued("refresh", s, u)
      PROVE  P!RefreshRotate(s, App, t, s, u) /\ Issues("refresh", u) /\ HttpFine'
  BY <1>2, <1>3, SameRefreshSteps, IssuesEffect
<1>4. ASSUME Refused("refresh", s) \/ NeverSent("refresh", s)
      PROVE  /\ Nothing("refresh") /\ HttpFine'
             /\ lost' \in Nat /\ lost \in Nat /\ lost <= lost'
             /\ Refused("refresh", s) => lost' = lost
  BY <1>2, <1>4, NothingEffect
<1>5. CASE \E u \in Token : Server!RefreshRotate(s, App, t, s, u) /\ TokensIssued("refresh", s, u)
                            /\ UNCHANGED dead_at
  BY <1>1, <1>3, <1>5
<1>6. CASE NotRotated(t, s) /\ Refused("refresh", s)
  <2>1. \/ UNCHANGED <<server, dead_at>>
        \/ P!RefreshExpired(t) /\ UNCHANGED dead_at
        \/ /\ P!RefreshReused(t)
           /\ dead_at' = [dead_at EXCEPT ![refresh[t].family] = now]
    BY <1>6, SameRefreshSteps DEF NotRotated
  <2>2. QED
    BY <1>1, <1>4, <1>6, <2>1
<1>7. CASE NeverSent("refresh", s) /\ UNCHANGED dead_at
  <2>1. UNCHANGED server
    BY <1>7 DEF NeverSent
  <2>2. QED
    BY <1>1, <1>4, <1>7, <2>1
<1>8. QED
  BY <1>2, <1>5, <1>6, <1>7

-----------------------------------------------------------------------------
(* The kinds of step of the whole flow. *)

\* Nothing happens to refresh tokens and access tokens.
Quiet ==
  /\ UNCHANGED <<refresh, reused, held, access, dead_at>>
  /\ oidc'.refresh_token = oidc.refresh_token
  /\ now' \in Nat /\ now <= now' /\ lost \in Nat /\ lost' \in Nat /\ lost <= lost'
  /\ HttpFine' /\ ClientFine' /\ OnlyHolderServed'

\* Tokens t are issued: in a new family, or in that of the live token r.
Bought(t) ==
  /\ t \notin P!Issued /\ P!Issued' = P!Issued \cup {t} /\ reused' = reused /\ now' = now
  /\ UNCHANGED dead_at
  /\ \E k \in Key : access' = [access EXCEPT ![t] =
       [kmt |-> "kemtls-pop-v1", jwk |-> k, expires |-> now + AccessLifetime]]
  /\ P!Live(t)'
  /\ \A x \in P!Issued : refresh'[x].family = refresh[x].family
  /\ \/ refresh'[t].family = t
     \/ \E r \in P!Issued : P!Live(r) /\ refresh'[t].family = refresh[r].family
  /\ \/ lost' = lost /\ oidc'.refresh_token = t
     \/ lost \in Nat /\ lost' = lost + 1
  /\ HttpFine' /\ ClientFine' /\ OnlyHolderServed'

\* The client's own token was refused for its age, or for a second use.
Spent(t) ==
  /\ t = oidc.refresh_token /\ t # None /\ t \in P!Issued
  /\ UNCHANGED <<oidc, access, now>>
  /\ lost \in Nat /\ lost' \in Nat /\ lost <= lost' /\ P!Issued' = P!Issued
  /\ \A x \in P!Issued : /\ refresh'[x].family = refresh[x].family
                         /\ refresh'[x].expires = refresh[x].expires
  /\ \/ /\ UNCHANGED <<reused, dead_at>> /\ now >= refresh[t].expires
     \/ /\ refresh[t].used /\ ~(now >= refresh[t].expires) /\ lost' = lost
        /\ reused' = reused \cup {refresh[t].family}
        /\ dead_at' = [dead_at EXCEPT ![refresh[t].family] = now]
  /\ HttpFine' /\ ClientFine' /\ OnlyHolderServed'

LEMMA Unserved ==
  ASSUME \/ reply'.status \notin {"200", "active"}
         \/ OnlyHolderServed /\ reply' = reply /\ access' = access
  PROVE  OnlyHolderServed'
BY DEF OnlyHolderServed

LEMMA NothingClient ==
  ASSUME ClientFine, NEW call, Nothing(call), UNCHANGED <<drawn, granted, held>>
  PROVE  ClientFine' /\ OnlyHolderServed' /\ UNCHANGED <<access, oidc>>
<1>1. reply'.status = "raised" /\ UNCHANGED <<access, oidc>>
  BY DEF Nothing, Raised, Reply
<1>2. QED
  BY <1>1, Unserved DEF ClientFine

LEMMA IssuesClient ==
  ASSUME ClientFine, NEW call, NEW t, Issues(call, t), UNCHANGED <<drawn, granted>>,
         held' = held \/ held' = held \cup {t}
  PROVE  /\ ClientFine' /\ OnlyHolderServed'
         /\ (lost' = lost /\ oidc'.refresh_token = t) \/ lost' = lost + 1
<1>1. reply'.status \in {"ok", "raised"}
  BY DEF Issues, Raised, Reply
<1>2. OnlyHolderServed'
  BY <1>1, Unserved
<1>3. CASE t \in held' /\ lost' = lost /\ oidc' = Stores(t)
  <2>1. /\ oidc' \in [code_verifier: drawn \cup {None}, access_token: held' \cup {None},
                      refresh_token: held' \cup {None}]
        /\ oidc'.refresh_token = t
    BY <1>3 DEF Stores, ClientFine
  <2>2. QED
    BY <1>2, <1>3, <2>1 DEF ClientFine
<1>4. CASE lost' = lost + 1 /\ oidc' = oidc
  BY <1>2, <1>4 DEF ClientFine
<1>5. QED
  BY <1>3, <1>4 DEF Issues


-----------------------------------------------------------------------------
(* Every step is a step of the server and of one of the kinds above. *)

LEMMA ServerNext ==
  /\ \A c \in Code, v \in Verifier : P!Authorize(c, App, Uri, Alice, v) => P!Next
  /\ \A c \in Code, v \in Verifier, s \in Session :
       /\ P!BurnCode(s, c, App, Uri, v, s) => P!Next
       /\ \A t \in Token : P!RedeemCode(s, c, App, Uri, v, s, t) => P!Next
  /\ \A t \in held, s \in Session, u \in Token : P!RefreshRotate(s, App, t, s, u) => P!Next
  /\ \A t \in held : P!RefreshExpired(t) \/ P!RefreshReused(t) => P!Next
  /\ P!Tick => P!Next
<1>1. /\ App \in {App} /\ Uri \in {Uri} /\ Alice \in {Alice}
      /\ \A s \in Session : s \in Session \cup {NoProof}
  OBVIOUS
<1>2. \A c \in Code, v \in Verifier : P!Authorize(c, App, Uri, Alice, v) => P!Next
  BY <1>1 DEF P!Next, P!CodeRequest
<1>3. \A c \in Code, v \in Verifier, s \in Session : P!BurnCode(s, c, App, Uri, v, s) => P!Next
  BY <1>1 DEF P!Next, P!CodeRequest
<1>4. \A c \in Code, v \in Verifier, s \in Session, t \in Token :
        P!RedeemCode(s, c, App, Uri, v, s, t) => P!Next
  BY <1>1 DEF P!Next, P!CodeRequest
<1>5. \A t \in held, s \in Session, u \in Token : P!RefreshRotate(s, App, t, s, u) => P!Next
  BY <1>1 DEF P!Next, P!RefreshRequest
<1>6. \A t \in held : P!RefreshExpired(t) \/ P!RefreshReused(t) => P!Next
  BY DEF P!Next, P!RefreshRequest
<1>7. P!Tick => P!Next
  BY DEF P!Next
<1>8. QED
  BY <1>2, <1>3, <1>4, <1>5, <1>6, <1>7

\* What the kinds are to be proved from.
Before == P!TypeOK /\ HttpFine /\ ClientFine /\ BoundToKey /\ OnlyHolderServed

LEMMA TimeAndLosses == Before => now \in Nat /\ lost \in Nat
BY FlowAssumption DEF Before, HttpFine, P!TypeOK

LEMMA StartAuthKind ==
  ASSUME Before, NEW v \in Verifier, StartAuth(v)
  PROVE  UNCHANGED server /\ Quiet
<1>1. now \in Nat /\ lost \in Nat
  BY TimeAndLosses
<1>2. OnlyHolderServed'
  BY Unserved DEF StartAuth, NoCall, Raised, Reply
<1>3. HttpFine'
  BY DEF StartAuth, Before, HttpFine
<1>4. ClientFine'
  BY DEF StartAuth, Before, ClientFine, server
<1>5. oidc'.refresh_token = oidc.refresh_token
  BY DEF StartAuth, Before, ClientFine
<1>6. QED
  BY <1>1, <1>2, <1>3, <1>4, <1>5 DEF StartAuth, Quiet, server, Tokens

LEMMA AuthorizeKind ==
  ASSUME Before, NEW c \in Code, NEW v \in Verifier, Authorize(c, v)
  PROVE  P!Next /\ Quiet
<1>1. now \in Nat /\ lost \in Nat
  BY TimeAndLosses
<1>2. PICK s \in Session :
        /\ Over("own", "auth", s)
        /\ \/ Answered("own", "auth", s) /\ granted' = granted \cup {c}
           \/ Lost("own", s) /\ UNCHANGED granted
  BY DEF Authorize
<1>3. HttpFine' /\ lost' \in Nat /\ lost <= lost'
  <2>1. "own" \in Http /\ "auth" \in {"auth", "resource"}
    BY DEF Http
  <2>2. /\ HttpFine' /\ lost' \in Nat
        /\ Answered("own", "auth", s) => lost' = lost
        /\ Lost("own", s) => lost' = lost + 1
    BY <1>2, <2>1, HttpKeeps DEF Before
  <2>3. QED
    BY <1>1, <1>2, <2>2
<1>4. P!Authorize(c, App, Uri, Alice, v)
  <2>1. Server!Authorize(c, App, Uri, Alice, v)
    BY DEF Authorize
  <2>2. QED
    BY <2>1, SameCodeSteps
<1>5. UNCHANGED <<now, refresh, parent, reused, held>>
  BY <1>4 DEF P!Authorize, P!refreshVars
<1>6. ClientFine'
  BY <1>2, <1>5 DEF Authorize, Before, ClientFine
<1>7. OnlyHolderServed'
  BY Unserved DEF Authorize, Before, Tokens
<1>8. QED
  BY <1>1, <1>3, <1>4, <1>5, <1>6, <1>7, ServerNext DEF Authorize, Quiet, Tokens

LEMMA CallKind ==
  ASSUME Before, NEW h \in Http, CallApi(h) \/ Introspect(h)
  PROVE  UNCHANGED server /\ Quiet
<1>1. now \in Nat /\ lost \in Nat
  BY TimeAndLosses
<1> DEFINE t == oidc.access_token
<1>2. t \in Token
  BY DEF CallApi, Introspect, Before, ClientFine, P!TypeOK, P!Issued
<1>3. UNCHANGED <<server, access, dead_at, oidc, drawn, granted>>
  BY DEF CallApi, Introspect, Tokens
<1>4. PICK e \in {"auth", "resource"}, s \in Session :
        /\ Over(h, e, s)
        /\ Answered(h, e, s) \/ Lost(h, s)
  BY DEF CallApi, Introspect
<1>5. HttpFine' /\ lost' \in Nat /\ lost <= lost'
  <2>1. /\ HttpFine' /\ lost' \in Nat
        /\ Answered(h, e, s) => lost' = lost
        /\ Lost(h, s) => lost' = lost + 1
    BY <1>4, HttpKeeps DEF Before
  <2>2. QED
    BY <1>1, <1>4, <2>1
<1>6. \/ reply'.status \notin {"200", "active"}
      \/ /\ reply'.token = t /\ reply'.by = http[h].key /\ reply'.call # "replay_attack"
         /\ \E u \in Session, at \in {"/userinfo", "/introspect"} :
              Valid(access[t]) /\ Bound(access[t], BindingProof(h, u, at), u, at)
  BY DEF CallApi, Introspect, Reply, Raised, UserInfo
<1>7. OnlyHolderServed'
  <2>1. CASE reply'.status \notin {"200", "active"}
    BY <2>1, Unserved
  <2>2. CASE reply'.status \in {"200", "active"}
    <3>1. access[t] # NoRecord
      BY <1>6, <2>2 DEF Valid
    <3>2. access[t].kmt = "kemtls-pop-v1"
      BY <1>2, <3>1 DEF Before, BoundToKey
    <3>3. access[t].jwk = http[h].key
      BY <1>6, <2>2, <3>2 DEF Bound, BindingProof
    <3>4. QED
      BY <1>3, <1>6, <2>2, <3>2, <3>3 DEF OnlyHolderServed
  <2>3. QED
    BY <2>1, <2>2
<1>8. ClientFine'
  BY <1>3 DEF Before, ClientFine, server
<1>9. QED
  BY <1>1, <1>3, <1>5, <1>7, <1>8 DEF Quiet, server

LEMMA ReplayKind ==
  ASSUME Before, ReplayAttack
  PROVE  UNCHANGED server /\ Quiet /\ reply'.status = "401"
<1>1. now \in Nat /\ lost \in Nat
  BY TimeAndLosses
<1> DEFINE t == oidc.access_token
           proof == [key |-> "fresh", session |-> opened + 1, at |-> "/userinfo"]
<1>2. t \in Token
  BY DEF ReplayAttack, Before, ClientFine, P!TypeOK, P!Issued
<1>3. ~(Valid(access[t]) /\ Bound(access[t], proof, opened + 1, "/userinfo"))
  <2>1. access[t] # NoRecord => access[t].kmt = "kemtls-pop-v1" /\ access[t].jwk \in Key
    BY <1>2 DEF Before, BoundToKey
  <2>2. "fresh" \notin Key
    BY DEF Key
  <2>3. QED
    BY <2>1, <2>2 DEF Valid, Bound
<1>4. reply'.status = "401"
  BY <1>3 DEF ReplayAttack, UserInfo, Reply
<1>5. OnlyHolderServed'
  BY <1>4, Unserved
<1>6. HttpFine'
  BY FlowAssumption DEF ReplayAttack, Before, HttpFine, Session
<1>7. ClientFine'
  BY DEF ReplayAttack, Before, ClientFine, server
<1>8. QED
  BY <1>1, <1>4, <1>5, <1>6, <1>7 DEF ReplayAttack, Quiet, server, Tokens

LEMMA SettingKind ==
  ASSUME Before, NEW h \in Http,
         \/ \E k \in Key : SetBindingKeypair(h, k)
         \/ \E trust \in Trust, carrier \in Carrier : SetFields(h, trust, carrier)
  PROVE  UNCHANGED server /\ Quiet
<1>1. now \in Nat /\ lost \in Nat
  BY TimeAndLosses
<1>2. UNCHANGED <<server, Tokens, oidc, drawn, granted, opened, lost>> /\ NoCall
  BY DEF SetBindingKeypair, SetFields
<1>3. OnlyHolderServed'
  BY <1>2, Unserved DEF NoCall, Raised, Reply
<1>4. /\ http' \in [Http -> HttpClient]
      /\ \A g \in Http : http'[g].conn = http[g].conn
  <2>1. http \in [Http -> HttpClient]
    BY DEF Before, HttpFine
  <2>2. ASSUME NEW k \in Key, SetBindingKeypair(h, k)
        PROVE  <1>4
    BY <2>1, <2>2 DEF SetBindingKeypair, HttpClient
  <2>3. ASSUME NEW trust \in Trust, NEW carrier \in Carrier, SetFields(h, trust, carrier)
        PROVE  <1>4
    <3> DEFINE r == [http[h] EXCEPT !.trust = trust, !.carrier = carrier]
    <3>1. http' = [http EXCEPT ![h] = r]
      BY <2>1, <2>3 DEF SetFields
    <3>2. r \in HttpClient /\ r.conn = http[h].conn
      BY <2>1 DEF HttpClient
    <3> HIDE DEF r
    <3>3. QED
      BY <2>1, <3>1, <3>2
  <2>4. QED
    BY <2>2, <2>3
<1>5. HttpFine' /\ ClientFine'
  BY <1>2, <1>4 DEF Before, HttpFine, ClientFine, server
<1>6. QED
  BY <1>1, <1>2, <1>3, <1>5 DEF Quiet, server, Tokens

LEMMA TickKind ==
  ASSUME Before, Tick
  PROVE  P!Next /\ Quiet
<1>1. now \in Nat /\ lost \in Nat
  BY TimeAndLosses
<1>2. P!Tick
  <2>1. Server!Tick
    BY DEF Tick
  <2>2. QED
    BY <2>1, SameTick
<1>3. UNCHANGED <<refresh, reused, held>> /\ now' = now + 1
  BY <1>2 DEF P!Tick, P!refreshVars
<1>4. OnlyHolderServed'
  BY Unserved DEF Tick, NoCall, Raised, Reply
<1>5. HttpFine' /\ ClientFine'
  BY <1>3 DEF Tick, Before, HttpFine, ClientFine
<1>6. QED
  BY <1>1, <1>2, <1>3, <1>4, <1>5, ServerNext DEF Tick, Quiet, Tokens


\* Tokens bought with a code, or with the client's own refresh token.
LEMMA BoughtByCode ==
  ASSUME Before, HttpFine', UNCHANGED <<drawn, granted, dead_at>>, NEW c \in Code,
         NEW v \in Verifier, NEW s \in Session, NEW t \in Token, NEW call,
         P!RedeemCode(s, c, App, Uri, v, s, t), Issues(call, t)
  PROVE  Bought(t)
<1>1. P!Redeemed(c, s, App, t)
  BY P!RedeemEffect, Assumptions DEF Before
<1>2. now' = now /\ (held' = held \/ held' = held \cup {t})
  BY DEF P!RedeemCode, P!Answer
<1>3. /\ ClientFine' /\ OnlyHolderServed'
      /\ (lost' = lost /\ oidc'.refresh_token = t) \/ lost' = lost + 1
  BY <1>2, IssuesClient DEF Before
<1>4. refresh'[t].family = t /\ P!Live(t)'
  BY <1>1 DEF P!Redeemed, P!NewRecord, P!Live
<1>5. /\ t \notin P!Issued /\ P!Issued' = P!Issued \cup {t} /\ reused' = reused
      /\ \A x \in P!Issued : refresh'[x].family = refresh[x].family
  BY <1>1 DEF P!Redeemed
<1>6. \E k \in Key : access' = [access EXCEPT ![t] =
        [kmt |-> "kemtls-pop-v1", jwk |-> k, expires |-> now + AccessLifetime]]
  BY DEF Issues
<1>7. QED
  BY <1>2, <1>3, <1>4, <1>5, <1>6, TimeAndLosses DEF Bought

LEMMA BoughtByToken ==
  ASSUME Before, HttpFine', UNCHANGED <<drawn, granted, dead_at>>, NEW r \in held,
         NEW s \in Session, NEW t \in Token, NEW call,
         P!RefreshRotate(s, App, r, s, t), Issues(call, t)
  PROVE  Bought(t)
<1>1. P!Rotated(r, s, App, t)
  BY P!RotateEffect, Assumptions DEF Before
<1>2. now' = now /\ (held' = held \/ held' = held \cup {t})
  BY DEF P!RefreshRotate, P!Answer
<1>3. /\ ClientFine' /\ OnlyHolderServed'
      /\ (lost' = lost /\ oidc'.refresh_token = t) \/ lost' = lost + 1
  BY <1>2, IssuesClient DEF Before
<1>4. r \in P!Issued /\ P!Live(r) /\ r \in Token
  BY <1>1 DEF P!Rotated, P!Live, P!Issued
<1>5. /\ refresh'[t].family = refresh[r].family
      /\ \A x \in P!Issued : refresh'[x].family = refresh[x].family
  BY <1>1, <1>4, P!RotatedFields, Assumptions DEF Before, P!TypeOK
<1>6. P!Live(t)'
  BY <1>1 DEF P!Rotated, P!NewRecord, P!Live
<1>7. t \notin P!Issued /\ P!Issued' = P!Issued \cup {t} /\ reused' = reused
  BY <1>1 DEF P!Rotated
<1>8. \E k \in Key : access' = [access EXCEPT ![t] =
        [kmt |-> "kemtls-pop-v1", jwk |-> k, expires |-> now + AccessLifetime]]
  BY DEF Issues
<1>9. QED
  BY <1>2, <1>3, <1>4, <1>5, <1>6, <1>7, <1>8, TimeAndLosses DEF Bought

LEMMA ExchangeKind ==
  ASSUME Before, NEW c \in Code, ExchangeCode(c)
  PROVE  /\ P!Next \/ UNCHANGED server
         /\ Quiet \/ \E t \in Token : Bought(t)
<1>1. now \in Nat /\ lost \in Nat
  BY TimeAndLosses
<1>2. /\ HttpFine' /\ UNCHANGED <<drawn, granted, dead_at>> /\ oidc.code_verifier \in Verifier
      /\ \/ \E s \in Session, t \in Token :
              /\ P!RedeemCode(s, c, App, Uri, oidc.code_verifier, s, t)
              /\ Issues("exchange_code", t)
         \/ /\ Nothing("exchange_code") /\ lost \in Nat /\ lost' \in Nat /\ lost <= lost'
            /\ \/ UNCHANGED server
               \/ \E s \in Session : P!BurnCode(s, c, App, Uri, oidc.code_verifier, s)
  BY ExchangeEffect DEF Before
<1>3. ASSUME NEW s \in Session, NEW t \in Token,
             P!RedeemCode(s, c, App, Uri, oidc.code_verifier, s, t), Issues("exchange_code", t)
      PROVE  P!Next /\ Bought(t)
  BY <1>2, <1>3, BoughtByCode, ServerNext
<1>4. CASE /\ Nothing("exchange_code") /\ lost \in Nat /\ lost' \in Nat /\ lost <= lost'
           /\ \/ UNCHANGED server
              \/ \E s \in Session : P!BurnCode(s, c, App, Uri, oidc.code_verifier, s)
  <2>1. UNCHANGED <<now, refresh, parent, reused, held>>
    BY <1>4 DEF P!BurnCode, P!refreshVars, server
  <2>2. ClientFine' /\ OnlyHolderServed' /\ UNCHANGED <<access, oidc>>
    BY <1>2, <1>4, <2>1, NothingClient DEF Before
  <2>3. Quiet
    BY <1>1, <1>2, <1>4, <2>1, <2>2 DEF Quiet
  <2>4. QED
    BY <1>2, <1>4, <2>3, ServerNext
<1>5. QED
  BY <1>2, <1>3, <1>4

LEMMA RefreshKind ==
  ASSUME Before, Refresh
  PROVE  /\ P!Next \/ UNCHANGED server
         /\ Quiet \/ \E t \in Token : Bought(t) \/ Spent(t)
<1>1. now \in Nat /\ lost \in Nat
  BY TimeAndLosses
<1>2. PICK t : t = oidc.refresh_token
  OBVIOUS
<1>3. /\ t \in held /\ HttpFine' /\ UNCHANGED <<drawn, granted>>
      /\ \/ \E s \in Session, u \in Token :
              /\ P!RefreshRotate(s, App, t, s, u)
              /\ Issues("refresh", u) /\ UNCHANGED dead_at
         \/ /\ Nothing("refresh") /\ lost \in Nat /\ lost' \in Nat /\ lost <= lost'
            /\ \/ UNCHANGED <<server, dead_at>>
               \/ P!RefreshExpired(t) /\ UNCHANGED dead_at
               \/ /\ P!RefreshReused(t) /\ lost' = lost
                  /\ dead_at' = [dead_at EXCEPT ![refresh[t].family] = now]
  BY <1>2, RefreshEffect DEF Before
<1>4. t \in P!Issued /\ t \in Token /\ P!Issued \subseteq Token
  BY <1>3 DEF Before, P!TypeOK, P!Issued
<1>5. ASSUME NEW s \in Session, NEW u \in Token, P!RefreshRotate(s, App, t, s, u),
             Issues("refresh", u), UNCHANGED dead_at
      PROVE  P!Next /\ Bought(u)
  BY <1>3, <1>5, BoughtByToken, ServerNext
<1>6. CASE Nothing("refresh") /\ UNCHANGED <<server, dead_at>>
           /\ lost' \in Nat /\ lost <= lost'
  <2>1. ClientFine' /\ OnlyHolderServed' /\ UNCHANGED <<access, oidc>>
    BY <1>3, <1>6, NothingClient DEF Before, server
  <2>2. Quiet
    BY <1>1, <1>3, <1>6, <2>1 DEF Quiet, server
  <2>3. QED
    BY <1>6, <2>2
<1>7. ASSUME Nothing("refresh"), lost' \in Nat, lost <= lost',
             \/ P!RefreshExpired(t) /\ UNCHANGED dead_at
             \/ /\ P!RefreshReused(t) /\ lost' = lost
                /\ dead_at' = [dead_at EXCEPT ![refresh[t].family] = now]
      PROVE  P!Next /\ Spent(t)
  <2>1. P!Next
    BY <1>3, <1>7, ServerNext
  <2>2. UNCHANGED <<now, held>>
    BY <1>7 DEF P!RefreshExpired, P!RefreshReused
  <2>3. ClientFine' /\ OnlyHolderServed' /\ UNCHANGED <<access, oidc>>
    BY <1>3, <1>7, <2>2, NothingClient DEF Before
  <2>4. PICK R \in SUBSET Token : P!Revoked(R)
    <3>1. CASE P!RefreshExpired(t)
      <4>1. P!Revoked({t})
        BY <1>3, <3>1, P!ExpireEffect, Assumptions DEF Before
      <4>2. QED
        BY <1>4, <4>1
    <3>2. CASE P!RefreshReused(t)
      <4> DEFINE R == {x \in P!Issued : refresh[x].family = refresh[t].family}
      <4>1. P!Revoked(R) /\ R \in SUBSET Token
        BY <1>3, <1>4, <3>2, P!ReuseEffect, Assumptions DEF Before
      <4> HIDE DEF R
      <4>2. QED
        BY <4>1
    <3>3. QED
      BY <1>7, <3>1, <3>2
  <2>5. \A x \in P!Issued : /\ refresh'[x].family = refresh[x].family
                            /\ refresh'[x].expires = refresh[x].expires
    <3>1. \A x \in P!Issued : \/ refresh'[x] = refresh[x]
                              \/ refresh'[x] = [refresh[x] EXCEPT !.revoked = TRUE]
      BY <2>4 DEF P!Revoked
    <3>2. \A x \in P!Issued : refresh[x] \in P!RefreshTokenRecord
      BY <2>4 DEF P!Revoked
    <3>3. QED
      BY <3>1, <3>2 DEF P!RefreshTokenRecord
  <2>6. P!Issued' = P!Issued
    BY <2>4 DEF P!Revoked
  <2>7. \/ UNCHANGED <<reused, dead_at>> /\ now >= refresh[t].expires
        \/ /\ refresh[t].used /\ ~(now >= refresh[t].expires) /\ lost' = lost
           /\ reused' = reused \cup {refresh[t].family}
           /\ dead_at' = [dead_at EXCEPT ![refresh[t].family] = now]
    BY <1>7 DEF P!RefreshExpired, P!RefreshReused, P!Expired
  <2>8. t # None
    BY <1>2 DEF Refresh
  <2>9. QED
    BY <1>1, <1>2, <1>3, <1>4, <1>7, <2>1, <2>2, <2>3, <2>5, <2>6, <2>7, <2>8 DEF Spent
<1>8. QED
  BY <1>3, <1>4, <1>5, <1>6, <1>7


LEMMA StepKinds ==
  ASSUME Before, [Next]_vars
  PROVE  /\ [P!Next]_(P!vars)
         /\ Quiet \/ \E t \in Token : Bought(t) \/ Spent(t)
<1>1. P!Next \/ UNCHANGED server => [P!Next]_(P!vars)
  BY DEF P!vars, server
<1>2. CASE \E v \in Verifier : StartAuth(v) \/ \E c \in Code : Authorize(c, v)
  BY <1>1, <1>2, StartAuthKind, AuthorizeKind
<1>3. CASE \E c \in Code : ExchangeCode(c)
  BY <1>1, <1>3, ExchangeKind
<1>4. CASE Refresh
  BY <1>1, <1>4, RefreshKind
<1>5. CASE ReplayAttack
  BY <1>1, <1>5, ReplayKind
<1>6. CASE Tick
  BY <1>1, <1>6, TickKind
<1>7. CASE \E h \in Http :
             \/ CallApi(h) \/ Introspect(h)
             \/ \E k \in Key : SetBindingKeypair(h, k)
             \/ \E trust \in Trust, carrier \in Carrier : SetFields(h, trust, carrier)
  BY <1>1, <1>7, CallKind, SettingKind
<1>8. CASE UNCHANGED vars
  <2>1. UNCHANGED <<server, access, oidc, drawn, granted, http, opened, lost, reply, dead_at>>
    BY <1>8 DEF vars
  <2>2. HttpFine' /\ ClientFine' /\ OnlyHolderServed'
    BY <2>1, Unserved DEF Before, HttpFine, ClientFine, server
  <2>3. QED
    BY <1>1, <2>1, <2>2, TimeAndLosses DEF Quiet, server
<1>9. QED
  BY <1>2, <1>3, <1>4, <1>5, <1>6, <1>7, <1>8 DEF Next

-----------------------------------------------------------------------------
(* The kinds of step keep the rest of the invariant. *)

LEMMA Counting == AccessLifetime \in Nat
BY FlowAssumption

LEMMA QuietKeeps ==
  ASSUME IInv, Quiet
  PROVE  BoundToKey' /\ DeadFamilies' /\ HeldTokenLive'
<1>1. now \in Nat /\ now' \in Nat /\ now <= now' /\ P!Issued' = P!Issued
  BY DEF Quiet, IInv, P!IInv, P!TypeOK, P!Issued
<1>2. BoundToKey'
  BY <1>1, Counting DEF Quiet, IInv, BoundToKey
<1>3. DeadFamilies'
  BY <1>1 DEF Quiet, IInv, DeadFamilies
<1>4. HeldTokenLive'
  <2> SUFFICES ASSUME lost' = 0
               PROVE  /\ reused' = {}
                      /\ oidc'.refresh_token # None =>
                           Server!Live(oidc.refresh_token)' \/ now' >= refresh'[oidc'.refresh_token].expires
    BY DEF HeldTokenLive, Quiet
  <2>1. lost = 0 /\ reused = {}
    BY DEF Quiet, IInv, HeldTokenLive
  <2>2. PICK t : t = oidc.refresh_token
    OBVIOUS
  <2>3. ASSUME t # None
        PROVE  /\ Server!Live(t) \/ now >= refresh[t].expires
               /\ refresh[t].expires \in Nat
    <3>1. t \in P!Issued /\ t \in Token
      BY <2>2, <2>3 DEF IInv, P!IInv, P!TypeOK, ClientFine, P!Issued
    <3>2. refresh[t] \in P!RefreshTokenRecord
      BY <3>1 DEF IInv, P!IInv, P!TypeOK, P!Issued
    <3>3. QED
      BY <2>1, <2>2, <2>3, <3>2 DEF IInv, HeldTokenLive, P!RefreshTokenRecord
  <2>4. ASSUME t # None
        PROVE  Server!Live(t)' \/ now' >= refresh'[t].expires
    BY <1>1, <2>3, <2>4 DEF Quiet, Server!Live, Server!Issued
  <2>5. QED
    BY <2>1, <2>2, <2>4 DEF Quiet
<1>5. QED
  BY <1>2, <1>3, <1>4

LEMMA BoughtKeeps ==
  ASSUME IInv, NEW t \in Token, Bought(t)
  PROVE  BoundToKey' /\ DeadFamilies' /\ HeldTokenLive'
<1>1. now \in Nat /\ now' = now /\ P!Issued \subseteq Token
  BY DEF Bought, IInv, P!IInv, P!TypeOK, P!Issued
<1>2. PICK k \in Key : access' = [access EXCEPT ![t] =
        [kmt |-> "kemtls-pop-v1", jwk |-> k, expires |-> now + AccessLifetime]]
  BY DEF Bought
<1> DEFINE claims == [kmt |-> "kemtls-pop-v1", jwk |-> k, expires |-> now + AccessLifetime]
<1>3. /\ claims \in AccessTokenClaims /\ claims.kmt = "kemtls-pop-v1" /\ claims.jwk \in Key
      /\ claims.expires \in Nat /\ claims.expires = now + AccessLifetime
  BY <1>1, Counting DEF AccessTokenClaims
<1>4. access' = [access EXCEPT ![t] = claims]
  BY <1>2
<1> HIDE DEF claims
<1>5. /\ access' \in [Token -> AccessTokenClaims \cup {NoRecord}]
      /\ access'[t] = claims /\ \A x \in Token \ {t} : access'[x] = access[x]
  BY <1>3, <1>4 DEF IInv, BoundToKey
<1>6. BoundToKey'
  <2> SUFFICES ASSUME NEW x \in Token, access'[x] # NoRecord
               PROVE  /\ x \in P!Issued'
                      /\ access'[x].kmt = "kemtls-pop-v1" /\ access'[x].jwk \in Key
                      /\ access'[x].expires \in Nat
                      /\ access'[x].expires <= now' + AccessLifetime
    BY <1>5 DEF BoundToKey
  <2>1. CASE x = t
    BY <1>1, <1>3, <1>5, <2>1, Counting DEF Bought
  <2>2. CASE x # t
    BY <1>1, <1>5, <2>2 DEF Bought, IInv, BoundToKey
  <2>3. QED
    BY <2>1, <2>2
<1>7. dead_at[refresh'[t].family] = None
  <2>1. CASE refresh'[t].family = t
    <3>1. t \notin reused
      BY DEF Bought, IInv, P!IInv, P!FamiliesBegun
    <3>2. QED
      BY <2>1, <3>1 DEF IInv, DeadFamilies
  <2>2. CASE \E r \in P!Issued : P!Live(r) /\ refresh'[t].family = refresh[r].family
    <3>1. PICK r \in P!Issued : P!Live(r) /\ refresh'[t].family = refresh[r].family
      BY <2>2
    <3>2. refresh[r].family \notin reused
      BY <3>1 DEF P!Live, IInv, P!IInv, P!ReusedFamilyIsDead
    <3>3. refresh[r].family \in Token
      BY DEF IInv, P!IInv, P!FamiliesBegun, P!Issued
    <3>4. QED
      BY <3>1, <3>2, <3>3 DEF IInv, DeadFamilies
  <2>3. QED
    BY <2>1, <2>2 DEF Bought
<1>8. DeadFamilies'
  <2>1. /\ dead_at' \in [Token -> Nat \cup {None}]
        /\ \A f \in Token : dead_at'[f] # None => f \in reused'
    BY DEF Bought, IInv, DeadFamilies
  <2>2. ASSUME NEW x \in P!Issued', access'[x] # NoRecord, dead_at'[refresh'[x].family] # None
        PROVE  access'[x].expires <= dead_at'[refresh'[x].family] + AccessLifetime
    <3>1. x # t
      BY <1>7, <2>2 DEF Bought
    <3>2. x \in P!Issued /\ access'[x] = access[x] /\ refresh'[x].family = refresh[x].family
          /\ dead_at' = dead_at
      BY <1>1, <1>5, <3>1 DEF Bought
    <3>3. QED
      BY <2>2, <3>2 DEF IInv, DeadFamilies
  <2>3. QED
    BY <2>1, <2>2 DEF DeadFamilies
<1>9. HeldTokenLive'
  <2>1. Server!Live(t)'
    BY SameState DEF Bought, Server!Live, P!Live, Server!Issued, P!Issued
  <2> SUFFICES ASSUME lost' = 0
               PROVE  reused' = {} /\ oidc'.refresh_token = t
    BY <2>1 DEF HeldTokenLive, Server!Live, Server!Issued
  <2>2. lost' = lost /\ oidc'.refresh_token = t
    BY DEF Bought
  <2>3. QED
    BY <2>2 DEF Bought, IInv, HeldTokenLive
<1>10. QED
  BY <1>6, <1>8, <1>9

LEMMA SpentKeeps ==
  ASSUME IInv, NEW t, Spent(t)
  PROVE  BoundToKey' /\ DeadFamilies' /\ HeldTokenLive'
<1>1. /\ now \in Nat /\ now' = now /\ access' = access /\ P!Issued' = P!Issued
      /\ P!Issued \subseteq Token /\ t \in P!Issued /\ t \in Token
      /\ refresh[t].family \in Token
      /\ \A x \in P!Issued : refresh'[x].family = refresh[x].family
  BY DEF Spent, IInv, P!IInv, P!TypeOK, P!FamiliesBegun, P!Issued
<1>2. BoundToKey'
  BY <1>1 DEF IInv, BoundToKey
<1>3. ASSUME UNCHANGED <<reused, dead_at>>
      PROVE  DeadFamilies'
  BY <1>1, <1>3 DEF IInv, DeadFamilies
<1>4. ASSUME reused' = reused \cup {refresh[t].family},
             dead_at' = [dead_at EXCEPT ![refresh[t].family] = now]
      PROVE  DeadFamilies'
  <2> DEFINE g == refresh[t].family
  <2>1. /\ g \in Token /\ dead_at'[g] = now
        /\ dead_at' \in [Token -> Nat \cup {None}]
        /\ \A f \in Token \ {g} : dead_at'[f] = dead_at[f]
    BY <1>1, <1>4 DEF IInv, DeadFamilies
  <2>2. \A f \in Token : dead_at'[f] # None => f \in reused'
    BY <1>4, <2>1 DEF IInv, DeadFamilies
  <2>3. ASSUME NEW x \in P!Issued', access'[x] # NoRecord, dead_at'[refresh'[x].family] # None
        PROVE  access'[x].expires <= dead_at'[refresh'[x].family] + AccessLifetime
    <3>1. /\ x \in P!Issued /\ x \in Token /\ refresh'[x].family = refresh[x].family
          /\ refresh[x].family \in Token
      BY <1>1 DEF IInv, P!IInv, P!FamiliesBegun
    <3>2. CASE refresh[x].family = g
      BY <1>1, <2>1, <2>3, <3>1, <3>2 DEF IInv, BoundToKey
    <3>3. CASE refresh[x].family # g
      BY <1>1, <2>1, <2>3, <3>1, <3>3 DEF IInv, DeadFamilies
    <3>4. QED
      BY <3>2, <3>3
  <2>4. QED
    BY <2>1, <2>2, <2>3 DEF DeadFamilies
<1>5. HeldTokenLive'
  <2> SUFFICES ASSUME lost' = 0
               PROVE  reused' = {} /\ (t # None => now' >= refresh'[t].expires)
    BY DEF HeldTokenLive, Spent
  <2>1. lost = 0
    BY DEF Spent
  <2>2. /\ reused = {}
        /\ t # None => (~refresh[t].used \/ now >= refresh[t].expires)
    BY <2>1 DEF IInv, HeldTokenLive, Spent, Server!Live
  <2>3. t # None
    BY DEF Spent
  <2>4. QED
    BY <1>1, <2>2, <2>3 DEF Spent
<1>6. QED
  BY <1>2, <1>3, <1>4, <1>5 DEF Spent


-----------------------------------------------------------------------------
(* The theorems. *)

LEMMA IInvInit == Init => IInv
<1> SUFFICES ASSUME Init PROVE IInv
  OBVIOUS
<1>1. P!IInv
  <2>1. P!Init
    BY SameState DEF Init
  <2>2. QED
    BY <2>1, P!IInvInit, Assumptions
<1>2. HttpFine
  BY FlowAssumption DEF Init, HttpFine, HttpClient, Http, Key
<1>3. ClientFine
  BY DEF Init, ClientFine
<1>4. refresh = [t \in Token |-> NoRecord] /\ reused = {} /\ P!Issued = {}
  BY DEF Init, Server!Init, P!Issued
<1>5. BoundToKey /\ DeadFamilies
  BY <1>4 DEF Init, BoundToKey, DeadFamilies
<1>6. OnlyHolderServed
  BY DEF Init, OnlyHolderServed, Raised, Reply
<1>7. HeldTokenLive
  BY <1>4 DEF Init, HeldTokenLive
<1>8. QED
  BY <1>1, <1>2, <1>3, <1>5, <1>6, <1>7 DEF IInv

LEMMA IInvNext == IInv /\ [Next]_vars => IInv'
<1> SUFFICES ASSUME IInv, [Next]_vars PROVE IInv'
  OBVIOUS
<1>1. Before
  BY DEF IInv, Before, P!IInv
<1>2. /\ [P!Next]_(P!vars)
      /\ Quiet \/ \E t \in Token : Bought(t) \/ Spent(t)
  BY <1>1, StepKinds
<1>3. P!IInv'
  <2>1. P!IInv
    BY DEF IInv
  <2>2. QED
    BY <1>2, <2>1, P!IInvNext, Assumptions
<1>4. HttpFine' /\ ClientFine' /\ OnlyHolderServed'
  BY <1>2 DEF Quiet, Bought, Spent
<1>5. BoundToKey' /\ DeadFamilies' /\ HeldTokenLive'
  BY <1>2, QuietKeeps, BoughtKeeps, SpentKeeps
<1>6. QED
  BY <1>3, <1>4, <1>5 DEF IInv

LEMMA IInvAlways == Spec => []IInv
BY IInvInit, IInvNext, PTL DEF Spec

\* The flow's types: what the client holds reached it in an answer, the session
\* of a kept connection has been made (oidc_client.py OIDCClient,
\* kemtls_http_client.py KEMTLSHttpClient).
THEOREM TypesHold == Spec => []TypeOK
<1>1. IInv => TypeOK
  <2> SUFFICES ASSUME IInv PROVE TypeOK
    OBVIOUS
  <2>1. Server!TypeOK
    BY SameState DEF IInv, P!IInv
  <2>2. QED
    BY <2>1 DEF IInv, HttpFine, ClientFine, BoundToKey, TypeOK
<1>2. QED
  BY <1>1, IInvAlways, PTL

\* Whatever keys are set, sessions made and exchanges lost, 200 and "active" go
\* only to an HTTP client with the binding key the token was issued to, and
\* never to a replay (userinfo_endpoints.py, introspection, oidc_client.py:221).
THEOREM ServedToHolder == Spec => []OnlyHolderServed
<1>1. IInv => OnlyHolderServed
  BY DEF IInv
<1>2. QED
  BY <1>1, IInvAlways, PTL

\* While no exchange has failed the client's refresh token is live or expired
\* and no reuse has been reported (oidc_client.py refresh,
\* token_endpoints.py _handle_refresh_token_grant).
THEOREM HeldTokenStaysLive == Spec => []HeldTokenLive
<1>1. IInv => HeldTokenLive
  BY DEF IInv
<1>2. QED
  BY <1>1, IInvAlways, PTL

\* Seen from the authorization server the client is one of the clients of
\* TokenService: every run of the flow is a run of that service, with its
\* theorems (oidc_client.py, token_endpoints.py handle_token_request).
THEOREM ServerIsTokenService == Spec => P!Spec
<1>1. Init => P!Init
  BY SameState DEF Init
<1>2. IInv /\ [Next]_vars => [P!Next]_(P!vars)
  <2> SUFFICES ASSUME IInv, [Next]_vars PROVE [P!Next]_(P!vars)
    OBVIOUS
  <2>1. Before
    BY DEF IInv, Before, P!IInv
  <2>2. QED
    BY <2>1, StepKinds
<1>3. QED
  BY <1>1, <1>2, IInvAlways, PTL DEF Spec, P!Spec

\* What a step answers, and to which call.
LEMMA Answers ==
  ASSUME Before, [Next]_vars, reply' # reply
  PROVE  /\ reply'.call = "exchange_code" => \E c \in Code : ExchangeCode(c)
         /\ reply'.status = "200" => \E h \in Http : CallApi(h)
<1>1. ASSUME NEW v \in Verifier, StartAuth(v) \/ \E c \in Code : Authorize(c, v)
      PROVE  reply'.call = "none" /\ reply'.status = "raised"
  BY <1>1 DEF StartAuth, Authorize, NoCall, Raised, Reply
<1>2. ASSUME NEW c \in Code, ExchangeCode(c)
      PROVE  reply'.status # "200"
  BY <1>2 DEF ExchangeCode, TokensIssued, Refused, NeverSent, Raised, Reply
<1>3. CASE Refresh
  <2>1. PICK t : t = oidc.refresh_token
    OBVIOUS
  <2>2. (\E u : Issues("refresh", u)) \/ Nothing("refresh")
    BY <1>3, <2>1, RefreshEffect DEF Before
  <2>3. reply'.call = "refresh" /\ reply'.status # "200"
    BY <2>2 DEF Issues, Nothing, Raised, Reply
  <2>4. QED
    BY <2>3
<1>4. CASE ReplayAttack
  <2>1. reply'.call = "replay_attack" /\ reply'.status = "401"
    BY <1>4, ReplayKind DEF ReplayAttack, Reply
  <2>2. QED
    BY <2>1
<1>5. CASE Tick
  BY <1>5 DEF Tick, NoCall, Raised, Reply
<1>6. ASSUME NEW h \in Http, Introspect(h)
      PROVE  reply'.call = "introspect" /\ reply'.status # "200"
  BY <1>6 DEF Introspect, Reply
<1>7. ASSUME NEW h \in Http, CallApi(h)
      PROVE  reply'.call = "call_api"
  BY <1>7 DEF CallApi, Raised, Reply
<1>8. ASSUME NEW h \in Http,
             \/ \E k \in Key : SetBindingKeypair(h, k)
             \/ \E trust \in Trust, carrier \in Carrier : SetFields(h, trust, carrier)
      PROVE  reply'.call = "none" /\ reply'.status = "raised"
  <2>1. NoCall
    BY <1>8 DEF SetBindingKeypair, SetFields
  <2>2. QED
    BY <2>1 DEF NoCall, Raised, Reply
<1>9. CASE UNCHANGED vars
  BY <1>9 DEF vars
<1>10. QED
  BY <1>1, <1>2, <1>3, <1>4, <1>5, <1>6, <1>7, <1>8, <1>9 DEF Next

\* Tokens bought with a code belong to the login the client last started
\* (oidc_client.py:70, auth_endpoints.py validate_code).
THEOREM LoginsStayApart == Spec => LoginsDoNotMix
<1> DEFINE Step == reply'.call = "exchange_code" /\ reply'.status = "ok" /\ reply' # reply =>
                     codes[parent'[reply'.token]].challenge = Server!S256(oidc.code_verifier)
<1>1. IInv /\ [Next]_vars => [Step]_vars
  <2> SUFFICES ASSUME IInv, [Next]_vars, reply' # reply,
                      reply'.call = "exchange_code", reply'.status = "ok"
               PROVE  codes[parent'[reply'.token]].challenge = Server!S256(oidc.code_verifier)
    OBVIOUS
  <2>1. Before
    BY DEF IInv, Before, P!IInv
  <2>2. PICK c \in Code : ExchangeCode(c)
    BY <2>1, Answers
  <2>3. ~Nothing("exchange_code")
    BY DEF Nothing, Raised, Reply
  <2>4. PICK s \in Session, t \in Token :
          /\ P!RedeemCode(s, c, App, Uri, oidc.code_verifier, s, t)
          /\ Issues("exchange_code", t)
    BY <2>1, <2>2, <2>3, ExchangeEffect DEF Before
  <2>5. reply'.token = t
    BY <2>4 DEF Issues, Raised, Reply
  <2>6. parent'[t] = c /\ codes[c].challenge = P!S256(oidc.code_verifier)
    BY <2>1, <2>4 DEF P!RedeemCode, P!CodeAccepted, Before, P!TypeOK
  <2>7. QED
    BY <2>5, <2>6, SameState
<1>2. QED
  BY <1>1, IInvAlways, PTL DEF Spec, LoginsDoNotMix

\* Once a family is revoked for a reuse the resource server stops answering its
\* access tokens after at most one access-token lifetime (refresh_store.py
\* revoke_family, jwt_handler.py validate_access_token).
THEOREM AccessEnds == Spec => AccessEndsWithFamily
<1> DEFINE Step == reply'.status = "200" /\ reply' # reply =>
                     LET d == dead_at[refresh[reply'.token].family]
                     IN  d = None \/ now < d + AccessLifetime
<1>1. IInv /\ [Next]_vars => [Step]_vars
  <2> SUFFICES ASSUME IInv, [Next]_vars, reply' # reply, reply'.status = "200"
               PROVE  LET d == dead_at[refresh[reply'.token].family]
                      IN  d = None \/ now < d + AccessLifetime
    OBVIOUS
  <2>1. Before
    BY DEF IInv, Before, P!IInv
  <2>2. PICK h \in Http : CallApi(h)
    BY <2>1, Answers
  <2>3. PICK t : t = oidc.access_token
    OBVIOUS
  <2>4. t \in P!Issued /\ t \in Token /\ refresh[t].family \in Token
    BY <2>2, <2>3 DEF CallApi, IInv, P!IInv, P!TypeOK, P!FamiliesBegun, ClientFine, P!Issued
  <2>5. reply'.token = t /\ Valid(access[t])
    BY <2>2, <2>3 DEF CallApi, UserInfo, Raised, Reply
  <2>6. access[t] # NoRecord /\ now < access[t].expires
    BY <2>5 DEF Valid
  <2>7. access[t].expires \in Nat /\ now \in Nat /\ AccessLifetime \in Nat
    BY <2>4, <2>6, Counting DEF IInv, BoundToKey, P!IInv, P!TypeOK
  <2>8. dead_at[refresh[t].family] # None =>
          /\ dead_at[refresh[t].family] \in Nat
          /\ access[t].expires <= dead_at[refresh[t].family] + AccessLifetime
    BY <2>4, <2>6 DEF IInv, DeadFamilies
  <2>9. QED
    BY <2>5, <2>6, <2>7, <2>8
<1>2. QED
  BY <1>1, IInvAlways, PTL DEF Spec, AccessEndsWithFamily
=============================================================================
