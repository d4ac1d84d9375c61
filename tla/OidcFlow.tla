------------------------------ MODULE OidcFlow ------------------------------
(***************************************************************************)
(* OIDCClient and its KEMTLSHttpClient against the authorization server of *)
(* TokenService and the resource server: start_auth, the authorization     *)
(* request, exchange_code, call_api, refresh, replay_attack and            *)
(* introspection, each over the KEMTLS session the HTTP client has or      *)
(* makes for it.  The application calls one method at a time and again     *)
(* after a failure; either direction of an exchange may be lost.           *)
(***************************************************************************)
EXTENDS Naturals, FiniteSets

CONSTANTS Verifier, Code, Token,      \* as in TokenService
          NoRecord, NoProof,
          CodeLifetime, RefreshLifetime, AccessLifetime,
          None,          \* no verifier, no token, no connection
          KeepAlive,     \* KEMTLSHttpClient.keep_alive
          Trust,         \* values of expected_identity, ca_pk, pdk_store, mode
          Carrier,       \* the transports
          MaxTime,       \* bounds for model checking: the clock,
          MaxSessions,   \*   sessions made,
          MaxLost        \*   exchanges that fail

ASSUME FlowAssumption ==
  /\ KeepAlive \in BOOLEAN
  /\ {AccessLifetime, MaxSessions, MaxLost} \subseteq Nat

\* What TokenService assumes of its constants.
ASSUME ServerAssumption ==
  /\ {CodeLifetime, MaxTime} \subseteq Nat /\ RefreshLifetime \in Nat \ {0}
  /\ NoRecord \notin Token \cup Code /\ Token \cap Code = {}
  /\ NoProof \notin Nat

App == "app"
Uri == "uri"
Alice == "alice"
Session == 1..MaxSessions

\* "own" is the HTTP client of the OIDCClient, "other" a second one of the
\* application, "fresh" the one replay_attack makes.
Http == {"own", "other"}
Key == {"own", "other"}

VARIABLES now, codes, stored, refresh, parent, reused, held,  \* TokenService
          access,    \* access[t]: the claims of the access token issued with t
          oidc,      \* OIDCClient: code_verifier, access_token, refresh_token
          drawn,     \* the verifiers drawn so far; their URLs may still be used
          granted,   \* the codes that reached the application
          http,      \* http[h]: KEMTLSHttpClient and its kept connection
          opened,    \* sessions made so far
          lost,      \* exchanges that failed so far
          reply,     \* what the last call of the application came to
          dead_at    \* history: dead_at[f] = when family f was revoked

Server == INSTANCE TokenService WITH
  Client <- {App}, User <- {Alice}, RedirectUri <- {Uri}, Registry <- [c \in {App} |-> {Uri}]

ASSUME ServerRecordAssumption ==
  NoRecord \notin Server!AuthorizationCodeRecord \cup Server!RefreshTokenRecord

\* KEMTLSHttpClient sends a proof with every request.
ASSUME ProofAssumption == NoProof \notin [key: Key, session: Nat, at: {"/token"}]

server == <<now, codes, stored, refresh, parent, reused, held>>
vars == <<server, access, oidc, drawn, granted, http, opened, lost, reply, dead_at>>
Tokens == <<access, dead_at>>

\* An access token goes out with each refresh token and is named after it.
AccessTokenClaims ==
  [kmt: {"kemtls-pop-v1"}, jwk: Key, expires: Nat]
  \cup [kmt: {"kemtls-exporter-v1"}, kbh: Session, expires: Nat]
Reply(call, status, t, h) == [call |-> call, status |-> status, token |-> t, by |-> h]
Raised(call) == Reply(call, "raised", None, "own")
NoCall == reply' = Raised("none")
-----------------------------------------------------------------------------
(* KEMTLSHttpClient.request: the session a request of h to server e goes    *)
(* over, and what is kept of it.                                            *)

Reusable(h, e) ==
  LET conn == http[h].conn
  IN  KeepAlive /\ conn # None /\ conn.server = e /\ conn.carrier = http[h].carrier

Over(h, e, s) ==
  IF Reusable(h, e) THEN s = http[h].conn.session ELSE s = opened + 1 /\ s \in Session

Opens(s) == opened' = IF s > opened THEN s ELSE opened

Connection(h, e, s) ==
  IF Reusable(h, e) THEN http[h].conn
  ELSE [server |-> e, session |-> s, carrier |-> http[h].carrier, trust |-> http[h].trust]

\* After an answer, of whatever status, a connection is kept or closed; after
\* an exception it is closed.
Keeps(h, e, s) ==
  http' = [http EXCEPT ![h].conn = IF KeepAlive THEN Connection(h, e, s) ELSE None]
Drops(h) == http' = [http EXCEPT ![h].conn = None]

Answered(h, e, s) == Keeps(h, e, s) /\ Opens(s) /\ UNCHANGED lost
Lost(h, s) == lost < MaxLost /\ lost' = lost + 1 /\ Drops(h) /\ Opens(s)

\* The signature under the client's binding key over method, path and
\* session_binding_id, with the key itself.
BindingProof(h, s, at) == [key |-> http[h].key, session |-> s, at |-> at]

\* verify_binding_proof on the server's side of session s.
Proves(proof, s, at) == proof.session = s /\ proof.at = at

\* Mutant: the key in the header is taken for the key in the token.
AnyKeyBound(claims, proof, s, at) == Proves(proof, s, at)

\* verify_access_token_binding_claim: a token of a client that sent no proof is
\* bound to the session itself.
Bound(claims, proof, s, at) ==
  \/ claims.kmt = "kemtls-pop-v1" /\ Proves(proof, s, at) /\ claims.jwk = proof.key
  \/ claims.kmt = "kemtls-exporter-v1" /\ claims.kbh = s

\* Mutant: expiry is not looked at.
ValidForEver(claims) == claims # NoRecord

\* validate_access_token; issuer, audience, type and signature are right.
Valid(claims) == claims # NoRecord /\ now < claims.expires

\* Mutant: the key's claim is filled with the session.
ClaimsMixedUp(proof, s) ==
  [kmt |-> "kemtls-pop-v1", kbh |-> s, expires |-> now + AccessLifetime]

\* The cnf claim of a token issued over session s: the session's if no proof came
\* with the request; a proof that does not verify was refused before.
Claims(proof, s) ==
  IF proof = NoProof
    THEN [kmt |-> "kemtls-exporter-v1", kbh |-> s, expires |-> now + AccessLifetime]
    ELSE [kmt |-> "kemtls-pop-v1", jwk |-> proof.key, expires |-> now + AccessLifetime]
-----------------------------------------------------------------------------
(* OIDCClient.                                                             *)

\* The verifier of an earlier start_auth is forgotten.
StartAuth(v) ==
  /\ v \notin drawn
  /\ drawn' = drawn \cup {v}
  /\ oidc' = [oidc EXCEPT !.code_verifier = v]
  /\ NoCall
  /\ UNCHANGED <<server, Tokens, granted, http, opened, lost>>

\* One of the URLs start_auth has returned is opened.
Authorize(c, v) ==
  /\ v \in drawn
  /\ Server!Authorize(c, App, Uri, Alice, v)
  /\ \E s \in Session :
       /\ Over("own", "auth", s)
       /\ \/ Answered("own", "auth", s) /\ granted' = granted \cup {c}
          \/ Lost("own", s) /\ UNCHANGED granted
  /\ UNCHANGED <<Tokens, oidc, drawn, reply>>

\* Mutant: a client that has a refresh token goes on with it.
StoresAccess(t) ==
  [oidc EXCEPT !.access_token = t, !.refresh_token = IF @ = None THEN t ELSE @]

\* exchange_code and refresh keep what a successful answer brings.
Stores(t) == [oidc EXCEPT !.access_token = t, !.refresh_token = t]

\* The answer with tokens t comes, or is lost; the server knows no difference.
TokensIssued(call, s, t) ==
  /\ access' = [access EXCEPT ![t] = Claims(BindingProof("own", s, "/token"), s)]
  /\ \/ /\ t \in held' /\ Answered("own", "auth", s)
        /\ oidc' = Stores(t) /\ reply' = Reply(call, "ok", t, "own")
     \/ /\ t \notin held' /\ Lost("own", s)
        /\ UNCHANGED oidc /\ reply' = Raised(call)

Refused(call, s) ==
  Answered("own", "auth", s) /\ reply' = Raised(call) /\ UNCHANGED <<oidc, access>>

\* The exchange fails before the server has seen the request.
NeverSent(call, s) ==
  Lost("own", s) /\ reply' = Raised(call) /\ UNCHANGED <<server, oidc, access>>

ExchangeCode(c) ==
  /\ c \in granted /\ oidc.code_verifier # None
  /\ \E s \in Session :
       /\ Over("own", "auth", s)
       /\ \/ \E t \in Token : Server!RedeemCode(s, c, App, Uri, oidc.code_verifier, s, t)
                              /\ TokensIssued("exchange_code", s, t)
          \/ Server!BurnCode(s, c, App, Uri, oidc.code_verifier, s) /\ Refused("exchange_code", s)
          \/ c \notin stored /\ UNCHANGED server /\ Refused("exchange_code", s)
          \/ NeverSent("exchange_code", s)
  /\ UNCHANGED <<drawn, granted, dead_at>>

\* The server's answers to a refresh token it does not rotate.
NotRotated(t, s) ==
  \/ Server!RefreshExpired(t) /\ UNCHANGED dead_at
  \/ /\ Server!RefreshReused(t)
     /\ dead_at' = [dead_at EXCEPT ![refresh[t].family] = now]
  \/ /\ \/ refresh[t].revoked
        \/ Server!Live(t) /\ ~Server!Expired(t) /\ ~Server!MayUse(refresh[t], App, s)
     /\ UNCHANGED <<server, dead_at>>

Refresh ==
  /\ oidc.refresh_token # None
  /\ LET t == oidc.refresh_token
     IN  \E s \in Session :
           /\ Over("own", "auth", s)
           /\ \/ /\ \E u \in Token : Server!RefreshRotate(s, App, t, s, u)
                                     /\ TokensIssued("refresh", s, u)
                 /\ UNCHANGED dead_at
              \/ NotRotated(t, s) /\ Refused("refresh", s)
              \/ NeverSent("refresh", s) /\ UNCHANGED dead_at
  /\ UNCHANGED <<drawn, granted>>

\* UserInfoEndpoint, for a request with that token and proof over session s.
UserInfo(t, proof, s) ==
  IF Valid(access[t]) /\ Bound(access[t], proof, s, "/userinfo") THEN "200" ELSE "401"

\* call_api over the client's own HTTP client, or a GET with its token over the
\* other one.
CallApi(h) ==
  /\ oidc.access_token # None
  /\ \E s \in Session :
       /\ Over(h, "resource", s)
       /\ \/ /\ Answered(h, "resource", s)
             /\ reply' = Reply("call_api", UserInfo(oidc.access_token,
                           BindingProof(h, s, "/userinfo"), s), oidc.access_token, http[h].key)
          \/ Lost(h, s) /\ reply' = Raised("call_api")
  /\ UNCHANGED <<server, Tokens, oidc, drawn, granted>>

\* A new HTTP client, with a binding key and a session of its own.
ReplayAttack ==
  /\ oidc.access_token # None
  /\ opened + 1 \in Session /\ opened' = opened + 1
  /\ reply' = Reply("replay_attack", UserInfo(oidc.access_token,
                [key |-> "fresh", session |-> opened + 1, at |-> "/userinfo"], opened + 1),
                oidc.access_token, "fresh")
  /\ UNCHANGED <<server, Tokens, oidc, drawn, granted, http, lost>>

\* IntrospectionEndpoint, asked by the client about its own token.
Introspect(h) ==
  /\ oidc.access_token # None
  /\ \E s \in Session :
       /\ Over(h, "auth", s) /\ Answered(h, "auth", s)
       /\ LET claims == access[oidc.access_token]
              active == Valid(claims)
                        /\ Bound(claims, BindingProof(h, s, "/introspect"), s, "/introspect")
          IN  reply' = Reply("introspect", IF active THEN "active" ELSE "inactive",
                             oidc.access_token, http[h].key)
  /\ UNCHANGED <<server, Tokens, oidc, drawn, granted>>
-----------------------------------------------------------------------------
(* The public fields of the HTTP clients, and the clock.                   *)

SetBindingKeypair(h, k) ==
  /\ http[h].key # k
  /\ http' = [http EXCEPT ![h].key = k]
  /\ NoCall
  /\ UNCHANGED <<server, Tokens, oidc, drawn, granted, opened, lost>>

SetFields(h, trust, carrier) ==
  /\ <<trust, carrier>> # <<http[h].trust, http[h].carrier>>
  /\ http' = [http EXCEPT ![h].trust = trust, ![h].carrier = carrier]
  /\ NoCall
  /\ UNCHANGED <<server, Tokens, oidc, drawn, granted, opened, lost>>

Tick ==
  /\ Server!Tick /\ NoCall
  /\ UNCHANGED <<Tokens, oidc, drawn, granted, http, opened, lost>>

Init ==
  /\ Server!Init
  /\ access = [t \in Token |-> NoRecord]
  /\ oidc = [code_verifier |-> None, access_token |-> None, refresh_token |-> None]
  /\ drawn = {} /\ granted = {} /\ opened = 0 /\ lost = 0
  /\ \E trust \in Trust, carrier \in Carrier :
       http = [h \in Http |-> [key |-> h, conn |-> None, trust |-> trust, carrier |-> carrier]]
  /\ reply = Raised("none")
  /\ dead_at = [t \in Token |-> None]

Next ==
  \/ \E v \in Verifier : StartAuth(v) \/ \E c \in Code : Authorize(c, v)
  \/ \E c \in Code : ExchangeCode(c)
  \/ Refresh \/ ReplayAttack \/ Tick
  \/ \E h \in Http :
       \/ CallApi(h) \/ Introspect(h)
       \/ \E k \in Key : SetBindingKeypair(h, k)
       \/ \E trust \in Trust, carrier \in Carrier : SetFields(h, trust, carrier)

Spec == Init /\ [][Next]_vars
-----------------------------------------------------------------------------
(* Properties.                                                             *)

\* The variables stay within their types (oidc_client.py OIDCClient,
\* kemtls_http_client.py KEMTLSHttpClient).
TypeOK ==
  /\ Server!TypeOK
  /\ access \in [Token -> AccessTokenClaims \cup {NoRecord}]
  /\ oidc.access_token \in held \cup {None} /\ oidc.refresh_token \in held \cup {None}
  /\ oidc.code_verifier \in drawn \cup {None}
  /\ granted \subseteq Code /\ opened \in 0..MaxSessions /\ lost \in 0..MaxLost
  /\ \A h \in Http : http[h].conn # None => http[h].conn.session \in 1..opened

\* "This SHOULD fail on the server due to binding mismatch"
\* (oidc_client.py:221): the resource server answers 200 only to an HTTP client
\* with the binding key the token was issued to, whatever keys were set and
\* sessions made since; replay_attack is never answered so.
OnlyHolderServed ==
  reply.status \in {"200", "active"} =>
    /\ access[reply.token].kmt = "kemtls-pop-v1" /\ access[reply.token].jwk = reply.by
    /\ reply.call # "replay_attack"

\* As long as no exchange fails, the refresh token the client holds is one the
\* server still takes, until it expires: a refusal, on whatever session, a new
\* login or a failed code exchange costs it nothing, and no reuse is reported
\* (oidc_client.py refresh, token_endpoints.py _handle_refresh_token_grant).
HeldTokenLive ==
  lost = 0 =>
    /\ reused = {}
    /\ oidc.refresh_token # None =>
         LET t == oidc.refresh_token IN Server!Live(t) \/ now >= refresh[t].expires

\* Tokens bought with a code belong to the login the client last started:
\* a code that comes back for an earlier start_auth is refused
\* (oidc_client.py:70 start_auth overwrites code_verifier).
LoginsDoNotMix ==
  [][reply'.call = "exchange_code" /\ reply'.status = "ok" /\ reply' # reply =>
       codes[parent'[reply'.token]].challenge = Server!S256(oidc.code_verifier)]_vars

\* A family whose tokens were revoked for a reuse still opens the resource
\* server, but not for longer than one access token lives
\* (refresh_store.py revoke_family, jwt_handler.py validate_access_token).
AccessEndsWithFamily ==
  [][reply'.status = "200" /\ reply' # reply =>
       LET d == dead_at[refresh[reply'.token].family]
       IN  d = None \/ now < d + AccessLifetime]_vars

\* "Keep the underlying transport client aligned with mutable public fields"
\* (kemtls_http_client.py:106): a request goes over a connection made under the
\* client's present expected_identity, ca_pk, pdk_store and mode.  Does not hold, and no
\* run checks it: see the README, section 4.
FieldsApply ==
  [][\A h \in Http : http[h].conn # None /\ http'[h].conn # None
                     /\ (reply' # reply \/ granted' # granted)
       => http'[h].conn.trust = http[h].trust]_vars
=============================================================================
