# KEMTLS / OIDC: a TLA+ verification project

The repository implements OpenID Connect over KEMTLS, a TLS variant whose key
exchange and server authentication use ML-KEM instead of signatures.  An
authorization server issues codes and tokens bound to the KEMTLS session they
were requested on, a resource server accepts them only on that session (or with
a proof of possession), and the sessions run over TCP or over a QUIC-style UDP
protocol of the repository's own.

This directory holds TLA+ modules translated from the Python sources, the TLC
configurations that check them, proofs for TLAPS, and `PROJECT.json`, which maps
every definition to source lines and lists runs, mutants, findings, hazards and
theorems.  Paths below are relative to the repository's `src/` directory.

## 1. Inventory

| Component | Source | State | Operations | Hard behaviour | What makes it correct |
|---|---|---|---|---|---|
| Authorization endpoint, code store | `oidc/auth_endpoints.py` | dictionary of codes | authorize, consume, validate | failure after consumption | a code is redeemed at most once, by its client, before it expires |
| Token endpoint | `oidc/token_endpoints.py` | none of its own | code grant, refresh grant | order of the checks; an error after rotation; retries | single use, binding kept across rotations |
| Refresh store | `oidc/refresh_store.py` | `_records`: used, revoked, family, binding | issue, consume, rotate, revoke family | replay; two threads and no lock | one usable token per family, none after a reuse |
| KEMTLS handshake | `kemtls/handshake.py` | transcript, secrets | five messages | messages of other attempts, repeated messages | same keys on both sides of an established session |
| QUIC client | `kemtls/quic_client.py`, `quic_state.py` | connection id, packet numbers, `pending_packets`, session | connect, request, close, two retry loops | loss, duplication, reordering, timers | at most one execution, own response, every request ends |
| QUIC server | `kemtls/quic_server.py` | connections by id: phase, `sent_packets`, `processed_app_packets` | one handler per phase, retransmission pass | late packets of old connections | as above |
| TCP transport, record layer | `kemtls/tcp_transport.py`, `record_layer.py` | socket, session, sequence numbers | frame, protect, close | partial sends, stale session | no nonce reuse, FIFO delivery |
| TCP server | `kemtls/tcp_server.py` | a thread per connection | accept, handshake, serve | threads share the application's stores | see the refresh store |
| KEMTLS client | `kemtls/client.py` | transport | request, close | errors close the transport | as QUIC client |
| Binding, userinfo, introspection | `oidc/session_binding.py`, `userinfo_endpoints.py`, `introspection_endpoints.py` | none | bind, verify | session changes between issue and use | a token works on its session only, or with its key |
| OIDC client | `client/oidc_client.py`, `kemtls_http_client.py` | login state, tokens, kept connections | login, refresh, call | reconnect changes the binding | an honest client is not locked out |
| Step-flow server | `../scripts/step_flow_server.py` | one global run | start, continue, reset, background tasks | stale tasks, double continue | each step runs once, in order, in its own run |
| Key bootstrap, start scripts | `../scripts/bootstrap_ca.py`, `run_kemtls_*_server.py` | key files | write, load | files of different generations | no handshake mixes keys |
| Pure functions | `kemtls/pdk.py`, `certs.py`, `oidc/jwt_handler.py`, `quic_packets.py` | none | resolve, validate, decode | boundaries | agree with a reference definition |

How they interact.  `KEMTLSClient.request` drives a client transport; the
server transport runs the handshake, then passes each decrypted HTTP request
with its session to the Flask application (`_http_bridge.py`), where the
endpoints share one code store and one refresh store.  The QUIC server handles
one datagram at a time in one thread, so its requests run one after the other.
The TCP server runs the same application in one thread per connection, with no
lock around the stores.  Session and refresh binding ids, derived from the
handshake, are what ties the token layer to the transport layer.

Components, with what is modelled of each, are listed in `PROJECT.json`; so are
the hazards, each at its line.

## 2. Modules

| Module | Models |
|---|---|
| `RefreshRotation` | abstract: the life of refresh tokens (fresh, live, used, revoked) and families |
| `TokenService` | the authorization and token endpoints with both stores, one request at a time |
| `TokenServiceProofs` | TLAPS proofs about `TokenService` |
| `TokenThreads` | the refresh grant step by step, one thread per session |
| `TokenThreadsProofs` | TLAPS proofs about `TokenThreads` |
| `KemtlsMessages` | the messages, transcript and keys of a handshake |
| `RequestExchange` | abstract: a request is executed at most once and answered with its own response |
| `QuicTransport` | client transport, server connection and UDP network (uses `KemtlsMessages`) |
| `TcpTransport` | client, server processes and their threads, record layer, TCP streams |
| `StepFlow` | the step-flow server: handlers, background tasks, the global run (uses `KemtlsMessages`) |
| `OidcFlow` | OIDC client, HTTP client and sessions over an instance of `TokenService`; resource server |
| `KemtlsHandshake` | key files, servers and clients that load them, mode choice and authentication |
| `KemtlsHandshakeProofs`, `TcpTransportProofs`, `StepFlowProofs`, `OidcFlowProofs`, `QuicTransportProofs` | TLAPS proofs about the modules they are named after |
| `QuicHandshakeProofs` | TLAPS proof about `QuicTransport` on the Prompt network (extends `QuicTransportProofs`) |
| `MCTokenService`, `MCTokenThreads`, `MCQuicTransport`, `MCStepFlow`, `MCOidcFlow` | values, views and symmetry for TLC |

`TcpTransport` and `QuicTransport` both implement `RequestExchange`; `OidcFlow`
takes that for granted (a request runs once, and its answer comes or does not) and
composes the client with the endpoints of `TokenService`, which implement
`RefreshRotation`.  `TokenThreads` is the refinement of `TokenService`'s refresh
grant to single accesses of the store that concurrent threads of `TcpTransport`
make.

### TokenService

`codes`, `stored` are the authorization codes ever issued and those still in the
store; `refresh` is `RefreshTokenStore._records`; `now` the clock; `held` the
tokens whose reply reached a client, which are the ones a client can present;
`parent` and `reused` are history.  One action is one HTTP request from its
first check to its reply, as under the QUIC server.  `Authorize` is
`handle_authorize_request`; `RedeemCode` and `BurnCode` are the code grant with
and without success (the code is popped first in both); `ValidateCode` is
`validate_code`.  `RefreshExpired`, `RefreshReused` and `RefreshRotate` are the
refresh grant in the order of its checks: revoked, expired, used, client,
binding, and only after the rotation the binding proof.  Requests that return
an error and change nothing are stuttering steps.

Abstractions: tokens and codes are names never drawn twice (64 and 32 random
characters, and hashes of them); S256 is injective; a proof is valid on exactly
the session it was signed for, since the signed message contains that session's
binding id.

### TokenThreads

The refresh grant cut at every access to shared state.  `pc[s]` names the next
step of the thread that serves session `s`; `request[s]` is its token, `loop[s]`
its iterator in `revoke_family` (the number of entries at the start, and how
many it has visited), `order` the insertion order of the dictionary.  The grant
checks the record, then `rotate_token` has `consume_token` check it again, so
`CheckRevoked`, `CheckExpired` and `CheckUsed` occur with both callers.
`RevokeAbort` is CPython's `RuntimeError: dictionary changed size during
iteration`.  Client and subject do not change here and are left out, and the
clock is the set `expired`.

### QuicTransport

`client` is one transport: its phase (`wait_sh`, `wait_sf`, `wait_response`
while a call waits in `_recv_loop`; `open` between keep-alive requests), its
packet number, transcript, keys, `pending_packets` and `processed_app_packets`.
`conn` is the server's entry for this transport's connection id.  The connection
id and the packet numbers outlive a connection, which is what makes packets of
an old connection meet a new one; `incarnation` counts the calls of `connect()`
and doubles as the address of the socket.  `net` is the set of datagrams that
may still arrive.  Client actions are the points where `connect` and
`recv_application` resume after a datagram or a socket timeout; server actions
are the branches of `_handle_packet` and the retransmission pass.

Abstractions: cryptography is ideal (`KemtlsMessages`); an application request
is its number, and the application answers it with that number.  ACK and CLOSE
packets take no packet number of their own in the model: nobody looks at it, and
the numbers that serve as nonces stay distinct and increasing.  `SessionKeys(i, e)`
are the keys of incarnation `i` with server connection `e`.  `copy` counts the
attempts of a retransmission entry.  A timeout is a possibility, not a duration;
see below for the Prompt network.

Two kinds of network.  With `Prompt = FALSE` every datagram ever sent may arrive
at any time, any number of times, or never, and timers fire at will: this is
what safety is checked under.  `MaxRetries` is 0 there, which loses nothing: a
retransmission repeats the bytes of a datagram that can arrive again anyway.
With `Prompt = TRUE` a datagram arrives once, in any order, at most `MaxLoss` of
the kinds `Losable` are lost, and no timer fires and no new request starts while
something is under way: network delays are short against the timeouts of 250
and 350 ms.  Liveness is checked under this one, since under the first nothing
has to arrive.

An application that raises ends the server's handling of that datagram: the
packet number is already recorded, so retransmissions are acknowledged and
dropped (`ServeRaises`; the requests in `Faulty` may raise).  Run and recorded is one
case, not run but recorded the other.

### TcpTransport

`transport` is the `KEMTLSTCPClientTransport` with its record layer's two
sequence numbers, `call` the one call of `KEMTLSClient.request` under way and the
point it has reached, `conn[c]` the c-th connection ever made: two streams, the
server's record layer and the phase of its thread (`backlog` until accepted,
`closed` after `connection.close()`).  A session is named after its connection,
and stands for its keys.  Client actions are one `sendall` or one blocking read
with what the code does until the next; a thread's actions are those of
`complete_handshake`, `handle_application_session` and `_handle_client`.
`Fail` is the `except` branch of `request()`, which every failure reaches.

A frame is atomic unless its sender raised; then nothing, or a part of it (a
cut frame, `whole = FALSE`), or all of it is in the stream, and a reader that
meets a cut frame waits for more until the writer closes.  `SeqLimit` is 2^64 made
small.  `CollectSocket` is CPython closing a socket nobody refers to: `connect()`
keeps its socket in a local variable until the handshake is complete.  `Exit`
ends a process whose `start()` has returned, daemon threads included.

### StepFlow

`active` and `active_id` are the two globals; `run[r]` is the
`HandshakeSessionState` of the r-th run, which threads go on using after the
globals have moved on; `thread[t]` is a handler or a background task.  Threads are
cut where they read a global, emit (which is I/O), wait for a server or sleep, and
nowhere else.  A background task is always started as the last act of a thread,
so it takes that thread's slot.  Events are the actions `On...`; `RunNext`, `Started`,
`LocalStep`, `CallServer`, `ServerAnswers`, `Advance`, `Raise` follow
`_run_next_step_for_client` and `_execute_and_advance`; `RefreshTransition` is the
delayed task.

What a step needs and leaves is kept exactly (`LocalReady`, `CallReady`, `Accepts`,
`Answered`): handshake messages and transcripts, verifier, code, tokens, the refresh
counter.  Abstractions: a transcript keeps its first three messages, which is all
the Finished messages look at; a server step executed twice repeats its names
(`ServerHello(r)`), so a repetition shows by its place in the transcript and not by
fresh keys; verifiers are counted modulo 3; events are not kept, except for whom
they are addressed to.  `Patient` browsers keep to the two rules of
`Index.tsx`: start only without a run, and continue only one that is paused.

### OidcFlow

`oidc` is the `OIDCClient`, `http[h]` a `KEMTLSHttpClient` with the connection it
keeps, and the token endpoints are `Server == INSTANCE TokenService`, on the
variables `server`.  `access[t]` holds the claims of the access token issued
together with refresh token `t`.  An action is one method of the client: the
request over the kept session or a new one, the endpoint's whole handling of it,
and the answer, which may be lost (`Lost`) before or after the server has acted.
Sessions are numbered as they are opened.  `key` is the binding key pair.

Abstractions: the application calls one method at a time; one client, one user,
one redirect URI; the two servers' clocks are one; signatures are ideal and a proof
holds for one session and path; issuer, audience, type and signature of tokens are
right, since all come from the one authorization server.  `KEMTLSHttpClient` sends a
proof with every request, so every access token here is bound to a key; the claim
for a request without a proof is there as in the code and never made.

### KemtlsHandshake

`ca`, `config`, `pdk` are the files of `keys/`, by generation; `boot` is where a run
of `bootstrap_ca.py` is.  `server[i]` and `client` hold what was loaded and when
it was loaded matters only through its generation.  One handshake, `hs`, at a time;
`hs.peer` is the server's side, fixed at ClientHello.  The actions are the handlers
of `handshake.py` in the order of a TCP connection (`QuicTransport` deals with
packets out of order).  A key is the pair of its server and generation; key ids
are the same in every generation, as in the code.  Files are read whole: a reader
that meets a half-written JSON file raises and is left out.  `hs.since`, when the
handshake began, is history: `ExpiredIsRefused` compares it with the certificate's
window, which the code looks at only after ServerHello, so a handshake that begins in time
may still be refused.  Servers are honest: one that answers with a mode that was not offered,
which the client would not notice, is not modelled.

## 3. Runs

| Run | Expected | Checks | Instance |
|---|---|---|---|
| `token_service` | pass | `TypeOK SingleUse OneLivePerFamily ReusedFamilyIsDead FamilyKeepsItsOwner ImplementsRotation` | 2 clients, 2 redirect URIs, 2 verifiers, 2 codes, 4 tokens, 2 sessions, clock up to 2, symmetry |
| `token_threads` | pass | `TypeOK SingleUse OneLivePerFamily RevocationIsComplete` | 3 tokens, 2 threads, symmetry |
| `token_threads_reuse` | violation | `ReusedFamilyIsDead` | 2 tokens, 2 threads |
| `quic_network` | pass | `TypeOK KeyAgreement NonceUnique ImplementsExchange NoLateExecution` | any network, 2 requests, 2 server connections |
| `quic_liveness` | pass | `HandshakeUndisturbed RequestAnswered` | Prompt, 2 requests, the first may raise, 1 recoverable loss, 4 retries, fairness |
| `quic_lost` | violation | `RequestAnswered` | Prompt, 2 requests, 1 loss of another kind, fairness |
| `tcp_transport` | pass | `TypeOK RightConnection NonceUnique ImplementsExchange RequestEnds NewConnectionAnswers AbandonedThreadEnds` | 2 servers, 3 requests, 2 connections, 2 sequence numbers, 1 failure, fairness |
| `step_flow` | pass | `TypeOK NoStepFails StepsInOrder RunSettles` | 1 run, patient browser, 1 failing call, fairness |
| `step_flow_leftovers` | pass | `SessionsMatch RunIsLetGo TransitionStaysInRun` | an automatic and a manual run, 2 threads |
| `step_flow_failure` | violation | `FailureStaysInRun` | 2 runs, 2 threads |
| `oidc_flow` | pass | `TypeOK OnlyHolderServed HeldTokenLive LoginsDoNotMix AccessEndsWithFamily` | 2 logins, 1 code, 3 tokens, 3 sessions, 2 transports, clock up to 1, 1 exchange lost |
| `kemtls_handshake` | pass | `TypeOK AuthenticPeer ExpiredIsRefused FailsForAReason` | 2 servers, 2 generations, lifetime 1, clock up to 2 |

Why the bounds are enough.  TokenService: four tokens make two families or one
family of four generations; two sessions and two clients give every token a
wrong owner; lifetimes of 1 (codes) and 2 (tokens) within a clock of 2 reach
both sides of both expiry tests.  TokenThreads: three tokens are a parent, its
successor and a token of another family (the insertion that resizes), and two
threads are a rotation and a replay.  QuicTransport: two connections are an old
one and a new one; two requests share a connection or have one each;
`MaxServerPackets` leaves room for the two handshake answers and a response per
request, or for handshake answers sent again; the constraint `FewAnswers` allows
one such resend in all.  A
transcript takes one foreign message, since a second changes nothing more.

TcpTransport: two servers and two requests make a request for the wrong one; with
two sequence numbers the third request on a connection overflows; one failure (a
reset, a failed or partial send, an exception, a stopped server) meets every point of
a request, and two connections are the one that fails and its successor.
StepFlow: a second run is what a leftover can disturb, and two threads of one run
are what a leftover task and a click make; the position comes round to `authorize` and to
`resource_access` again with one run.  The view of `step_flow_leftovers` drops what a
run holds that is neither active nor in any thread's hands: nothing reads it again.
OidcFlow: a login that is started over before its code comes back makes two; three
tokens are two rotations of one family; three sessions are the one bound to, one to the
resource server and one after a change.  The clock reaches both sides of the expiry of
an access token; that of codes and refresh tokens is reached in `token_service`.
`KeepAlive` is TRUE, as in the step-flow server and the
demos; without it every refresh is over a new session and refused.
KemtlsHandshake: two generations are an old and a new one, and three points of
time are before, at and after the end of a window.

Symmetry is used in runs of safety properties only, and permutes names that
occur nowhere in the definitions.

Fairness.  `FairSpec` asks weak fairness of receiving a datagram, of the client's
timers, of its overall deadline and of the server's retransmission pass: both
sides sit in loops that read the socket with a timeout and run the timers when
it expires.  New requests, the application's `close()` and losses are not fair.
`GiveUp` in the Prompt network waits until all retransmissions are used up: the
client's deadline is 1.75 s, and with at most one loss both sides have by then
sent everything they would send.

TcpTransport's fairness: the client's thread runs whenever it can (blocked in a read
it cannot), so does each server thread, an unreferenced socket is collected, and a
process whose accept loop has ended exits.  Each is one thread of its own of a
preemptive scheduler.  Requests, closes, faults, stops and restarts are not fair.
`NewConnectionAnswers` is for a calm network: no more faults, every server running.
StepFlow's fairness: each thread runs, a call to a server returns or raises, and a
sleep ends; browsers need never do anything.

`CHECK_DEADLOCK FALSE` is set where the system may stop: the client has made all its
requests, names, sessions or the clock have run out, or a run has ended in an error
with no further run left.

## 4. Findings

Each violation run is a disagreement of the code with its documentation or its
tests; `PROJECT.json` quotes the lines.

1. `token_threads_reuse`: a replay that is answered "reuse detected" while the
   rightful session's thread is between marking the old token and inserting the
   new one (`refresh_store.py:61` and `:108`) leaves the new token usable.
2. `quic_lost`: one lost datagram of three kinds, and a request is never answered.
   INITIAL: the handshake timeout sends the packet twice (`quic_client.py:293` and
   `:245`); the server answers twice, and the client takes the second ServerHello for
   ServerFinished and fails.  ClientFinished (`quic_client.py:99`) is the one
   handshake message without retransmission; the server drops the request.  After a
   lost CONNECTION_CLOSE the server ignores the next INITIAL of the same connection
   id (`quic_server.py:200`).  TLC reports one of them; leave a single kind in
   `Losable` of `QuicLost.cfg` to see each.
3. `step_flow_failure`: the failure of a step of an old run resets the new one
   (`step_flow_server.py:751`).

More of the kind, met on the way and not kept as runs.  Each property is in its
module, and TLC finds it violated with the change named, made to a cfg in which it
replaces the properties listed:

| Property | Change | What happens |
|---|---|---|
| `ReplayRevokes` | `TokenThreadsReuse.cfg`, none | an insertion by any thread during the loop of `revoke_family` (`refresh_store.py:92`) ends it with `RuntimeError`, and the rest of the family is not revoked |
| `RequestAnswered` | `QuicLiveness.cfg`, `CommonMode = FALSE` | the server acknowledges INITIAL and then refuses it; the client's loop has no entry left to count and never ends (`quic_client.py:241`) |
| `ConsentBeforeTokens` | `StepFlowFailure.cfg`, `MaxRuns = 1`, `Patient = FALSE`, `AutoAdvance <- Manual` | two clicks in the account step advance the run twice, past consent, and the tokens are fetched (`step_flow_server.py:653`) |
| `NodeIsHeld` | the same | the step that is held for three seconds is executed again by a click (`:874`) |
| `ContinueIsAnswered` | the same | a click without a run raises `AttributeError` (`:870`) before the message written for the case |
| `ManualRunWaits` | `StepFlowFailure.cfg`, none | a background task names no run and drives whichever it finds (`:616`), so a task of an automatic run moves the manual run after it |
| `NoOrphanRun` | `StepFlowFailure.cfg`, none | a browser that goes while its run is being initialized leaves a run behind (`:832`), against "fail closed on disconnect" |
| `FieldsApply` | `OidcFlow.cfg`, `Trust = {"trust1", "trust2"}` | trust fields set on an HTTP client do not reach the connection it keeps (`kemtls_http_client.py:107`, `tcp_transport.py:149`) |
| `AutoFallsBack` | `KemtlsHandshake.cfg`, none | automatic mode does not fall back to baseline when the server has a key id and the client no key store for it (`handshake.py:169`) |

The repository's README promises "PoP with fresh nonces and timestamps"
(`README.md:242`) and a challenge of the resource server (`:303`).  The code has
neither: what a client signs is the method, the path and the session's binding id
(`session_binding.py:53`), the same for every request to one path in one session.
`BindingProof` of OidcFlow is that proof, and no property speaks of the freshness of a
proof within a session; `OnlyHolderServed` is about the key it is made with.

What holds nevertheless, and is less obvious than it looks: without a lock no
token is exchanged twice and no family has two usable tokens (`SingleUse`,
`OneLivePerFamily` of TokenThreads), because a token is bound to a session and a
session has one thread; a revocation that is reported did reach every token
then in the store; over UDP no request is executed twice, none out of order
after a later one, and no caller gets the response to another request.  Over TCP no
nonce is used twice although a number advances only after `sendall`, because every
failure closes the transport; no thread is left behind although no socket has a
timeout.  However threads interleave in the step-flow server, the two sides of its
handshake never establish over different transcripts, and the delayed transition is
the one task that checks whose run it finds.  Key files of different generations
make handshakes fail, never succeed with the wrong server.

## 5. Proofs

`TokenServiceProofs` proves for all values of the constants, from the assumptions
`ServiceAssumption` (the registry maps clients to sets of redirect URIs,
lifetimes are naturals, the refresh lifetime is not 0, names are distinct) and
`NoRecordAssumption` (the null entry is not an entry):

| Theorem | States |
|---|---|
| `TypeCorrect` | `Spec => []TypeOK` |
| `SingleUseHolds` | `Spec => []SingleUse` |
| `OneLivePerFamilyHolds` | `Spec => []OneLivePerFamily` |
| `ReusedFamilyIsDeadHolds` | `Spec => []ReusedFamilyIsDead` |
| `FamilyKeepsItsOwnerHolds` | `Spec => []FamilyKeepsItsOwner` |
| `RotationImplemented` | `Spec => ImplementsRotation` |

The inductive invariant `IInv` adds two facts to the properties.  `ParentIsSpent`:
what has bought a token is used (a token) or out of the store (a code); without it
a used token could buy again, and `SingleUse` would not be inductive.
`FamiliesBegun`: a token's family is named after an issued token, so a new family
cannot collide with an old one.  The proof first reduces a step to its effect on
the store (`StepKinds`: nothing, redeem, rotate, expire one, revoke a family), then
shows each part of `IInv` preserved under each effect.  The clock's bound
`MaxTime` is not used.  The refinement maps every effect to an action of
`RefreshRotation` or to a stutter.

`TokenThreadsProofs` does the same for any number of tokens and threads, from
`ThreadsAssumption` and `NoRecordAssumption` (the null entry is neither a token
nor a record):

| Theorem | States |
|---|---|
| `ThreadsTypeCorrect` | `Spec => []TypeOK` |
| `ThreadsSingleUse` | `Spec => []SingleUse` |
| `ThreadsOneLivePerFamily` | `Spec => []OneLivePerFamily` |
| `ThreadsRevocationIsComplete` | `Spec => RevocationIsComplete` |

The argument replaces a lock by the session binding.  A thread past the binding
check holds a token bound to its own session (`BoundHere`), so two such threads
hold different tokens; hence no other thread can mark a token between its test
and its marking (`UnusedAtMark`), nor issue a second successor between marking and
issue (`UsedAtIssue`).  `OneNewest`, stronger than `OneLivePerFamily`, counts a
token being exchanged as the newest of its family until its successor is there;
it holds whether tokens are revoked or not, which is why a revocation that missed
a successor cannot break it.  `RevocationIsComplete` rests on `AllOrdered` (every
record has a position) and `PassedIsRevoked` (a loop has revoked the family's
records among those it passed, whatever was appended since).  The proof looks at
the actions once, to reduce a step to its effect on records, threads and loops
(`StoreSteps`, `ThreadSteps`, `LoopSteps`).

`KemtlsHandshakeProofs` proves, from `HandshakeAssumption` (bounds are naturals; the
null value is neither a number nor a mode), for any number of generations, any
lifetime and an unbounded clock:

| Theorem | States |
|---|---|
| `Typing` | `Spec => []TypeOK` |
| `PeerIsAuthentic` | `Spec => []AuthenticPeer` |
| `ExpiredStaysOut` | `Spec => []ExpiredIsRefused` |
| `FailureHasAReason` | `Spec => []FailsForAReason` |

`AuthenticPeer` speaks of verified handshakes only, so it is not inductive.  `Stages`
says what each stage has established: from ServerHello on the mode is one that
was offered; from ClientKeyExchange on the server is the expected one and the
secret is for the key the client trusts and, in baseline mode, the handshake began
before the certificate had run out; from ServerFinished on that key is the one
the server holds.  `MadeInThePast` is what `FailsForAReason` needs: a certificate is
never refused for being too new.  The proof goes by groups of actions: files
(`FilesStep`), loading, and one lemma per message of the handshake.

`TcpTransportProofs` proves, from `TcpAssumption` (bounds are naturals, a record
header holds at least one number) and `NoneAssumption` (null is no number), for any
servers, requests, connections and faults and any width of the sequence numbers:

| Theorem | States |
|---|---|
| `TypesHold` | `Spec => []TypeOK` |
| `NoncesUnique` | `Spec => []NonceUnique` |
| `ConnectionsRight` | `Spec => []RightConnection` |
| `ExchangeImplemented` | `Spec => ImplementsExchange` |

`IInv` needs record numbers only, not how much of a frame has arrived.
`ClientNumbers`: every number the client has used on the connection it holds is
below `send_seq`, and the request it waits for was written under the number it
expects the response to carry.  `ThreadNumbers`: a thread has answered every request
it has read but the one it is at.  `AnswersMatch`: the response with a number answers
the request with that number.  `WrittenOnce` and `ExecutedAccepted` (an executed
request had been accepted on its connection) turn that into at-most-once
execution.  A failed write breaks none of this, because both ends close: the
writing side is never at that connection again.  Most actions touch one connection,
and `ConnInvUnaffected` leaves the others' part of the invariant alone.

`StepFlowProofs` proves, from `StepFlowAssumption`, `NoneAssumption` and
`ObtainedAssumption` (null is no run id, no refresh token and no message), for any
number of browsers, threads and runs, with `Patient` browsers or not:

| Theorem | States |
|---|---|
| `TypesHold` | `Spec => []TypeOK` |
| `EstablishedMatch` | `Spec => []SessionsMatch` |
| `RunsAreLetGo` | `Spec => RunIsLetGo` |
| `TransitionsStay` | `Spec => TransitionStaysInRun` |
| `SerialStepsSucceed` | `Spec /\ []Serial => []NoStepFails` |
| `SerialStepsInOrder` | `Spec /\ []Serial => StepsInOrder` |

`Transcripts` says how far both transcripts have got by each of the handshake's
messages, however often and in whatever order threads executed its steps: once a side
has heard three messages its transcript does not change, which is why the later
comparison cannot be spoilt.  `TypeOK` says of a run's position only that it is positive:
three threads of an impatient browser can push it beyond the last step.

With two threads on one run a step can be executed twice and past its turn (section 4),
so the order of the steps is proved under the hypothesis `Serial`: a handler or task
ends before the next one begins.  It restricts how threads interleave and nothing
else: runs, browsers, clicks, resets, disconnects, failing calls and impatience are as in
`Spec`, and the front end's rules are not needed.  It can be met: `OneSlotIsSerial`
proves `Spec => []Serial` for one thread slot, the instance of `step_flow`, and a lock
around each handler and task would have the same effect.  The invariant is `Order`.
`Reached(r, s, n)` is what a run holds once the steps before position `n` are completed,
the first time round or a later one: `Handshaken` the messages, transcripts and secret,
`LoggedIn` the code that fits the verifier, the token and a live refresh token as long as
loops are left.  `ActiveInOrder` says the active run is ready for the step at its position
whenever no thread is between completing a step and moving on; `ThreadInOrder` says of
a thread at each of its points what its run holds.  A failed call is excused
(`NoStepFails` assumes there was none), and so is a thread whose run was replaced.

`OidcFlowProofs` proves, from `FlowAssumption`, `ServerAssumption`,
`ServerRecordAssumption` (what TokenService assumes of its constants) and
`ProofAssumption` ("no proof" is no proof), for any numbers of verifiers, codes, tokens, sessions and lost exchanges and any lifetimes:

| Theorem | States |
|---|---|
| `TypesHold` | `Spec => []TypeOK` |
| `ServerIsTokenService` | `Spec => P!Spec`: the server of the composition is TokenService |
| `ServedToHolder` | `Spec => []OnlyHolderServed` |
| `HeldTokenStaysLive` | `Spec => []HeldTokenLive` |
| `LoginsStayApart` | `Spec => LoginsDoNotMix` |
| `AccessEnds` | `Spec => AccessEndsWithFamily` |

The module instantiates `TokenServiceProofs`, so the invariant of the endpoints and
its lemmas are used and not proved again; its own part is `HttpFine` and `ClientFine`
(fields and connections), `BoundToKey` (every access token carries a binding key and
outlives its issue by one lifetime at the most) and `DeadFamilies` (no access token is
issued in a family after its revocation).  A step of the composition is
one of three kinds: it leaves tokens alone (`Quiet`), issues some, in a new family or
in that of a live token (`Bought`), or has the client's own token refused for its age
or for a second use (`Spent`).

`QuicTransportProofs` proves, from `QuicAssumption` and `AddressAssumption` (the
server's address is no socket number, null is no session key), for any numbers
of requests, retries, server connections and losses, on the arbitrary network as well
as on the Prompt one:

| Theorem | States |
|---|---|
| `TypesHold` | `Spec => []TypeOK` |
| `NoncesUnique` | `Spec => []NonceUnique` |
| `KeysAgree` | `Spec => []KeyAgreement` |
| `NothingRunsLate` | `Spec => NoLateExecution` |
| `ExchangeImplemented` | `Spec => ImplementsExchange` |

The invariant speaks of everything that may still arrive, in the network and in both
ends' retransmission tables, up to which copy it is (`Wire`).  `Plausible` says what a
datagram may be: a ClientFinished or a request exists only if its incarnation finished
that handshake.  `ClientFine` and `ServerFine` say what transcripts can be; a stray
packet can spoil the server's only where ClientKeyExchange should stand, and then no
ClientFinished matches.  `RequestsFine` says that numbers and requests are used
once and that a request overtaken on its own session was executed; `ServedFine` that
the server's connection has recorded the executed ones and that none of its requests
was overtaken by any other, which is the heart of `NoLateExecution`; `ResponsesFine` that a
response is to an executed request and that the client has processed all but the one it
waits for.  `KeysTell` (session keys identify the incarnation and the
server connection) is what makes records of other sessions unreadable.  Since
incarnations, server connections and requests only grow (`Onward`), a step has to
show only what is new: the lemmas from `MessagesStay` to `CallersRest` reduce each
action to the part it touches.

`QuicHandshakeProofs` proves one theorem more, for any numbers of requests,
retries and server connections, on a network that is `Forgiving`: Prompt, and at most
one datagram lost in all, which is no INITIAL.  `NoConnection` says that "no
connection" is not a connection record.

| Theorem | States |
|---|---|
| `HandshakesUndisturbed` | `ASSUME Forgiving, NoConnection PROVE Spec => []HandshakeUndisturbed` |

Each part of `Forgiving` is needed.  A lost INITIAL makes a handshake fail (finding 2),
and so can two losses of other kinds (TLC finds it with `MaxLoss = 2` in
`QuicLiveness.cfg`).  On the arbitrary network a ServerHello that is
retransmitted needlessly and arrives after the client moved on is taken for
ServerFinished.  `Forgiving` covers the losses of `quic_liveness`, and those of
ClientFinished and CONNECTION_CLOSE as well, which leave a request unanswered but
disturb no handshake.  The invariant `Calm` follows one handshake.  `Opening`: nothing
but the INITIAL is under way.  `Greeting`: the server has answered; while INITIAL is
still pending something is under way, so its timer cannot fire.  `Exchanging`: all that
is under way is ClientKeyExchange, ServerFinished and acknowledgements, and as long as
the server still holds its ServerHello for retransmission the acknowledgement of it is
under way, or the one loss is spent and what takes the handshake on (`Progress`) is
under way, so neither side's timer can fire and the ServerHello is never sent again.
`Elsewhere`: a CONNECTION_CLOSE was lost, the server still has the connection to an
earlier socket and answers there, so no handshake message reaches the client before it
gives up.  `NothingLeft` carries the invariant over to the next connect(): when
a transport is closed its connection is gone, or the CONNECTION_CLOSE is under way and
the next request waits for it, or the one loss is spent.  Without a common mode the argument
is another, since no server message exists (`Silent`).

Model-checked only, and why:

- liveness (`RequestAnswered`, `RequestEnds`, `NewConnectionAnswers`,
  `AbandonedThreadEnds`, `RunSettles`): fairness and ENABLED are out of the prover's reach.

`ReusedFamilyIsDead` and `ReplayRevokes` of TokenThreads do not hold (section 4), so
nothing is proved of them.

## 6. Not modelled, and why

- `code_data` of `handle_token_request` (no server passes it); ID tokens, user claims,
  nonce and scope, which shape an answer and no decision.
- QUIC: ICMP errors raised by the socket, malformed datagrams, the server's
  CONNECTION_CLOSE (it sends none), `stop()`, connections of other clients (other
  connection ids share no state).
- TCP: HTTP parsing and a request that does not parse, which ends the thread as
  `ExecuteRaises` does.
- Handshake: messages that do not parse; the legacy classes at the end of
  `handshake.py`; `add_entry`'s checks against duplicate entries.
- Step flow: the contents of events; a step-flow server started twice; the demo
  fallback of the access-token decoding, which only shapes what is displayed.
- OIDC client: the composition with either transport module action by action.  What
  the client needs of them is `RequestExchange`, which both are shown to implement.
- Telemetry, packet and text encodings, static documents, cryptographic primitives,
  legacy entry points, demos, benchmarks, front end and deployment: no protocol state,
  see `PROJECT.json`.

## 7. Plan

1. done: `TokenService`, `RefreshRotation`, `TokenThreads`, `QuicTransport`,
   `RequestExchange`, `KemtlsMessages`, proofs of `TokenService` and `TokenThreads`.
2. done: `TcpTransport`, `StepFlow`, `OidcFlow`, `KemtlsHandshake` with its proofs,
   an application that raises in `QuicTransport`.
3. done: the proofs of `TcpTransport`, `StepFlow`, `OidcFlow` and `QuicTransport`, with
   both refinements of `RequestExchange`.
4. done: the proofs of `NoStepFails` and `StepsInOrder` of `StepFlow` for threads that do
   not overlap, and of `HandshakeUndisturbed` of `QuicTransport` on a forgiving network.
   Every safety property a passing run checks is now a theorem.
5. `add_entry` and the packet header's widths against reference definitions, if
   they are ever changed.
