--------------------------- MODULE KemtlsHandshake ---------------------------
(***************************************************************************)
(* Who a KEMTLS handshake authenticates: the key material bootstrap_ca.py  *)
(* writes, the servers and clients that have loaded some generation of it, *)
(* and one handshake between a client and the server at the address it     *)
(* connects to.  Messages are taken in order, as over TCP; QuicTransport   *)
(* is about handshakes whose packets get mixed up.                         *)
(*                                                                         *)
(* One run of bootstrap_ca.py makes one generation of CA keys, server keys *)
(* and certificates, and writes them file by file; a key, a signature or a *)
(* certificate is named by its generation, and by its server.              *)
(***************************************************************************)
EXTENDS Naturals, Sequences

CONSTANTS None,          \* no file, no CA key, no key store entry
          Lifetime,      \* of a certificate
          MaxTime,       \* bounds for model checking: the clock,
          MaxGeneration  \*   runs of bootstrap_ca.py

ASSUME HandshakeAssumption ==
  /\ {Lifetime, MaxTime, MaxGeneration} \subseteq Nat
  /\ None \notin Nat /\ None \notin {"baseline", "pdk"}

VARIABLES now,
          made,    \* made[g]: the time generation g was made
          ca,      \* ca_keys.json: a generation, or None
          config,  \* config[i]: as_config.json, rs_config.json
          pdk,     \* pdk_manifest.json: the generation of all its keys, or None
          boot,    \* the file bootstrap_ca.py writes next, or "idle"
          server,  \* server[i]: what the server with identity i has loaded
          client,  \* the client: its configuration
          hs       \* the handshake under way; hs.peer is its server's side

files == <<made, ca, config, pdk, boot>>
vars == <<now, files, server, client, hs>>

Identity == {"auth-server", "resource-server"}
Gen == 1..MaxGeneration
Modes == {"baseline", "pdk"}
Newest == Len(made)

\* No server runs; no handshake.
Down == [sk |-> None, key_id |-> FALSE]
NoHandshake == [pc |-> "none"]
-----------------------------------------------------------------------------
(* bootstrap_ca.py, load_pdk_key_id and the servers' start, the clients.    *)

\* One run writes the CA keys, the two servers' files and the manifest, in this
\* order, and may be stopped before each.
BootstrapStarts ==
  /\ boot = "idle" /\ Newest < MaxGeneration
  /\ made' = Append(made, now) /\ ca' = Newest + 1 /\ boot' = "auth-server"
  /\ UNCHANGED <<now, config, pdk, server, client, hs>>

WritesConfig(i) ==
  /\ boot = i
  /\ config' = [config EXCEPT ![i] = Newest]
  /\ boot' = IF i = "auth-server" THEN "resource-server" ELSE "manifest"
  /\ UNCHANGED <<now, made, ca, pdk, server, client, hs>>

WritesManifest ==
  /\ boot = "manifest"
  /\ pdk' = Newest /\ boot' = "idle"
  /\ UNCHANGED <<now, made, ca, config, server, client, hs>>

BootstrapStops ==
  /\ boot # "idle" /\ boot' = "idle"
  /\ UNCHANGED <<now, made, ca, config, pdk, server, client, hs>>

\* The handshake of a server that is stopped fails at the client.
Breaks(i) ==
  hs' = IF hs.pc \notin {"none", "done", "failed"} /\ hs.server = i
          THEN [hs EXCEPT !.pc = "failed", !.broken = TRUE] ELSE hs

\* The server offers pdk when the manifest has a key id for it.
StartServer(i) ==
  /\ config[i] # None
  /\ server' = [server EXCEPT ![i] = [sk |-> config[i], key_id |-> pdk # None]]
  /\ Breaks(i)
  /\ UNCHANGED <<now, files, client>>

\* An application loads the trust anchors it wants, and any of them may be
\* missing; expects is its expected_identity.
LoadClient(mode, with_ca, with_pdk, expects) ==
  /\ hs.pc \in {"none", "done", "failed"}
  /\ client' = [mode |-> mode, expects |-> expects,
                ca |-> IF with_ca THEN ca ELSE None,
                store |-> IF with_pdk THEN pdk ELSE None]
  /\ hs' = NoHandshake
  /\ UNCHANGED <<now, files, server>>
-----------------------------------------------------------------------------
(* The handshake.                                                          *)

\* Mutant: "auto" is sent as it stands.
OfferedAsIs(mode) == {mode}

Offered(mode) == IF mode = "auto" THEN Modes ELSE {mode}

\* ClientHello to the server that runs at i's address; since is history.
SendHello(i) ==
  /\ client # None /\ hs.pc = "none" /\ server[i].sk # None
  /\ hs' = [pc |-> "hello", server |-> i, peer |-> server[i], modes |-> Offered(client.mode),
            mode |-> None, secret |-> None, broken |-> FALSE,
            since |-> now]
  /\ UNCHANGED <<now, files, server, client>>

\* process_client_hello: pdk before baseline.
Chooses(s, modes) ==
  IF s.key_id /\ "pdk" \in modes THEN "pdk"
  ELSE IF "baseline" \in modes THEN "baseline" ELSE None

\* ServerHello, or an exception: no mode in common.
ReceiveHello ==
  /\ hs.pc = "hello"
  /\ LET mode == Chooses(hs.peer, hs.modes)
     IN  hs' = [hs EXCEPT !.mode = mode, !.pc = IF mode = None THEN "failed" ELSE "answered"]
  /\ UNCHANGED <<now, files, server, client>>

\* Mutant: a certificate is not valid in its first second.
InWindowAfter(g) == made[g] < now /\ now <= made[g] + Lifetime

\* Mutant: a certificate is valid for a second more than its window.
InWindowAndOneMore(g) == made[g] <= now /\ now <= made[g] + Lifetime + 1

\* validate_certificate: both ends of the window belong to it.
InWindow(g) == made[g] <= now /\ now <= made[g] + Lifetime

\* The certificate of server i, of its generation: signed by the CA the client
\* trusts, in its window, for the identity expected.
CertificateAccepted(i) ==
  client.ca # None /\ hs.peer.sk = client.ca /\ InWindow(hs.peer.sk) /\ i = client.expects

\* resolve_expected_identity with the key id server i sent, in the client's key
\* store if it has one; key ids are the same in every generation.
EntryResolved(i) == client.store # None /\ i = client.expects

\* process_server_hello up to ClientKeyExchange: the secret is encapsulated to
\* the long-term key of the certificate or of the entry.
ReceiveServerHello ==
  /\ hs.pc = "answered"
  /\ LET i == hs.server
         trusted == IF hs.mode = "pdk" THEN EntryResolved(i) ELSE CertificateAccepted(i)
         key == IF hs.mode = "pdk" THEN client.store ELSE hs.peer.sk
     IN  hs' = IF trusted THEN [hs EXCEPT !.pc = "keyed", !.secret = <<i, key>>]
               ELSE [hs EXCEPT !.pc = "failed"]
  /\ UNCHANGED <<now, files, server, client>>

\* Mutant: the MAC of ServerFinished is not compared.
AnyFinished(i) == TRUE

\* ServerFinished verifies when the server has decapsulated the same secret.
FinishedVerifies(i) == hs.secret = <<i, hs.peer.sk>>

\* process_client_key_exchange and process_server_finished.
ReceiveFinished ==
  /\ hs.pc = "keyed"
  /\ hs' = [hs EXCEPT !.pc = IF FinishedVerifies(hs.server) THEN "verified" ELSE "failed"]
  /\ UNCHANGED <<now, files, server, client>>

\* client_finished and verify_client_finished: the server establishes.
ReceiveClientFinished ==
  /\ hs.pc = "verified"
  /\ hs' = [hs EXCEPT !.pc = "done"]
  /\ UNCHANGED <<now, files, server, client>>

Tick == now < MaxTime /\ now' = now + 1 /\ UNCHANGED <<files, server, client, hs>>
-----------------------------------------------------------------------------
Init ==
  /\ now = 0 /\ made = <<>> /\ ca = None /\ pdk = None /\ boot = "idle"
  /\ config = [i \in Identity |-> None]
  /\ server = [i \in Identity |-> Down]
  /\ client = None /\ hs = NoHandshake

Bootstrap ==
  \/ BootstrapStarts \/ WritesManifest \/ BootstrapStops
  \/ \E i \in Identity : WritesConfig(i)

Handshake ==
  \/ \E i \in Identity : SendHello(i)
  \/ ReceiveHello \/ ReceiveServerHello \/ ReceiveFinished \/ ReceiveClientFinished

Next ==
  \/ Bootstrap \/ Handshake \/ Tick
  \/ \E i \in Identity : StartServer(i)
  \/ \E mode \in Modes \cup {"auto"}, with_ca, with_pdk \in BOOLEAN, i \in Identity :
       LoadClient(mode, with_ca, with_pdk, i)

Spec == Init /\ [][Next]_vars
-----------------------------------------------------------------------------
(* Properties.                                                             *)

Configuration ==
  [mode: Modes \cup {"auto"}, expects: Identity, ca: Gen \cup {None},
   store: Gen \cup {None}]
HandshakeState ==
  [pc: {"hello", "answered", "keyed", "verified", "done", "failed"}, server: Identity,
   peer: [sk: Gen, key_id: BOOLEAN], modes: (SUBSET Modes) \ {{}}, mode: Modes \cup {None},
   secret: (Identity \X Gen) \cup {None}, broken: BOOLEAN, since: Nat]

\* The variables stay within their types (bootstrap_ca.py, handshake.py).
TypeOK ==
  /\ now \in Nat
  /\ made \in Seq(Nat) /\ Len(made) \in 0..MaxGeneration
  /\ ca \in 1..Len(made) \cup {None} /\ pdk \in 1..Len(made) \cup {None}
  /\ config \in [Identity -> 1..Len(made) \cup {None}]
  /\ boot \in Identity \cup {"idle", "manifest"}
  /\ boot # "idle" => Len(made) # 0
  /\ server \in [Identity -> [sk: 1..Len(made) \cup {None}, key_id: BOOLEAN]]
  /\ client \in Configuration \cup {None}
  /\ hs \in HandshakeState \cup {NoHandshake}

Verified == hs.pc \in {"verified", "done"}

\* A client whose handshake succeeds talks to the server it expected, and that
\* server holds the key of the very generation the client trusts, by its CA or
\* by its key store, however often keys were made anew, files written halfway
\* and servers restarted in between; and in a mode it offered, as long as
\* servers are honest, for the client does not look (handshake.py
\* process_client_hello, process_server_hello, process_server_finished; pdk.py
\* resolve_expected_identity).
AuthenticPeer ==
  Verified =>
    /\ hs.server = client.expects
    /\ hs.peer.sk # None
    /\ hs.peer.sk = IF hs.mode = "pdk" THEN client.store ELSE client.ca
    /\ hs.mode \in hs.modes

\* A handshake that begins when the server's certificate has run out never
\* succeeds in baseline mode, from the first second on, whatever the server and
\* the client have loaded and when; the certificate is looked at only once the
\* server has answered (certs.py validate_certificate, handshake.py
\* process_server_hello).
ExpiredIsRefused ==
  Verified /\ hs.mode = "baseline" => hs.since <= made[hs.peer.sk] + Lifetime

\* A handshake fails only for a reason: the client has no anchor for the mode
\* chosen, or one of another generation; the certificate is out of its window;
\* it is another server; no mode in common; the server was restarted.
FailsForAReason ==
  hs.pc = "failed" /\ ~hs.broken =>
    LET g == hs.peer.sk
    IN  \/ hs.mode = None /\ ~hs.peer.key_id /\ hs.modes = {"pdk"}
        \/ hs.server # client.expects
        \/ hs.mode = "pdk" /\ client.store # g
        \/ hs.mode = "baseline" /\ (client.ca # g \/ now > made[g] + Lifetime)

\* "auto mode falls back to baseline when pdk not locally trusted"
\* (tests/test_handshake_pdk.py:95): an automatic client with the right CA key
\* and a valid certificate before it gets through.  Does not hold, and no run
\* checks it: see the README, section 4.
AutoFallsBack ==
  hs.pc = "failed" /\ ~hs.broken /\ client.mode = "auto" =>
    \/ hs.server # client.expects
    \/ client.ca # hs.peer.sk
    \/ now > made[client.ca] + Lifetime
=============================================================================
