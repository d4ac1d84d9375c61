------------------------ MODULE KemtlsHandshakeProofs ------------------------
(***************************************************************************)
(* KemtlsHandshake for any number of generations of keys, any lifetime and *)
(* any time: types, AuthenticPeer, ExpiredIsRefused and FailsForAReason.   *)
(***************************************************************************)
EXTENDS KemtlsHandshake, TLAPS

\* What a handshake under way has established at each stage: the client exists
\* as long as the handshake does, and once it has taken ServerHello its secret
\* is for the expected server and a key of the generation it trusts, whose
\* certificate, if it was asked for one, had not run out when the handshake began.
Trusted == IF hs.mode = "pdk" THEN client.store ELSE client.ca

Stages ==
  /\ hs.pc # "none" => client # None /\ hs.peer.sk \in 1..Len(made) /\ hs.since <= now
  /\ hs.pc \in {"answered", "keyed", "verified", "done"} => hs.mode \in hs.modes
  /\ hs.pc \in {"keyed", "verified", "done"} =>
       /\ hs.server = client.expects /\ hs.secret = <<hs.server, Trusted>>
       /\ hs.mode = "baseline" => hs.since <= made[hs.peer.sk] + Lifetime
  /\ Verified => hs.secret = <<hs.server, hs.peer.sk>>

\* No generation was made in the future.
MadeInThePast == \A g \in 1..Len(made) : made[g] <= now

IInv == TypeOK /\ MadeInThePast /\ Stages /\ FailsForAReason

\* Initially there are no keys and no handshake.
LEMMA InitIInv == Init => IInv
  BY HandshakeAssumption DEF Init, IInv, TypeOK, MadeInThePast, Stages, FailsForAReason,
     NoHandshake, Down, Verified

\* Writing and loading files disturbs neither the handshake's own record nor
\* the time of a generation that was there before.
LEMMA FilesStep ==
  ASSUME IInv, Bootstrap
  PROVE  IInv'
<1> USE HandshakeAssumption DEF IInv
<1>1. UNCHANGED <<now, server, client, hs>>
  BY DEF Bootstrap, BootstrapStarts, WritesConfig, WritesManifest, BootstrapStops
<1>2. /\ made' \in Seq(Nat) /\ Len(made') \in 0..MaxGeneration /\ Len(made) <= Len(made')
      /\ \A g \in 1..Len(made) : made'[g] = made[g]
      /\ \A g \in 1..Len(made') : made'[g] <= now
  <2>1. CASE BootstrapStarts
    BY <2>1 DEF BootstrapStarts, TypeOK, MadeInThePast, Newest
  <2>2. CASE ~BootstrapStarts
    <3>1. UNCHANGED made
      BY <2>2 DEF Bootstrap, WritesConfig, WritesManifest, BootstrapStops
    <3> QED BY <3>1 DEF TypeOK, MadeInThePast
  <2> QED BY <2>1, <2>2
<1>3. TypeOK'
  <2>0. /\ server' \in [Identity -> [sk: 1..Len(made') \cup {None}, key_id: BOOLEAN]]
        /\ config \in [Identity -> 1..Len(made') \cup {None}]
    <3>1. 1..Len(made) \cup {None} \subseteq 1..Len(made') \cup {None}
      BY <1>2 DEF TypeOK
    <3>2. \A i \in Identity : server[i] \in [sk: 1..Len(made') \cup {None}, key_id: BOOLEAN]
      BY <3>1 DEF TypeOK
    <3> QED BY <1>1, <3>1, <3>2 DEF TypeOK
  <2>1. CASE BootstrapStarts
    <3>1. Len(made') = Len(made) + 1
      BY <2>1 DEF BootstrapStarts, TypeOK
    <3> QED BY <1>1, <1>2, <2>0, <2>1, <3>1 DEF BootstrapStarts, TypeOK, Newest, Identity
  <2>2. ASSUME NEW i \in Identity, WritesConfig(i)
        PROVE  TypeOK'
    BY <1>1, <1>2, <2>0, <2>2 DEF WritesConfig, TypeOK, Newest, Identity
  <2>3. CASE WritesManifest
    BY <1>1, <1>2, <2>0, <2>3 DEF WritesManifest, TypeOK, Newest
  <2>4. CASE BootstrapStops
    BY <1>1, <1>2, <2>0, <2>4 DEF BootstrapStops, TypeOK
  <2> QED BY <2>1, <2>2, <2>3, <2>4 DEF Bootstrap
<1>4. MadeInThePast'
  BY <1>1, <1>2 DEF MadeInThePast
<1>5. Stages'
  <2>1. hs.pc # "none" => hs.peer.sk \in 1..Len(made')
    <3>1. 1..Len(made) \subseteq 1..Len(made')
      BY <1>2 DEF TypeOK
    <3> QED BY <3>1 DEF Stages
  <2>2. hs.pc # "none" => made'[hs.peer.sk] = made[hs.peer.sk]
    BY <1>2 DEF Stages
  <2> QED BY <1>1, <2>1, <2>2 DEF Stages, Verified, Trusted
<1>6. FailsForAReason'
  BY <1>1, <1>2 DEF FailsForAReason, Stages
<1> QED BY <1>3, <1>4, <1>5, <1>6

\* A server that loads new files breaks the handshake it has under way.
LEMMA ServerStep ==
  ASSUME IInv, NEW i \in Identity, StartServer(i)
  PROVE  IInv'
<1> USE HandshakeAssumption DEF IInv
<1>1. UNCHANGED <<now, files, client>>
  BY DEF StartServer
<1>2. server' \in [Identity -> [sk: 1..Len(made) \cup {None}, key_id: BOOLEAN]]
  BY DEF StartServer, TypeOK
<1>3. CASE hs' = hs
  <2>1. TypeOK' /\ MadeInThePast'
    BY <1>1, <1>2, <1>3 DEF TypeOK, MadeInThePast, files
  <2>2. Stages' /\ FailsForAReason'
    BY <1>1, <1>3 DEF Stages, FailsForAReason, Verified, Trusted, files
  <2> QED BY <2>1, <2>2
<1>4. CASE hs' # hs
  <2>1. /\ hs.pc \notin {"none", "done", "failed"} /\ hs \in HandshakeState
        /\ hs' = [hs EXCEPT !.pc = "failed", !.broken = TRUE]
    BY <1>4 DEF StartServer, Breaks, TypeOK, NoHandshake
  <2>2. /\ hs' \in HandshakeState /\ hs'.pc = "failed" /\ hs'.broken
        /\ hs'.peer = hs.peer
    BY <2>1 DEF HandshakeState
  <2>3. TypeOK' /\ MadeInThePast'
    BY <1>1, <1>2, <2>2 DEF TypeOK, MadeInThePast, files
  <2>4. Stages' /\ FailsForAReason'
    BY <1>1, <2>1, <2>2 DEF Stages, FailsForAReason, Verified, files
  <2> QED BY <2>3, <2>4
<1> QED BY <1>3, <1>4

\* A new configuration comes with no handshake.
LEMMA ClientStep ==
  ASSUME IInv, NEW mode \in Modes \cup {"auto"}, NEW with_ca \in BOOLEAN,
         NEW with_pdk \in BOOLEAN, NEW i \in Identity,
         LoadClient(mode, with_ca, with_pdk, i)
  PROVE  IInv'
<1> USE HandshakeAssumption DEF IInv
<1>1. UNCHANGED <<now, files, server>> /\ hs' = NoHandshake
  BY DEF LoadClient
<1>2. client' \in Configuration
  BY DEF LoadClient, Configuration, TypeOK, Gen
<1>3. TypeOK' /\ MadeInThePast'
  BY <1>1, <1>2 DEF TypeOK, MadeInThePast, files
<1>4. Stages' /\ FailsForAReason'
  BY <1>1 DEF Stages, FailsForAReason, Verified, NoHandshake
<1> QED BY <1>3, <1>4

\* The clock: what was made stays in the past, and a certificate that has run
\* out stays so.
LEMMA TickStep ==
  ASSUME IInv, Tick
  PROVE  IInv'
<1> USE HandshakeAssumption DEF IInv
<1>1. now' = now + 1 /\ UNCHANGED <<files, server, client, hs>>
  BY DEF Tick
<1>2. TypeOK' /\ MadeInThePast'
  BY <1>1 DEF TypeOK, MadeInThePast, files
<1>3. Stages'
  <2>1. now \in Nat /\ (hs.pc # "none" => hs.since \in Nat)
    BY DEF TypeOK, HandshakeState, NoHandshake
  <2>2. hs.pc # "none" => hs'.since <= now'
    BY <1>1, <2>1 DEF Stages
  <2> QED BY <1>1, <2>2 DEF Stages, Verified, Trusted, files
<1>4. FailsForAReason'
  BY <1>1 DEF FailsForAReason, Stages, TypeOK, files
<1> QED BY <1>2, <1>3, <1>4

\* ClientHello: the peer is the server at that address, as it is loaded.
LEMMA HelloStep ==
  ASSUME IInv, NEW i \in Identity, SendHello(i)
  PROVE  IInv'
<1> USE HandshakeAssumption DEF IInv
<1>1. UNCHANGED <<now, files, server, client>> /\ client # None
  BY DEF SendHello
<1>2. Offered(client.mode) \in (SUBSET Modes) \ {{}}
  BY <1>1 DEF TypeOK, Configuration, Offered, Modes
<1>3. server[i] \in [sk: 1..Len(made), key_id: BOOLEAN]
  BY DEF SendHello, TypeOK
<1>4. hs' \in HandshakeState /\ hs'.pc = "hello" /\ hs'.peer = server[i] /\ hs'.since = now
  BY <1>2, <1>3 DEF SendHello, HandshakeState, Gen, TypeOK
<1>5. TypeOK' /\ MadeInThePast'
  BY <1>1, <1>4 DEF TypeOK, MadeInThePast, files
<1>6. hs'.since <= now'
  BY <1>1, <1>4 DEF TypeOK
<1>7. Stages' /\ FailsForAReason'
  BY <1>1, <1>3, <1>4, <1>6 DEF Stages, FailsForAReason, Verified, files
<1> QED BY <1>5, <1>7

\* Each further message moves the handshake to its next stage or fails it.
LEMMA MessageStep ==
  ASSUME IInv,
         \/ ReceiveHello \/ ReceiveServerHello \/ ReceiveFinished \/ ReceiveClientFinished
  PROVE  IInv'
<1> USE HandshakeAssumption DEF IInv
<1>1. /\ UNCHANGED <<now, files, server, client>>
      /\ hs \in HandshakeState /\ client \in Configuration
      /\ hs.peer.sk \in 1..Len(made)
  BY DEF ReceiveHello, ReceiveServerHello, ReceiveFinished, ReceiveClientFinished,
     TypeOK, Stages, NoHandshake
<1>2. hs' \in HandshakeState /\ hs'.peer = hs.peer /\ hs'.server = hs.server
      /\ hs'.modes = hs.modes /\ hs'.since = hs.since
  <2>1. CASE ReceiveHello
    <3>1. Chooses(hs.peer, hs.modes) \in Modes \cup {None}
      BY DEF Chooses, Modes
    <3> QED BY <1>1, <2>1, <3>1 DEF ReceiveHello, HandshakeState
  <2>2. CASE ReceiveServerHello
    <3>1. CASE hs'.pc = "failed" /\ hs' = [hs EXCEPT !.pc = "failed"]
      BY <1>1, <3>1 DEF HandshakeState
    <3>2. CASE /\ hs.mode = "pdk" /\ EntryResolved(hs.server)
               /\ hs' = [hs EXCEPT !.pc = "keyed", !.secret = <<hs.server, client.store>>]
      BY <1>1, <3>2 DEF HandshakeState, Configuration, EntryResolved
    <3>3. CASE hs' = [hs EXCEPT !.pc = "keyed", !.secret = <<hs.server, hs.peer.sk>>]
      BY <1>1, <3>3 DEF HandshakeState
    <3> QED BY <1>1, <2>2, <3>1, <3>2, <3>3 DEF ReceiveServerHello, HandshakeState
  <2>3. CASE ReceiveFinished
    BY <1>1, <2>3 DEF ReceiveFinished, HandshakeState
  <2>4. CASE ReceiveClientFinished
    BY <1>1, <2>4 DEF ReceiveClientFinished, HandshakeState
  <2> QED BY <2>1, <2>2, <2>3, <2>4
<1>3. TypeOK' /\ MadeInThePast'
  BY <1>1, <1>2 DEF TypeOK, MadeInThePast, files
<1>4. CASE ReceiveHello
  <2>1. /\ hs'.mode = Chooses(hs.peer, hs.modes)
        /\ hs'.pc = IF hs'.mode = None THEN "failed" ELSE "answered"
    BY <1>1, <1>4 DEF ReceiveHello, HandshakeState
  <2>2. Stages'
    BY <1>1, <1>2, <2>1, <1>4 DEF Stages, Verified, Chooses, ReceiveHello, files
  <2>3. FailsForAReason'
    <3>1. hs'.mode = None => ~hs.peer.key_id /\ hs.modes = {"pdk"}
      <4>1. hs.modes \subseteq {"baseline", "pdk"} /\ hs.modes # {}
        BY <1>1 DEF HandshakeState, Modes
      <4>2. ASSUME hs'.mode = None
            PROVE  ~(hs.peer.key_id /\ "pdk" \in hs.modes) /\ "baseline" \notin hs.modes
        BY <2>1, <4>2 DEF Chooses
      <4> QED BY <4>1, <4>2
    <3> QED BY <1>1, <1>2, <2>1, <3>1 DEF FailsForAReason, files
  <2> QED BY <1>3, <2>2, <2>3
<1>5. CASE ReceiveServerHello
  <2>1. hs.pc = "answered" /\ hs.mode \in hs.modes /\ hs'.mode = hs.mode
        /\ hs.mode \in {"pdk", "baseline"} /\ client # None
    BY <1>1, <1>5 DEF ReceiveServerHello, Stages, HandshakeState, Modes
  <2>2. CASE hs.mode = "pdk"
    <3>1. CASE EntryResolved(hs.server)
      <4>1. hs'.pc = "keyed" /\ hs'.secret = <<hs.server, client.store>>
        BY <1>1, <1>5, <2>2, <3>1 DEF ReceiveServerHello, HandshakeState
      <4> QED BY <1>1, <1>2, <1>3, <2>1, <2>2, <3>1, <4>1
              DEF Stages, FailsForAReason, Verified, Trusted, EntryResolved, files
    <3>2. CASE ~EntryResolved(hs.server)
      <4>1. hs'.pc = "failed"
        BY <1>1, <1>5, <2>2, <3>2 DEF ReceiveServerHello, HandshakeState
      <4>2. client.store # hs.peer.sk \/ hs.server # client.expects
        <5>1. None # hs.peer.sk
          BY <1>1 DEF TypeOK
        <5> QED BY <3>2, <5>1 DEF EntryResolved
      <4> QED BY <1>1, <1>2, <1>3, <2>1, <2>2, <4>1, <4>2
              DEF Stages, FailsForAReason, Verified, files
    <3> QED BY <3>1, <3>2
  <2>3. CASE hs.mode = "baseline"
    <3>1. CASE CertificateAccepted(hs.server)
      <4>1. hs'.pc = "keyed" /\ hs'.secret = <<hs.server, hs.peer.sk>>
        BY <1>1, <1>5, <2>3, <3>1 DEF ReceiveServerHello, HandshakeState
      <4>2. hs.since <= made[hs.peer.sk] + Lifetime
        <5>1. now <= made[hs.peer.sk] + Lifetime
          BY <3>1 DEF CertificateAccepted, InWindow
        <5>2. hs.since <= now
          BY <2>1 DEF Stages
        <5>3. hs.since \in Nat /\ now \in Nat /\ made[hs.peer.sk] \in Nat
          BY <1>1 DEF TypeOK, HandshakeState
        <5> QED BY <5>1, <5>2, <5>3
      <4> QED BY <1>1, <1>2, <1>3, <2>1, <2>3, <3>1, <4>1, <4>2
              DEF Stages, FailsForAReason, Verified, Trusted, CertificateAccepted, files
    <3>2. CASE ~CertificateAccepted(hs.server)
      <4>1. hs'.pc = "failed"
        BY <1>1, <1>5, <2>3, <3>2 DEF ReceiveServerHello, HandshakeState
      <4>2. \/ client.ca # hs.peer.sk \/ hs.server # client.expects
            \/ now > made[hs.peer.sk] + Lifetime
        BY <1>1, <3>2 DEF CertificateAccepted, InWindow, MadeInThePast, TypeOK
      <4> QED BY <1>1, <1>2, <1>3, <2>1, <2>3, <4>1, <4>2
              DEF Stages, FailsForAReason, Verified, files
    <3> QED BY <3>1, <3>2
  <2> QED BY <2>1, <2>2, <2>3
<1>6. CASE ReceiveFinished
  <2>1. /\ hs.pc = "keyed" /\ hs'.mode = hs.mode /\ hs'.secret = hs.secret
        /\ hs.mode \in {"pdk", "baseline"}
        /\ hs'.pc = IF FinishedVerifies(hs.server) THEN "verified" ELSE "failed"
    BY <1>1, <1>6 DEF ReceiveFinished, Stages, HandshakeState, Modes
  <2>2. Stages'
    BY <1>1, <1>2, <2>1 DEF Stages, Verified, Trusted, FinishedVerifies, files
  <2>3. FailsForAReason'
    BY <1>1, <1>2, <2>1 DEF FailsForAReason, Stages, Trusted, FinishedVerifies, files
  <2> QED BY <1>3, <2>2, <2>3
<1>7. CASE ReceiveClientFinished
  <2>1. hs.pc = "verified" /\ hs'.pc = "done" /\ hs'.mode = hs.mode /\ hs'.secret = hs.secret
    BY <1>1, <1>7 DEF ReceiveClientFinished, HandshakeState
  <2> QED BY <1>1, <1>2, <1>3, <2>1 DEF Stages, FailsForAReason, Verified, Trusted, files
<1> QED BY <1>4, <1>5, <1>6, <1>7

\* IInv is inductive.
LEMMA NextIInv == IInv /\ [Next]_vars => IInv'
<1> SUFFICES ASSUME IInv, [Next]_vars PROVE IInv'
  OBVIOUS
<1>1. CASE UNCHANGED vars
  BY <1>1 DEF vars, files, IInv, TypeOK, MadeInThePast, Stages, FailsForAReason, Verified, Trusted
<1>2. CASE Next
  BY <1>2, FilesStep, ServerStep, ClientStep, TickStep, HelloStep, MessageStep DEF Next, Handshake
<1> QED BY <1>1, <1>2

\* The invariant holds of every reachable state (run KemtlsHandshake).
LEMMA Invariance == Spec => []IInv
  BY InitIInv, NextIInv, PTL DEF Spec

\* Types of KemtlsHandshake.
THEOREM Typing == Spec => []TypeOK
<1>1. IInv => TypeOK
  BY DEF IInv
<1> QED BY <1>1, Invariance, PTL

\* Whoever completes a handshake completes it with the server expected, under
\* a key of the generation trusted (handshake.py process_server_finished).
THEOREM PeerIsAuthentic == Spec => []AuthenticPeer
<1>1. IInv => AuthenticPeer
  BY HandshakeAssumption
     DEF IInv, Stages, AuthenticPeer, Verified, Trusted, TypeOK, HandshakeState, NoHandshake
<1> QED BY <1>1, Invariance, PTL

\* No handshake that begins after its certificate has run out completes in
\* baseline mode (certs.py validate_certificate).
THEOREM ExpiredStaysOut == Spec => []ExpiredIsRefused
<1>1. IInv => ExpiredIsRefused
  BY DEF IInv, Stages, ExpiredIsRefused, Verified
<1> QED BY <1>1, Invariance, PTL

\* No handshake fails without one of the reasons listed (handshake.py
\* process_server_hello, certs.py validate_certificate).
THEOREM FailureHasAReason == Spec => []FailsForAReason
<1>1. IInv => FailsForAReason
  BY DEF IInv
<1> QED BY <1>1, Invariance, PTL
=============================================================================
