---------------------------- MODULE QuicTransport ----------------------------
(***************************************************************************)
(* Requests over the QUIC-style transport: one KEMTLSQUICClientTransport,  *)
(* the KEMTLSQUICServer it talks to, and the UDP network between them.     *)
(*                                                                         *)
(* A client transport keeps its connection id and its packet numbers for   *)
(* life; each connect() opens a new socket and makes a new handshake (the  *)
(* incarnation).  The server keeps one connection per connection id, so    *)
(* for this client it has one or none; it answers to the address of the    *)
(* INITIAL packet that created it, which is the client's socket.           *)
(*                                                                         *)
(* Not Prompt: every datagram ever sent may arrive at any time, any number *)
(* of times, or never, and timers fire at will.  Prompt: a datagram arrives *)
(* once, in any order, unless it is one of at most MaxLoss lost ones, and  *)
(* no timer fires and no request begins while one is under way.            *)
(***************************************************************************)
EXTENDS KemtlsMessages, Naturals, FiniteSets

CONSTANTS Server,            \* the server's address
          None,              \* no connection, no session, empty body
          MaxRequests,       \* requests the client makes
          MaxRetries,        \* _MAX_RETRIES
          CommonMode,        \* the two sides share an authentication mode
          Faulty,            \* requests whose parsing or running may raise
          Prompt,            \* see above
          MaxLoss,           \* datagrams a Prompt network may lose,
          Losable,           \* and their kinds
          MaxServerPackets,  \* bounds for model checking: numbered packets
          MaxConnections     \*   per server connection, server connections

ASSUME QuicAssumption ==
  /\ {MaxRequests, MaxRetries, MaxLoss, MaxConnections} \subseteq Nat
  /\ MaxServerPackets \in Nat \ {0}
  /\ {CommonMode, Prompt} \subseteq BOOLEAN
  /\ Faulty \subseteq 1..MaxRequests

Request == 1..MaxRequests

\* What both sides derive if incarnation i and the server's connection e complete
\* a handshake with each other.
SessionKeys(i, e) ==
  LET hellos == <<ClientHello(i), ServerHello(e)>>
      cke == ClientKeyExchange(i, ServerHello(e))
      sf == ServerFinished(Encapsulated(cke), hellos)
  IN  ApplicationKeys(Encapsulated(cke), hellos \o <<cke, sf>>)

\* The server's address is no client socket; "none" is no keys.
ASSUME AddressAssumption ==
  /\ Server \notin Nat
  /\ None \notin {SessionKeys(i, e) : i \in Request, e \in 1..MaxConnections}

VARIABLES client,    \* KEMTLSQUICClientTransport, and KEMTLSClient.request
          conn,      \* the server's _ServerConnection, or None
          opened,    \* server connections created so far
          net,       \* datagrams under way
          losses,    \* datagrams lost so far
          caller,    \* caller[r]: what request r has come to
          executed   \* history: how often the application has run r

vars == <<client, conn, opened, net, losses, caller, executed>>

\* A datagram carries its destination: Server, or the incarnation whose socket
\* it is sent to.  copy counts retransmissions: copies are equal in all else.
\* The number of an ACK or CONNECTION_CLOSE is never looked at; pn is then
\* the number acknowledged, or 0.
Datagram(dst, type, pn, body) ==
  [dst |-> dst, type |-> type, pn |-> pn, copy |-> 0, body |-> body]

Ack(dst, pn) == Datagram(dst, "ACK", pn, None)
Close == Datagram(Server, "CONNECTION_CLOSE", 0, None)

\* What the network makes of a handler that takes p and sends the set ps.
Deliver(p, ps) == net' = (IF Prompt THEN net \ {p} ELSE net) \cup ps

\* What is still to be handled: a client between two requests reads nothing.
UnderWay == IF client.phase = "open" THEN {p \in net : p.dst = Server} ELSE net
Quiet == Prompt => UnderWay = {}
-----------------------------------------------------------------------------
(* Client.  close() forgets everything but the connection id, the packet   *)
(* numbers and, here, the number of the incarnation.                       *)

\* Mutant: close() leaves the session where it was.
ClosedWithSession(c) == [c EXCEPT !.phase = "closed", !.transcript = <<>>,
                                  !.pending = {}, !.processed = {}]

Closed(c) == [c EXCEPT !.phase = "closed", !.transcript = <<>>, !.keys = None,
                       !.pending = {}, !.processed = {}]

ClientInit == [phase |-> "closed", incarnation |-> 0, pn |-> 0, transcript |-> <<>>,
               keys |-> None, pending |-> {}, processed |-> {}, request |-> 0,
               keep_alive |-> FALSE]

ToServer(type, pn, body) == Datagram(Server, type, pn, body)

\* Mutant: keep-alive requests are numbered from the same start.
SendApplicationAgain(c, r, keys) ==
  ToServer("APP_DATA", 0, [keys |-> keys, data |-> r])

\* The packet that carries request r, number c.pn, protected with keys.
SendApplication(c, r, keys) ==
  ToServer("APP_DATA", c.pn, [keys |-> keys, data |-> r])

\* close(), by the application or by a request() that does not keep_alive.
CloseTransport ==
  /\ client.phase = "open"
  /\ client' = Closed(client)
  /\ net' = net \cup {Close}
  /\ UNCHANGED <<conn, opened, losses, caller, executed>>

\* request() on an unconnected transport: connect() up to ClientHello.
Connect(keep) ==
  /\ client.phase = "closed"
  /\ Quiet
  /\ client.request < MaxRequests
  /\ LET r == client.request + 1
         i == client.incarnation + 1
         p == ToServer("INITIAL", client.pn, ClientHello(i))
     IN  /\ client' = [client EXCEPT
                         !.phase = "wait_sh", !.incarnation = i, !.pn = @ + 1,
                         !.transcript = <<ClientHello(i)>>, !.pending = {p},
                         !.request = r, !.keep_alive = keep]
         /\ net' = net \cup {p}
         /\ caller' = [caller EXCEPT ![r] = <<"waiting">>]
  /\ UNCHANGED <<conn, opened, losses, executed>>

\* request() with keep_alive on the connection of the one before.
Reuse ==
  /\ client.phase = "open"
  /\ Quiet
  /\ client.request < MaxRequests
  /\ LET r == client.request + 1
         p == SendApplication(client, r, client.keys)
     IN  /\ client' = [client EXCEPT !.phase = "wait_response", !.pn = @ + 1,
                                     !.pending = @ \cup {p}, !.request = r]
         /\ net' = net \cup {p}
         /\ caller' = [caller EXCEPT ![r] = <<"waiting">>]
  /\ UNCHANGED <<conn, opened, losses, executed>>

\* An exception anywhere below request(): it closes the transport and raises.
Fail(reason, ps) ==
  /\ client' = Closed(client)
  /\ caller' = [caller EXCEPT ![client.request] = <<"failed", reason>>]
  /\ net' = net \cup ps \cup {Close}

Addressed(p) ==
  p \in net /\ p.dst = client.incarnation /\ client.phase # "closed"

\* A HANDSHAKE packet answers what is pending, whatever it holds.
Handshakes(p, phase) ==
  client.phase = phase /\ Addressed(p) /\ p.type = "HANDSHAKE"

ReceiveServerHello(p) ==
  /\ Handshakes(p, "wait_sh")
  /\ p.body.type = "ServerHello"
  /\ LET cke == ClientKeyExchange(client.incarnation, p.body)
         q == ToServer("HANDSHAKE", client.pn, cke)
     IN  /\ client' = [client EXCEPT !.phase = "wait_sf", !.pn = @ + 1, !.pending = {q},
                                     !.transcript = @ \o <<p.body, cke>>]
         /\ Deliver(p, {Ack(Server, p.pn), q})
  /\ UNCHANGED <<conn, opened, losses, caller, executed>>

ClientSecret == Encapsulated(client.transcript[3])

\* ClientFinished goes out without a retransmission entry, and the request
\* follows it at once.
ReceiveServerFinished(p) ==
  /\ Handshakes(p, "wait_sf")
  /\ ServerFinishedVerifies(p.body, ClientSecret, client.transcript)
  /\ LET transcript == Append(client.transcript, p.body)
         keys == ApplicationKeys(ClientSecret, transcript)
         cf == ToServer("HANDSHAKE", client.pn, ClientFinished(ClientSecret, transcript))
         q == SendApplication([client EXCEPT !.pn = @ + 1], client.request, keys)
     IN  /\ client' = [client EXCEPT !.phase = "wait_response", !.pn = @ + 2,
                                     !.transcript = transcript, !.keys = keys,
                                     !.pending = {q}]
         /\ Deliver(p, {Ack(Server, p.pn), cf, q})
  /\ UNCHANGED <<conn, opened, losses, caller, executed>>

\* process_server_hello or process_server_finished raises: a message of
\* another type, without the fields it looks for, or a MAC that differs.
ReceiveUnexpected(p) ==
  /\ \/ Handshakes(p, "wait_sh") /\ p.body.type # "ServerHello"
     \/ Handshakes(p, "wait_sf") /\ ~ServerFinishedVerifies(p.body, ClientSecret, client.transcript)
  /\ client' = Closed(client)
  /\ caller' = [caller EXCEPT ![client.request] = <<"failed", "handshake error">>]
  /\ Deliver(p, {Ack(Server, p.pn), Close})
  /\ UNCHANGED <<conn, opened, losses, executed>>

SeenBefore(p) == p.pn \in client.processed

\* recv_application returns or raises, and request() closes unless keep_alive.
ReceiveResponse(p) ==
  /\ client.phase = "wait_response" /\ Addressed(p) /\ p.type = "APP_DATA"
  /\ ~SeenBefore(p)
  /\ LET unprotected == p.body.keys = client.keys
     IN  /\ caller' = [caller EXCEPT ![client.request] =
                         IF unprotected THEN <<"answered", p.body.data>>
                                        ELSE <<"failed", "protection error">>]
         /\ IF unprotected /\ client.keep_alive
              THEN /\ client' = [client EXCEPT !.phase = "open",
                                               !.processed = @ \cup {p.pn}]
                   /\ Deliver(p, {Ack(Server, p.pn)})
              ELSE /\ client' = Closed(client)
                   /\ Deliver(p, {Ack(Server, p.pn), Close})
  /\ UNCHANGED <<conn, opened, losses, executed>>

ReceiveResponseAgain(p) ==
  /\ client.phase = "wait_response" /\ Addressed(p) /\ p.type = "APP_DATA"
  /\ SeenBefore(p)
  /\ Deliver(p, {Ack(Server, p.pn)})
  /\ UNCHANGED <<client, conn, opened, losses, caller, executed>>

\* Mutant: an acknowledged packet stays pending.
ClientReceiveAckOnly(p) ==
  /\ client.phase # "open" /\ Addressed(p) /\ p.type = "ACK"
  /\ Deliver(p, {})
  /\ UNCHANGED <<client, conn, opened, losses, caller, executed>>

ClientReceiveAck(p) ==
  /\ client.phase # "open" /\ Addressed(p) /\ p.type = "ACK"
  /\ client' = [client EXCEPT !.pending = {q \in @ : q.pn # p.pn}]
  /\ Deliver(p, {})
  /\ UNCHANGED <<conn, opened, losses, caller, executed>>

\* _recv_loop passes over other types; a socket that is gone receives nothing.
ClientIgnore(p) ==
  /\ p \in net /\ p.dst # Server
  /\ \/ p.dst # client.incarnation \/ client.phase = "closed"
     \/ /\ client.phase # "open"
        /\ p.type = (IF client.phase = "wait_response" THEN "HANDSHAKE" ELSE "APP_DATA")
  /\ Deliver(p, {})
  /\ UNCHANGED <<client, conn, opened, losses, caller, executed>>

Again(p, n) == [p EXCEPT !.copy = @ + n]
Retry(p) == IF p.copy < MaxRetries THEN {Again(p, 1)} ELSE {}

\* The socket times out in _transmit_with_retry.  _recv_loop resends what is
\* pending, then the except branch resends the same packet once more.
HandshakeTimeout ==
  /\ Quiet
  /\ client.phase \in {"wait_sh", "wait_sf"}
  /\ \E p \in client.pending :
       LET resent == Again(p, IF p.copy < MaxRetries THEN 1 ELSE 0)
       IN  IF resent.copy >= MaxRetries
             THEN Fail("budget exhausted", Retry(p))
             ELSE /\ client' = [client EXCEPT !.pending = {Again(resent, 1)}]
                  /\ net' = net \cup {resent, Again(resent, 1)}
                  /\ UNCHANGED caller
  /\ UNCHANGED <<conn, opened, losses, executed>>

\* The socket times out in recv_application: every pending packet once more.
ResponseTimeout ==
  /\ Quiet
  /\ client.phase = "wait_response"
  /\ \E p \in client.pending : p.copy < MaxRetries
  /\ LET expired == {p \in client.pending : p.copy < MaxRetries}
         resent == {Again(p, 1) : p \in expired}
     IN  /\ client' = [client EXCEPT !.pending = (@ \ expired) \cup resent]
         /\ net' = net \cup resent
  /\ UNCHANGED <<conn, opened, losses, caller, executed>>

\* overall_deadline, which comes after both sides' last retransmission.
GiveUp ==
  /\ client.phase = "wait_response"
  /\ Quiet
  /\ Prompt => /\ \A p \in client.pending : p.copy = MaxRetries
               /\ conn # None => \A p \in conn.sent : p.copy = MaxRetries
  /\ Fail("timed out", {})
  /\ UNCHANGED <<conn, opened, losses, executed>>
-----------------------------------------------------------------------------
(* Server: one datagram at a time.                                         *)

\* _send_packet, reliable, to the peer: connection c with q sent, and q.
ToPeer(c, type, body) == Datagram(c.peer, type, c.pn, body)
\* Mutant: without a retransmission entry.
SentOnce(c, q) == [c EXCEPT !.pn = @ + 1]

Sent(c, q) == [c EXCEPT !.pn = @ + 1, !.sent = @ \cup {q}]

MaySend(c) == c.pn < MaxServerPackets

Arrives(p, type) == p \in net /\ p.dst = Server /\ p.type = type
InPhase(phases) == conn # None /\ conn.phase \in phases

NewConnection(peer) ==
  [peer |-> peer, eph |-> opened + 1, phase |-> "await_initial", pn |-> 0,
   transcript |-> <<>>, secret |-> None, keys |-> None, sent |-> {},
   processed |-> {}]

\* The first INITIAL of a connection, with or without success.
ReceiveInitial(p) ==
  /\ Arrives(p, "INITIAL")
  /\ ~InPhase({"await_cke", "await_cf", "established"})
  /\ conn = None => opened < MaxConnections
  /\ opened' = IF conn = None THEN opened + 1 ELSE opened
  /\ LET c == IF conn = None THEN NewConnection(p.body.random) ELSE conn
         sh == ServerHello(c.eph)
         q == ToPeer(c, "HANDSHAKE", sh)
     IN  IF CommonMode
           THEN /\ conn' = [Sent(c, q) EXCEPT !.phase = "await_cke",
                                              !.transcript = <<p.body, sh>>]
                /\ Deliver(p, {Ack(c.peer, p.pn), q})
           ELSE /\ conn' = c
                /\ Deliver(p, {Ack(c.peer, p.pn)})
  /\ UNCHANGED <<client, losses, caller, executed>>

\* A later INITIAL: the cached ServerHello under a new packet number.
ResendServerHello(p) ==
  /\ Arrives(p, "INITIAL")
  /\ InPhase({"await_cke", "await_cf"}) /\ MaySend(conn)
  /\ LET q == ToPeer(conn, "HANDSHAKE", ServerHello(conn.eph))
     IN  /\ conn' = Sent(conn, q)
         /\ Deliver(p, {Ack(conn.peer, p.pn), q})
  /\ UNCHANGED <<client, opened, losses, caller, executed>>

\* process_client_key_exchange.
ReceiveClientKeyExchange(p) ==
  /\ Arrives(p, "HANDSHAKE")
  /\ InPhase({"await_cke"}) /\ MaySend(conn)
  /\ p.body.type = "ClientKeyExchange"
  /\ LET secret == Decapsulate(conn.eph, p.body)
         sf == ServerFinished(secret, conn.transcript)
         q == ToPeer(conn, "HANDSHAKE", sf)
     IN  /\ conn' = [Sent(conn, q) EXCEPT !.phase = "await_cf", !.secret = secret,
                                          !.transcript = @ \o <<p.body, sf>>]
         /\ Deliver(p, {Ack(conn.peer, p.pn), q})
  /\ UNCHANGED <<client, opened, losses, caller, executed>>

\* Any other message raises there, but only once it is in the transcript.
\* Bounded: a transcript takes at most one, more would change nothing.
PoisonTranscript(p) ==
  /\ Arrives(p, "HANDSHAKE")
  /\ InPhase({"await_cke"})
  /\ p.body.type # "ClientKeyExchange"
  /\ Len(conn.transcript) = 2
  /\ conn' = [conn EXCEPT !.transcript = Append(@, p.body)]
  /\ Deliver(p, {Ack(conn.peer, p.pn)})
  /\ UNCHANGED <<client, opened, losses, caller, executed>>

\* A ClientKeyExchange again, this one or another: the cached ServerFinished.
ResendServerFinished(p) ==
  /\ Arrives(p, "HANDSHAKE")
  /\ InPhase({"await_cf"}) /\ MaySend(conn)
  /\ p.body.type = "ClientKeyExchange"
  /\ LET sf == ServerFinished(conn.secret, conn.transcript)
         q == ToPeer(conn, "HANDSHAKE", sf)
     IN  /\ conn' = Sent(conn, q)
         /\ Deliver(p, {Ack(conn.peer, p.pn), q})
  /\ UNCHANGED <<client, opened, losses, caller, executed>>

\* verify_client_finished; a bad one is acknowledged and changes nothing.
ReceiveClientFinished(p) ==
  /\ Arrives(p, "HANDSHAKE")
  /\ InPhase({"await_cf"})
  /\ p.body.type # "ClientKeyExchange"
  /\ conn' = IF ClientFinishedVerifies(p.body, conn.secret, conn.transcript)
               THEN [conn EXCEPT !.phase = "established",
                                 !.transcript = Append(@, p.body),
                                 !.keys = ApplicationKeys(conn.secret, conn.transcript)]
               ELSE conn
  /\ Deliver(p, {Ack(conn.peer, p.pn)})
  /\ UNCHANGED <<client, opened, losses, caller, executed>>

\* Mutant: the packet number is not remembered.
ProcessedForgotten(p) == conn.processed

Processed(p) == conn.processed \cup {p.pn}

\* Mutant: the connection's keys are not what the packet is opened with.
UnprotectsAnything(p) == TRUE

Unprotects(p) == p.body.keys = conn.keys

\* Unprotect, run the application, send its response.
Serve(p) ==
  /\ Arrives(p, "APP_DATA")
  /\ InPhase({"established"}) /\ MaySend(conn)
  /\ p.pn \notin conn.processed
  /\ Unprotects(p)
  /\ LET q == ToPeer(conn, "APP_DATA", [keys |-> conn.keys, data |-> p.body.data])
     IN  /\ conn' = [Sent(conn, q) EXCEPT !.processed = Processed(p)]
         /\ Deliver(p, {Ack(conn.peer, p.pn), q})
  /\ executed' = [executed EXCEPT ![p.body.data] = @ + 1]
  /\ UNCHANGED <<client, opened, losses, caller>>

\* The same with an exception on the way, before or after the application has
\* run: start() prints it and goes on.
ServeRaises(p) ==
  /\ Arrives(p, "APP_DATA")
  /\ InPhase({"established"})
  /\ p.pn \notin conn.processed
  /\ Unprotects(p) /\ p.body.data \in Faulty
  /\ conn' = [conn EXCEPT !.processed = Processed(p)]
  /\ Deliver(p, {Ack(conn.peer, p.pn)})
  /\ executed' \in {executed, [executed EXCEPT ![p.body.data] = @ + 1]}
  /\ UNCHANGED <<client, opened, losses, caller>>

\* A request it has processed, or cannot unprotect, is acknowledged all the
\* same.
AcknowledgeOnly(p) ==
  /\ Arrives(p, "APP_DATA")
  /\ InPhase({"established"})
  /\ p.pn \in conn.processed \/ ~Unprotects(p)
  /\ Deliver(p, {Ack(conn.peer, p.pn)})
  /\ UNCHANGED <<client, conn, opened, losses, caller, executed>>

ServerReceiveAck(p) ==
  /\ Arrives(p, "ACK")
  /\ conn # None
  /\ conn' = [conn EXCEPT !.sent = {q \in @ : q.pn # p.pn}]
  /\ Deliver(p, {})
  /\ UNCHANGED <<client, opened, losses, caller, executed>>

\* From whichever incarnation it comes.
ReceiveClose(p) ==
  /\ Arrives(p, "CONNECTION_CLOSE")
  /\ conn # None
  /\ conn' = None
  /\ Deliver(p, {})
  /\ UNCHANGED <<client, opened, losses, caller, executed>>

ServerIgnore(p) ==
  /\ p \in net /\ p.dst = Server
  /\ \/ conn = None /\ p.type # "INITIAL"
     \/ InPhase({"await_initial"}) /\ p.type \in {"HANDSHAKE", "APP_DATA"}
     \/ InPhase({"await_cke", "await_cf"}) /\ p.type = "APP_DATA"
     \/ InPhase({"established"}) /\ p.type \in {"INITIAL", "HANDSHAKE"}
  /\ Deliver(p, {})
  /\ UNCHANGED <<client, conn, opened, losses, caller, executed>>

\* _retransmit_expired_packets, for one packet.
ServerRetransmit ==
  /\ Quiet
  /\ conn # None
  /\ \E q \in conn.sent :
       /\ q.copy < MaxRetries
       /\ conn' = [conn EXCEPT !.sent = (@ \ {q}) \cup {Again(q, 1)}]
       /\ net' = net \cup {Again(q, 1)}
  /\ UNCHANGED <<client, opened, losses, caller, executed>>
-----------------------------------------------------------------------------
\* The kind of a datagram: its message type in a handshake, else its own.
Kind(p) == IF p.type = "HANDSHAKE" THEN p.body.type ELSE p.type

Lose(p) ==
  /\ Prompt
  /\ p \in net
  /\ Kind(p) \in Losable
  /\ losses < MaxLoss
  /\ losses' = losses + 1
  /\ net' = net \ {p}
  /\ UNCHANGED <<client, conn, opened, caller, executed>>

Init ==
  /\ client = ClientInit
  /\ conn = None
  /\ opened = 0
  /\ net = {}
  /\ losses = 0
  /\ caller = [r \in Request |-> <<"idle">>]
  /\ executed = [r \in Request |-> 0]

ClientReceive(p) ==
  \/ ReceiveServerHello(p)
  \/ ReceiveServerFinished(p)
  \/ ReceiveUnexpected(p)
  \/ ReceiveResponse(p)
  \/ ReceiveResponseAgain(p)
  \/ ClientReceiveAck(p)
  \/ ClientIgnore(p)

ServerReceive(p) ==
  \/ ReceiveInitial(p)
  \/ ResendServerHello(p)
  \/ ReceiveClientKeyExchange(p)
  \/ PoisonTranscript(p)
  \/ ResendServerFinished(p)
  \/ ReceiveClientFinished(p)
  \/ Serve(p)
  \/ ServeRaises(p)
  \/ AcknowledgeOnly(p)
  \/ ServerReceiveAck(p)
  \/ ReceiveClose(p)
  \/ ServerIgnore(p)

NewRequest == Reuse \/ CloseTransport \/ \E keep \in BOOLEAN : Connect(keep)
ClientTimer == HandshakeTimeout \/ ResponseTimeout
Receive == \E p \in net : ClientReceive(p) \/ ServerReceive(p)

Next ==
  \/ NewRequest
  \/ Receive
  \/ ClientTimer
  \/ GiveUp
  \/ ServerRetransmit
  \/ \E p \in net : Lose(p)

Spec == Init /\ [][Next]_vars

\* Both sides keep reading and their timers keep running; only new requests
\* and losses are nobody's duty.
FairSpec ==
  /\ Spec
  /\ WF_vars(Receive)
  /\ WF_vars(ClientTimer)
  /\ WF_vars(GiveUp)
  /\ WF_vars(ServerRetransmit)
-----------------------------------------------------------------------------
(* Properties *)

Reason == {"handshake error", "budget exhausted", "protection error", "timed out"}

TypeOK ==
  /\ client.phase \in {"closed", "wait_sh", "wait_sf", "wait_response", "open"}
  /\ client.incarnation \in 0..MaxRequests
  /\ client.request \in 0..MaxRequests
  /\ client.phase \in {"wait_sh", "wait_sf"} => Cardinality(client.pending) <= 1
  /\ client.phase \in {"wait_response", "open"} <=> client.keys # None
  /\ Len(client.transcript) =
       CASE client.phase = "closed" -> 0
         [] client.phase = "wait_sh" -> 1
         [] client.phase = "wait_sf" -> 3
         [] OTHER -> 4
  /\ conn # None =>
       /\ conn.phase \in {"await_initial", "await_cke", "await_cf", "established"}
       /\ conn.peer \in 1..client.incarnation
       /\ conn.eph \in 1..opened
       /\ conn.pn \in 0..MaxServerPackets
       /\ \A q \in conn.sent : q.dst = conn.peer /\ q.pn < conn.pn
       /\ conn.phase = "established" <=> conn.keys # None
  /\ losses \in 0..MaxLoss
  /\ caller \in [Request -> {<<"idle">>, <<"waiting">>}
                             \cup ({"answered"} \X Request) \cup ({"failed"} \X Reason)]
  /\ executed \in [Request -> Nat]

\* Whatever is duplicated, delayed or sent again by either timer, the
\* application runs a request once (processed_app_packets) and the caller
\* never gets the response to another request.
Exchange == INSTANCE RequestExchange WITH
  caller <- [r \in Request |-> IF caller[r][1] = "failed" THEN <<"failed">> ELSE caller[r]]

ImplementsExchange == Exchange!Spec

\* A connection the server calls established has the keys of a session that
\* its client holds or held: handshake packets of other incarnations can
\* spoil a handshake but never complete it with a transcript only one side
\* has seen.
KeyAgreement ==
  InPhase({"established"}) =>
    /\ conn.transcript[1].random = conn.peer
    /\ client.incarnation = conn.peer /\ client.keys # None => client.keys = conn.keys
    /\ client.incarnation = conn.peer => client.phase \notin {"wait_sh", "wait_sf"}

\* A request that arrives late, from a connection its client has given up,
\* is not executed once a later request has been.
NoLateExecution ==
  [][\A r \in Request : executed'[r] > executed[r]
       => \A later \in Request : later > r => executed[later] = 0]_vars

\* The packet number is the AEAD nonce: under one key no two packets of one
\* direction that differ have the same number, across requests, connections
\* and retransmissions.
NonceUnique ==
  \A p, q \in {x \in net : x.type = "APP_DATA"} :
    /\ p.pn = q.pn
    /\ p.body.keys = q.body.keys
    /\ (p.dst = Server) = (q.dst = Server)
    => p.body = q.body

\* "a UDP packet protocol with acknowledgements and retransmissions": every
\* request is answered in the end.  Only one the application raises on may end
\* in an error, since its retransmissions are acknowledged and never answered;
\* and it ends, and spoils none after it.
RequestAnswered ==
  \A r \in Request :
    caller[r] = <<"waiting">> ~>
      \/ caller[r] = <<"answered", r>>
      \/ r \in Faulty /\ caller[r][1] = "failed"

\* A retransmission never makes a handshake fail: whatever answer is lost, no
\* packet is sent again whose second answer could be taken for the next
\* message (quic_client.py _transmit_with_retry, _recv_loop).  A lost INITIAL is
\* not among the losses this holds for.
HandshakeUndisturbed == \A r \in Request : caller[r] # <<"failed", "handshake error">>
=============================================================================
