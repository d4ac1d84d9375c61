------------------------ MODULE QuicHandshakeProofs ------------------------
(***************************************************************************)
(* A proof about QuicTransport on a Prompt network that loses at most one  *)
(* datagram, which is no INITIAL: no handshake fails for a message that is *)
(* not the expected one, with any number of requests, retries and server   *)
(* connections.                                                            *)
(*                                                                         *)
(* A handshake packet answers whatever the client waits for, so what has   *)
(* to be shown is that a second ServerHello is never under way once the    *)
(* client waits for ServerFinished: the first has an acknowledgement under *)
(* way, or the one loss is spent and the handshake goes on without a timer. *)
(***************************************************************************)
EXTENDS QuicTransportProofs

(* The datagrams of the handshake of incarnation i with server connection e *)

IsHello(p, i, e) ==
  p.type = "HANDSHAKE" /\ p.dst = i /\ p.pn = 0 /\ p.body = ServerHello(e)
IsExchange(p, i, e) ==
  p.type = "HANDSHAKE" /\ p.dst = Server /\ p.body = Exchanged(i, e)
IsMac(p, i, e) ==
  p.type = "HANDSHAKE" /\ p.dst = i /\ p.pn \in Nat \ {0} /\ p.body = ServerMac(i, e)
IsAck(p, dst) == p.type = "ACK" /\ p.dst = dst

\* The number of the packet the client sent last.
IsLast(pn, c) == pn \in Nat /\ pn + 1 = c.pn

-----------------------------------------------------------------------------
(* The inductive invariant, of a client c, a server connection s, the      *)
(* datagrams n under way and the number l of those lost so far.            *)

\* Nothing but INITIAL, which cannot be lost.
Opening(c, n) ==
  \E p \in n : /\ n = {p} /\ c.pending = {p}
               /\ p.type = "INITIAL" /\ p.dst = Server /\ IsLast(p.pn, c)
               /\ p.body = ClientHello(c.incarnation)

\* The server has answered.  The client does not send INITIAL again: while that
\* is pending, something is under way.
Greeting(c, s, n, l) ==
  /\ s # None /\ s.peer = c.incarnation /\ s.phase = "await_cke" /\ s.pn = 1
  /\ s.transcript = Hellos(c.incarnation, s.eph)
  /\ \A q \in s.sent : IsHello(q, c.incarnation, s.eph)
  /\ \A p \in c.pending : IsLast(p.pn, c)
  /\ \A p \in n : \/ IsHello(p, c.incarnation, s.eph)
                  \/ IsAck(p, c.incarnation) /\ IsLast(p.pn, c)
  /\ \A p, q \in n : IsHello(p, c.incarnation, s.eph) /\ IsHello(q, c.incarnation, s.eph) => p = q
  /\ l = 0 => \E p \in n : IsHello(p, c.incarnation, s.eph)
  /\ c.pending # {} => n # {}
  /\ c.pending # {} /\ l = 0 => \E p \in n : IsAck(p, c.incarnation)

\* What takes the handshake on is under way.
Progress(i, s, n) ==
  /\ s.phase = "await_cke" => \E p \in n : IsExchange(p, i, s.eph)
  /\ s.phase = "await_cf" => \E p \in n : IsMac(p, i, s.eph)

\* Both sides have exchanged hellos.  The server does not send its own again.
Exchanging(c, s, n, l) ==
  /\ s # None /\ s.peer = c.incarnation /\ s.pn \in Nat \ {0}
  /\ c.transcript = Upto3(c.incarnation, s.eph)
  /\ s.phase \in {"await_cke", "await_cf"}
  /\ s.phase = "await_cke" => s.transcript = Hellos(c.incarnation, s.eph)
  /\ s.phase = "await_cf" => /\ s.transcript = Transcript(c.incarnation, s.eph)
                             /\ s.secret = Shared(c.incarnation, s.eph)
  /\ \A q \in s.sent : IsHello(q, c.incarnation, s.eph) \/ IsMac(q, c.incarnation, s.eph)
  /\ \A p \in c.pending : IsExchange(p, c.incarnation, s.eph)
  /\ \A p \in n : \/ IsExchange(p, c.incarnation, s.eph) \/ IsMac(p, c.incarnation, s.eph)
                  \/ IsAck(p, Server) \/ IsAck(p, c.incarnation)
  /\ l = 0 => Progress(c.incarnation, s, n)
  /\ \A q \in s.sent : IsHello(q, c.incarnation, s.eph) =>
       Ack(Server, 0) \in n \/ (l # 0 /\ Progress(c.incarnation, s, n))

\* A CONNECTION_CLOSE was lost: the server still has a connection to another
\* socket of the client, and answers there.
Elsewhere(c, s, n, l) ==
  /\ l # 0 /\ s # None /\ s.peer # c.incarnation
  /\ \A p \in c.pending : p.type = "INITIAL"
  /\ \A p \in n : /\ p.dst = Server => p.type # "CONNECTION_CLOSE"
                  /\ p.dst = c.incarnation => p.type # "HANDSHAKE"

\* Unless that happened, no INITIAL is left over from a handshake, and no
\* connection without the datagram that closes it.
NothingLeft ==
  /\ \A p \in client.pending : p.type = "INITIAL" => client.phase = "wait_sh"
  /\ \A p \in net : p.type = "INITIAL" =>
       client.phase = "wait_sh" \/ (client.phase = "closed" /\ losses # 0)
  /\ client.phase = "closed" => conn = None \/ Close \in net \/ losses # 0

Calm ==
  /\ NothingLeft
  /\ client.phase = "wait_sh" =>
       \/ conn = None /\ Opening(client, net)
       \/ Greeting(client, conn, net, losses)
       \/ Elsewhere(client, conn, net, losses)
  /\ client.phase = "wait_sf" => Exchanging(client, conn, net, losses)

\* What the network loses: one datagram at most, and no INITIAL.
Forgiving == Prompt = TRUE /\ MaxLoss <= 1 /\ "INITIAL" \notin Losable

\* "no connection" is none.
NoConnection == ~IsConnection(None)

-----------------------------------------------------------------------------
(* Building blocks *)

LEMMA ClientIs ==
  ASSUME IInv
  PROVE  /\ client.incarnation \in Nat /\ client.incarnation # Server
         /\ client.pn \in Nat /\ losses \in Nat /\ IsClient(client)
         /\ client.phase \in {"closed", "wait_sh", "wait_sf", "wait_response", "open"}
BY AddressAssumption, QuicAssumption DEF IInv, ClientFine

\* What a step of the network leaves under way.
LEMMA PromptNet ==
  ASSUME Forgiving, NEW p, NEW ps, Deliver(p, ps)
  PROVE  net' = (net \ {p}) \cup ps
BY DEF Forgiving, Deliver

LEMMA PromptQuiet ==
  ASSUME Forgiving, Quiet, client.phase # "open"
  PROVE  net = {}
BY DEF Forgiving, Quiet, UnderWay

LEMMA Lost ==
  ASSUME IInv, Forgiving, NEW p \in net, Lose(p)
  PROVE  /\ net' = net \ {p} /\ losses = 0 /\ losses' = 1
         /\ p.type # "INITIAL"
         /\ UNCHANGED <<client, conn, opened, caller, executed>>
<1>1. losses \in Nat /\ MaxLoss \in Nat /\ losses < MaxLoss /\ MaxLoss <= 1
  BY ClientIs, QuicAssumption DEF Lose, Forgiving
<1>2. losses = 0
  BY <1>1
<1>3. Kind(p) \in Losable
  BY DEF Lose
<1>4. p.type # "INITIAL"
  BY <1>3 DEF Kind, Forgiving
<1>5. QED
  BY <1>2, <1>4 DEF Lose

LEMMA AckIs ==
  ASSUME NEW dst, NEW pn
  PROVE  LET a == Ack(dst, pn)
         IN  a.type = "ACK" /\ a.dst = dst /\ a.pn = pn
BY DEF Ack, Datagram

LEMMA CloseIs == Close.type = "CONNECTION_CLOSE" /\ Close.dst = Server
BY DEF Close, Datagram

LEMMA AgainIs ==
  ASSUME NEW p, IsDatagram(p), NEW n
  PROVE  LET q == Again(p, n)
         IN  /\ IsDatagram(q) /\ q.type = p.type /\ q.dst = p.dst
             /\ q.pn = p.pn /\ q.body = p.body
BY DEF IsDatagram, Again

LEMMA ConnectionIs ==
  ASSUME NoConnection, NEW c, IsConnection(c)
  PROVE  c # None
BY DEF NoConnection

LEMMA StaysConnection ==
  ASSUME NEW c, IsConnection(c), NEW x, NEW y, NEW z
  PROVE  /\ IsConnection(Sent(c, x))
         /\ IsConnection([c EXCEPT !.sent = x])
         /\ IsConnection([c EXCEPT !.phase = x, !.transcript = y])
         /\ IsConnection([c EXCEPT !.phase = x, !.secret = y, !.transcript = z])
<1>1. ASSUME NEW d, d = Sent(c, x) PROVE IsConnection(d)
  BY <1>1 DEF IsConnection, Sent
<1>2. ASSUME NEW d, d = [c EXCEPT !.sent = x] PROVE IsConnection(d)
  BY <1>2 DEF IsConnection
<1>3. ASSUME NEW d, d = [c EXCEPT !.phase = x, !.transcript = y] PROVE IsConnection(d)
  BY <1>3 DEF IsConnection
<1>4. ASSUME NEW d, d = [c EXCEPT !.phase = x, !.secret = y, !.transcript = z]
      PROVE  IsConnection(d)
  BY <1>4 DEF IsConnection
<1>5. QED
  BY <1>1, <1>2, <1>3, <1>4

LEMMA BodyTypes ==
  ASSUME NEW i, NEW e
  PROVE  /\ ServerHello(e).type = "ServerHello"
         /\ Exchanged(i, e).type = "ClientKeyExchange"
         /\ ServerMac(i, e).type = "ServerFinished"
BY DEF ServerHello, Exchanged, ClientKeyExchange, ServerMac, ServerFinished

-----------------------------------------------------------------------------
(* Before the server has answered *)

LEMMA OpeningStep ==
  ASSUME IInv, Calm, Forgiving, NoConnection, CommonMode = TRUE, client.phase = "wait_sh",
         conn = None, Opening(client, net), Next
  PROVE  Calm'
<1>1. PICK p : /\ net = {p} /\ client.pending = {p}
               /\ p.type = "INITIAL" /\ p.dst = Server /\ IsLast(p.pn, client)
               /\ p.body = ClientHello(client.incarnation)
  BY DEF Opening
<1>2. ASSUME NEW x \in net
      PROVE  x = p /\ ~ClientReceive(x) /\ ~Lose(x)
  <2>1. x = p /\ x.type = "INITIAL" /\ x.dst = Server
    BY <1>1, <1>2
  <2>2. ~ClientReceive(x)
    BY <2>1, ClientIs
    DEF ClientReceive, ReceiveServerHello, ReceiveServerFinished, ReceiveUnexpected,
        ReceiveResponse, ReceiveResponseAgain, ClientReceiveAck, ClientIgnore, Handshakes,
        Addressed
  <2>3. ~Lose(x)
    BY <2>1, Lost
  <2>4. QED
    BY <2>1, <2>2, <2>3
<1>3. ~NewRequest /\ ~ClientTimer /\ ~GiveUp /\ ~ServerRetransmit
  <2>1. ~Quiet
    BY <1>1, PromptQuiet
  <2>2. QED
    BY <2>1 DEF NewRequest, Reuse, CloseTransport, Connect, ClientTimer, HandshakeTimeout,
                ResponseTimeout, GiveUp, ServerRetransmit
<1>4. ServerReceive(p)
  BY <1>2, <1>3 DEF Next, Receive
<1>5. ReceiveInitial(p)
  BY <1>1, <1>4
  DEF ServerReceive, ResendServerHello, ReceiveClientKeyExchange, PoisonTranscript,
      ResendServerFinished, ReceiveClientFinished, Serve, ServeRaises, AcknowledgeOnly,
      ServerReceiveAck, ReceiveClose, ServerIgnore, Arrives, InPhase
<1> DEFINE c == NewConnection(p.body.random)
           sh == ServerHello(c.eph)
           q == ToPeer(c, "HANDSHAKE", sh)
           s == [Sent(c, q) EXCEPT !.phase = "await_cke", !.transcript = <<p.body, sh>>]
           a == Ack(c.peer, p.pn)
<1>6. conn' = s /\ Deliver(p, {a, q}) /\ UNCHANGED <<client, losses, caller>>
  BY <1>5 DEF ReceiveInitial
<1>7. /\ c.peer = client.incarnation /\ c.pn = 0 /\ c.sent = {}
      /\ c.eph = opened + 1
  BY <1>1 DEF NewConnection, ClientHello
<1>8. /\ s.peer = client.incarnation /\ s.phase = "await_cke" /\ s.pn = 1 /\ s.eph = c.eph
      /\ s.sent = {q} /\ s.transcript = <<p.body, sh>>
  BY <1>7 DEF Sent, NewConnection
<1> s # None
  <2>1. IsConnection(c)
    BY DEF IsConnection, NewConnection
  <2>2. IsConnection(Sent(c, q))
    BY <2>1, StaysConnection
  <2>3. IsConnection(s)
    BY <2>2, StaysConnection
  <2>4. QED
    BY <2>3, ConnectionIs
<1>9. IsHello(q, client.incarnation, s.eph)
  BY <1>7, <1>8 DEF IsHello, ToPeer, Datagram
<1>10. /\ IsAck(a, client.incarnation) /\ IsLast(a.pn, client)
       /\ ~IsHello(a, client.incarnation, s.eph)
  BY <1>1, <1>7, AckIs DEF IsAck, IsHello
<1>11. s.transcript = Hellos(client.incarnation, s.eph)
  BY <1>1, <1>8 DEF Hellos
<1>12. net' = {a, q}
  BY <1>1, <1>6, PromptNet
<1> HIDE DEF c, sh, q, s, a
<1>13. Greeting(client, s, {a, q}, losses)
  BY <1>1, <1>8, <1>9, <1>10, <1>11 DEF Greeting
<1>14. NothingLeft'
  BY <1>1, <1>6, <1>9, <1>10, <1>12 DEF NothingLeft, IsHello, IsAck
<1>16. QED
  BY <1>6, <1>12, <1>13, <1>14 DEF Calm

-----------------------------------------------------------------------------
(* Between the hellos *)

LEMMA GreetingActions ==
  ASSUME IInv, Forgiving, client.phase = "wait_sh", Greeting(client, conn, net, losses), Next
  PROVE  \/ \E p \in net : ReceiveServerHello(p) /\ IsHello(p, client.incarnation, conn.eph)
         \/ \E p \in net : ClientReceiveAck(p) /\ IsLast(p.pn, client)
         \/ \E p \in net : Lose(p)
         \/ net = {} /\ ServerRetransmit
<1>1. ASSUME NEW p \in net
      PROVE  /\ p.dst = client.incarnation /\ p.dst # Server
             /\ \/ IsHello(p, client.incarnation, conn.eph)
                \/ IsAck(p, client.incarnation) /\ IsLast(p.pn, client)
  BY ClientIs DEF Greeting, IsHello, IsAck
<1>2. ASSUME NEW p \in net PROVE ~ServerReceive(p)
  BY <1>1
  DEF ServerReceive, ReceiveInitial, ResendServerHello, ReceiveClientKeyExchange,
      PoisonTranscript, ResendServerFinished, ReceiveClientFinished, Serve, ServeRaises,
      AcknowledgeOnly, ServerReceiveAck, ReceiveClose, ServerIgnore, Arrives
<1>3. ASSUME NEW p \in net, ClientReceive(p)
      PROVE  \/ ReceiveServerHello(p) /\ IsHello(p, client.incarnation, conn.eph)
             \/ ClientReceiveAck(p) /\ IsLast(p.pn, client)
  <2>1. CASE IsHello(p, client.incarnation, conn.eph)
    <3>1. p.type = "HANDSHAKE" /\ p.body.type = "ServerHello"
      BY <2>1, BodyTypes DEF IsHello
    <3>2. QED
      BY <1>1, <1>3, <2>1, <3>1
      DEF ClientReceive, ReceiveServerFinished, ReceiveUnexpected, ReceiveResponse,
          ReceiveResponseAgain, ClientReceiveAck, ClientIgnore, Handshakes, Addressed
  <2>2. CASE IsAck(p, client.incarnation) /\ IsLast(p.pn, client)
    BY <1>1, <1>3, <2>2
    DEF ClientReceive, ReceiveServerHello, ReceiveServerFinished, ReceiveUnexpected,
        ReceiveResponse, ReceiveResponseAgain, ClientIgnore, Handshakes, Addressed, IsAck
  <2>3. QED
    BY <1>1, <2>1, <2>2
<1>4. ~NewRequest /\ ~GiveUp
  BY DEF NewRequest, Reuse, CloseTransport, Connect, GiveUp
<1>5. ~ClientTimer
  <2>1. Quiet => client.pending = {}
    BY PromptQuiet DEF Greeting
  <2>2. QED
    BY <2>1 DEF ClientTimer, HandshakeTimeout, ResponseTimeout
<1>6. ServerRetransmit => net = {}
  BY PromptQuiet DEF ServerRetransmit
<1>7. QED
  BY <1>2, <1>3, <1>4, <1>5, <1>6 DEF Next, Receive

LEMMA GreetingAck ==
  ASSUME IInv, Forgiving, client.phase = "wait_sh", Greeting(client, conn, net, losses),
         NEW p \in net, ClientReceiveAck(p), IsLast(p.pn, client)
  PROVE  /\ Greeting(client', conn', net', losses')
         /\ client'.phase = "wait_sh" /\ client'.pending = {}
<1> DEFINE c == [client EXCEPT !.pending = {q \in @ : q.pn # p.pn}]
<1>1. client' = c /\ net' = net \ {p} /\ UNCHANGED <<conn, losses>> /\ p.type = "ACK"
  BY PromptNet DEF ClientReceiveAck
<1>2. /\ c.pending = {q \in client.pending : q.pn # p.pn} /\ c.phase = "wait_sh"
      /\ c.incarnation = client.incarnation /\ c.pn = client.pn
  BY ClientIs DEF IsClient
<1>3. \A q \in client.pending : q.pn = p.pn
  <2>1. \A q \in client.pending : IsLast(q.pn, client)
    BY DEF Greeting
  <2>2. QED
    BY <2>1 DEF IsLast
<1>4. c.pending = {}
  BY <1>2, <1>3
<1> HIDE DEF c
<1>5. ~IsHello(p, client.incarnation, conn.eph)
  BY <1>1 DEF IsHello
<1>6. \A pn : IsLast(pn, client) => IsLast(pn, c)
  BY <1>2 DEF IsLast
<1>7. Greeting(c, conn, net \ {p}, losses)
  BY <1>2, <1>4, <1>5, <1>6 DEF Greeting
<1>8. QED
  BY <1>1, <1>2, <1>4, <1>7

LEMMA GreetingLoses ==
  ASSUME IInv, Forgiving, client.phase = "wait_sh", Greeting(client, conn, net, losses),
         NEW p \in net, Lose(p)
  PROVE  Greeting(client', conn', net', losses')
<1>1. /\ net' = net \ {p} /\ losses = 0 /\ losses' = 1 /\ UNCHANGED <<client, conn>>
  BY Lost
<1>2. PICK h \in net : IsHello(h, client.incarnation, conn.eph)
  BY <1>1 DEF Greeting
<1>3. client.pending # {} => \E a \in net : IsAck(a, client.incarnation)
  BY <1>1 DEF Greeting
<1>4. \A a : IsAck(a, client.incarnation) => a # h
  BY <1>2 DEF IsAck, IsHello
<1>5. client.pending # {} => net \ {p} # {}
  BY <1>2, <1>3, <1>4
<1>6. Greeting(client, conn, net \ {p}, 1)
  BY <1>5 DEF Greeting
<1>7. QED
  BY <1>1, <1>6

LEMMA GreetingRetransmits ==
  ASSUME IInv, Forgiving, client.phase = "wait_sh", Greeting(client, conn, net, losses),
         net = {}, ServerRetransmit, NoConnection
  PROVE  Greeting(client', conn', net', losses') /\ UNCHANGED client /\ net' # {}
<1>1. PICK q \in conn.sent :
        /\ conn' = [conn EXCEPT !.sent = (@ \ {q}) \cup {Again(q, 1)}]
        /\ net' = {Again(q, 1)} /\ UNCHANGED <<client, losses>> /\ conn # None
  BY DEF ServerRetransmit
<1> DEFINE a == Again(q, 1)
           s == [conn EXCEPT !.sent = (@ \ {q}) \cup {a}]
<1>2. /\ s.sent = (conn.sent \ {q}) \cup {a}
      /\ s.peer = conn.peer /\ s.eph = conn.eph /\ s.phase = conn.phase /\ s.pn = conn.pn
      /\ s.transcript = conn.transcript
  BY <1>1 DEF IInv, ServerFine, ConnectionFine, IsConnection
<1> s # None
  BY <1>1, StaysConnection, ConnectionIs DEF IInv, ServerFine, ConnectionFine
<1>3. IsDatagram(q)
  BY <1>1 DEF IInv, MessagesFine, Sending, Out
<1>4. IsHello(q, client.incarnation, conn.eph)
  BY DEF Greeting
<1>5. IsHello(a, client.incarnation, conn.eph)
  BY <1>3, <1>4, AgainIs DEF IsHello
<1>6. losses # 0
  BY DEF Greeting
<1> HIDE DEF a, s
<1>7. Greeting(client, s, {a}, losses)
  BY <1>2, <1>5, <1>6 DEF Greeting
<1>8. QED
  BY <1>1, <1>7 DEF a, s

LEMMA GreetingHello ==
  ASSUME IInv, Forgiving, client.phase = "wait_sh", Greeting(client, conn, net, losses),
         NEW p \in net, ReceiveServerHello(p), IsHello(p, client.incarnation, conn.eph)
  PROVE  /\ Exchanging(client', conn', net', losses')
         /\ client'.phase = "wait_sf" /\ client'.pending \cup net' # {}
         /\ \A x \in client'.pending \cup net' : x.type # "INITIAL"
<1> DEFINE i == client.incarnation
           e == conn.eph
           cke == Exchanged(i, e)
           q == ToServer("HANDSHAKE", client.pn, cke)
           c == [client EXCEPT !.phase = "wait_sf", !.pn = @ + 1, !.pending = {q},
                               !.transcript = @ \o <<p.body, cke>>]
           a == Ack(Server, 0)
           n == (net \ {p}) \cup {a, q}
<1>1. p.body = ServerHello(e) /\ p.pn = 0
  BY DEF IsHello
<1>2. client' = c /\ Deliver(p, {a, q}) /\ UNCHANGED <<conn, losses>>
  BY <1>1 DEF ReceiveServerHello, Exchanged
<1>3. net' = n
  BY <1>2, PromptNet
<1>4. client.transcript = <<ClientHello(i)>>
  BY DEF IInv, ClientFine
<1>5. client.transcript \o <<p.body, cke>> = Upto3(i, e)
  BY <1>1, <1>4, JoinOne DEF Upto3
<1>6. /\ c.phase = "wait_sf" /\ c.incarnation = i /\ c.pending = {q}
      /\ c.transcript = Upto3(i, e)
  BY <1>5, ClientIs DEF IsClient
<1>7. IsExchange(q, i, e) /\ IsAck(a, Server)
  BY AckIs DEF IsExchange, IsAck, ToServer, Datagram
<1>8. \A x \in net \ {p} : IsAck(x, i)
  BY DEF Greeting
<1>9. conn # None /\ \A x \in conn.sent : IsHello(x, i, e)
  BY DEF Greeting
<1>10. /\ conn.peer = i /\ conn.pn = 1 /\ conn.phase = "await_cke"
       /\ conn.transcript = Hellos(i, e)
  BY DEF Greeting
<1>11. \A x \in {q} \cup n : x.type # "INITIAL"
  BY <1>7, <1>8 DEF IsExchange, IsAck
<1> HIDE DEF q, c, cke, a
<1>12. Progress(i, conn, n)
  BY <1>7, <1>10 DEF Progress
<1>13. Exchanging(c, conn, n, losses)
  BY <1>6, <1>7, <1>8, <1>9, <1>10, <1>12 DEF Exchanging, a
<1>14. QED
  BY <1>2, <1>3, <1>6, <1>11, <1>13

LEMMA GreetingStep ==
  ASSUME IInv, Calm, Forgiving, NoConnection, client.phase = "wait_sh",
         Greeting(client, conn, net, losses), Next
  PROVE  Calm'
<1>1. CASE \E p \in net : ReceiveServerHello(p) /\ IsHello(p, client.incarnation, conn.eph)
  <2>1. PICK p \in net : ReceiveServerHello(p) /\ IsHello(p, client.incarnation, conn.eph)
    BY <1>1
  <2>2. /\ Exchanging(client', conn', net', losses')
        /\ client'.phase = "wait_sf"
        /\ \A x \in client'.pending \cup net' : x.type # "INITIAL"
    BY <2>1, GreetingHello
  <2>3. QED
    BY <2>2 DEF Calm, NothingLeft
<1>2. CASE \E p \in net : ClientReceiveAck(p) /\ IsLast(p.pn, client)
  <2>1. PICK p \in net : ClientReceiveAck(p) /\ IsLast(p.pn, client)
    BY <1>2
  <2>2. Greeting(client', conn', net', losses') /\ client'.phase = "wait_sh"
    BY <2>1, GreetingAck
  <2>3. QED
    BY <2>2 DEF Calm, NothingLeft
<1>3. CASE \E p \in net : Lose(p)
  <2>1. PICK p \in net : Lose(p)
    BY <1>3
  <2>2. Greeting(client', conn', net', losses') /\ UNCHANGED client
    BY <2>1, GreetingLoses, Lost
  <2>3. QED
    BY <2>2 DEF Calm, NothingLeft
<1>4. CASE net = {} /\ ServerRetransmit
  <2>1. Greeting(client', conn', net', losses') /\ UNCHANGED client
    BY <1>4, GreetingRetransmits
  <2>2. QED
    BY <2>1 DEF Calm, NothingLeft
<1>5. QED
  BY <1>1, <1>2, <1>3, <1>4, GreetingActions

-----------------------------------------------------------------------------
(* After the hellos *)

LEMMA ExchangingMessages ==
  ASSUME IInv, client.phase = "wait_sf", Exchanging(client, conn, net, losses), NEW p \in net
  PROVE  \/ IsExchange(p, client.incarnation, conn.eph)
         \/ /\ IsMac(p, client.incarnation, conn.eph)
            /\ ServerFinishedVerifies(p.body, ClientSecret, client.transcript)
         \/ IsAck(p, Server) \/ IsAck(p, client.incarnation)
<1> DEFINE i == client.incarnation
           e == conn.eph
<1>1. ClientSecret = Shared(i, e)
  BY DEF Exchanging, ClientSecret, Upto3, Shared
<1>2. T1(client.transcript) = Hellos(i, e) /\ T1(Hellos(i, e)) = Hellos(i, e)
  BY Covered DEF Exchanging, Upto3, Hellos
<1>3. ServerFinished(ClientSecret, client.transcript) = ServerMac(i, e)
  BY <1>1, <1>2 DEF ServerMac, ServerFinished
<1>4. IsMac(p, i, e) => ServerFinishedVerifies(p.body, ClientSecret, client.transcript)
  BY <1>3 DEF IsMac, ServerFinishedVerifies
<1>5. QED
  BY <1>4 DEF Exchanging

LEMMA ExchangingClient ==
  ASSUME IInv, client.phase = "wait_sf", Exchanging(client, conn, net, losses),
         NEW p \in net, ClientReceive(p)
  PROVE  ReceiveServerFinished(p) \/ (ClientReceiveAck(p) /\ IsAck(p, client.incarnation))
<1>1. CASE IsExchange(p, client.incarnation, conn.eph) \/ IsAck(p, Server)
  BY <1>1, ClientIs
  DEF ClientReceive, ReceiveServerHello, ReceiveServerFinished, ReceiveUnexpected,
      ReceiveResponse, ReceiveResponseAgain, ClientReceiveAck, ClientIgnore, Handshakes,
      Addressed, IsExchange, IsAck
<1>2. CASE /\ IsMac(p, client.incarnation, conn.eph)
           /\ ServerFinishedVerifies(p.body, ClientSecret, client.transcript)
  BY <1>2, ClientIs
  DEF ClientReceive, ReceiveServerHello, ReceiveUnexpected, ReceiveResponse,
      ReceiveResponseAgain, ClientReceiveAck, ClientIgnore, Handshakes, Addressed, IsMac
<1>3. CASE IsAck(p, client.incarnation)
  BY <1>3, ClientIs
  DEF ClientReceive, ReceiveServerHello, ReceiveServerFinished, ReceiveUnexpected,
      ReceiveResponse, ReceiveResponseAgain, ClientIgnore, Handshakes, Addressed, IsAck
<1>4. QED
  BY <1>1, <1>2, <1>3, ExchangingMessages

LEMMA ExchangingServer ==
  ASSUME IInv, client.phase = "wait_sf", Exchanging(client, conn, net, losses),
         NEW p \in net, ServerReceive(p)
  PROVE  \/ ReceiveClientKeyExchange(p) /\ IsExchange(p, client.incarnation, conn.eph)
         \/ ResendServerFinished(p) /\ IsExchange(p, client.incarnation, conn.eph)
         \/ ServerReceiveAck(p) /\ IsAck(p, Server)
<1>1. conn # None /\ conn.phase \in {"await_cke", "await_cf"}
  BY DEF Exchanging
<1>2. CASE IsExchange(p, client.incarnation, conn.eph)
  <2>1. p.type = "HANDSHAKE" /\ p.body.type = "ClientKeyExchange"
    BY <1>2, BodyTypes DEF IsExchange
  <2>2. QED
    BY <1>1, <1>2, <2>1
    DEF ServerReceive, ReceiveInitial, ResendServerHello, PoisonTranscript,
        ReceiveClientFinished, Serve, ServeRaises, AcknowledgeOnly, ServerReceiveAck,
        ReceiveClose, ServerIgnore, Arrives, InPhase
<1>3. CASE IsAck(p, Server)
  BY <1>1, <1>3
  DEF ServerReceive, ReceiveInitial, ResendServerHello, ReceiveClientKeyExchange,
      PoisonTranscript, ResendServerFinished, ReceiveClientFinished, Serve, ServeRaises,
      AcknowledgeOnly, ReceiveClose, ServerIgnore, Arrives, InPhase, IsAck
<1>4. CASE p.dst = client.incarnation
  BY <1>4, ClientIs
  DEF ServerReceive, ReceiveInitial, ResendServerHello, ReceiveClientKeyExchange,
      PoisonTranscript, ResendServerFinished, ReceiveClientFinished, Serve, ServeRaises,
      AcknowledgeOnly, ServerReceiveAck, ReceiveClose, ServerIgnore, Arrives
<1>5. QED
  BY <1>2, <1>3, <1>4, ExchangingMessages DEF IsMac, IsAck

\* What the timers find: nothing is under way, so the one loss is spent and the
\* server has its acknowledgement.
LEMMA ExchangingQuiet ==
  ASSUME IInv, Forgiving, client.phase = "wait_sf", Exchanging(client, conn, net, losses), Quiet
  PROVE  /\ net = {} /\ losses # 0
         /\ \A q \in conn.sent : IsMac(q, client.incarnation, conn.eph)
<1>1. net = {}
  BY PromptQuiet
<1>2. ~Progress(client.incarnation, conn, net)
  BY <1>1 DEF Progress, Exchanging
<1>3. Ack(Server, 0) \notin net
  BY <1>1
<1>4. QED
  BY <1>1, <1>2, <1>3 DEF Exchanging

LEMMA ExchangingDone ==
  ASSUME IInv, Forgiving, client.phase = "wait_sf", Exchanging(client, conn, net, losses),
         NEW p \in net, ReceiveServerFinished(p)
  PROVE  /\ client'.phase = "wait_response"
         /\ \A x \in client'.pending \cup net' : x.type # "INITIAL"
<1>1. PICK k, f, q :
        /\ k.type = "ACK" /\ f.type = "HANDSHAKE" /\ q.type = "APP_DATA"
        /\ LET t == Append(client.transcript, p.body)
           IN  client' = [client EXCEPT !.phase = "wait_response", !.pn = @ + 2,
                                        !.transcript = t,
                                        !.keys = ApplicationKeys(ClientSecret, t),
                                        !.pending = {q}]
        /\ Deliver(p, {k, f, q})
  <2> DEFINE t == Append(client.transcript, p.body)
             k == Ack(Server, p.pn)
             f == ToServer("HANDSHAKE", client.pn, ClientFinished(ClientSecret, t))
             q == SendApplication([client EXCEPT !.pn = @ + 1], client.request,
                                  ApplicationKeys(ClientSecret, t))
  <2>1. k.type = "ACK" /\ f.type = "HANDSHAKE" /\ q.type = "APP_DATA"
    BY DEF Ack, ToServer, SendApplication, Datagram
  <2>2. QED
    BY <2>1 DEF ReceiveServerFinished
<1>2. client'.phase = "wait_response" /\ client'.pending = {q}
  BY <1>1, ClientIs DEF IsClient
<1>3. net' \subseteq net \cup {k, f, q}
  BY <1>1 DEF Deliver
<1>4. \A x \in net : x.type # "INITIAL"
  BY ExchangingMessages DEF IsExchange, IsMac, IsAck
<1>5. QED
  BY <1>1, <1>2, <1>3, <1>4

LEMMA ExchangingClientAck ==
  ASSUME IInv, Forgiving, client.phase = "wait_sf", Exchanging(client, conn, net, losses),
         NEW p \in net, ClientReceiveAck(p), IsAck(p, client.incarnation)
  PROVE  Exchanging(client', conn', net', losses') /\ client'.phase = "wait_sf"
<1> DEFINE c == [client EXCEPT !.pending = {q \in @ : q.pn # p.pn}]
<1>1. client' = c /\ net' = net \ {p} /\ UNCHANGED <<conn, losses>>
  BY PromptNet DEF ClientReceiveAck
<1>2. /\ c.pending \subseteq client.pending /\ c.phase = "wait_sf"
      /\ c.incarnation = client.incarnation /\ c.transcript = client.transcript
  BY ClientIs DEF IsClient
<1> HIDE DEF c
<1>3. p # Ack(Server, 0)
  BY AckIs, ClientIs DEF IsAck
<1>4. \A x : IsExchange(x, client.incarnation, conn.eph) \/ IsMac(x, client.incarnation, conn.eph)
               => x # p
  BY DEF IsAck, IsExchange, IsMac
<1>5. Progress(client.incarnation, conn, net) => Progress(client.incarnation, conn, net \ {p})
  BY <1>4 DEF Progress
<1>6. Exchanging(c, conn, net \ {p}, losses)
  BY <1>2, <1>3, <1>5 DEF Exchanging
<1>7. QED
  BY <1>1, <1>2, <1>6

LEMMA ExchangingServerAck ==
  ASSUME IInv, Forgiving, client.phase = "wait_sf", Exchanging(client, conn, net, losses),
         NEW p \in net, ServerReceiveAck(p), IsAck(p, Server), NoConnection
  PROVE  Exchanging(client', conn', net', losses') /\ UNCHANGED client
<1> DEFINE s == [conn EXCEPT !.sent = {q \in @ : q.pn # p.pn}]
<1>1. conn' = s /\ net' = net \ {p} /\ UNCHANGED <<client, losses>> /\ conn # None
  BY PromptNet DEF ServerReceiveAck
<1>2. /\ s.sent = {q \in conn.sent : q.pn # p.pn}
      /\ s.peer = conn.peer /\ s.eph = conn.eph /\ s.phase = conn.phase /\ s.pn = conn.pn
      /\ s.transcript = conn.transcript /\ s.secret = conn.secret /\ IsConnection(s)
  BY <1>1 DEF IInv, ServerFine, ConnectionFine, IsConnection
<1> HIDE DEF s
<1>3. p = Ack(Server, 0) => \A q \in s.sent : ~IsHello(q, client.incarnation, conn.eph)
  BY <1>2, AckIs DEF IsHello
<1>4. \A x : IsExchange(x, client.incarnation, conn.eph) \/ IsMac(x, client.incarnation, conn.eph)
               => x # p
  BY DEF IsAck, IsExchange, IsMac
<1>5. Progress(client.incarnation, conn, net) => Progress(client.incarnation, s, net \ {p})
  BY <1>2, <1>4 DEF Progress
<1>6. Exchanging(client, s, net \ {p}, losses)
  BY <1>1, <1>2, <1>3, <1>5, ConnectionIs DEF Exchanging
<1>7. QED
  BY <1>1, <1>6

\* ServerFinished goes out, for the first time or again.
LEMMA ExchangingMac ==
  ASSUME IInv, client.phase = "wait_sf", Exchanging(client, conn, net, losses),
         NEW p \in net, IsExchange(p, client.incarnation, conn.eph),
         NEW q, IsMac(q, client.incarnation, conn.eph), NEW a, IsAck(a, client.incarnation),
         NEW s, s # None, s.sent = conn.sent \cup {q}, s.peer = conn.peer, s.eph = conn.eph,
         s.phase = "await_cf", s.pn \in Nat \ {0},
         s.transcript = Transcript(client.incarnation, conn.eph),
         s.secret = Shared(client.incarnation, conn.eph)
  PROVE  Exchanging(client, s, (net \ {p}) \cup {a, q}, losses)
<1>1. Ack(Server, 0) # p
  BY AckIs DEF IsExchange
<1>2. Progress(client.incarnation, s, (net \ {p}) \cup {a, q})
  BY DEF Progress
<1>3. \A x \in (net \ {p}) \cup {a, q} :
        \/ IsExchange(x, client.incarnation, conn.eph) \/ IsMac(x, client.incarnation, conn.eph)
        \/ IsAck(x, Server) \/ IsAck(x, client.incarnation)
  BY DEF Exchanging
<1>4. \A x \in conn.sent : IsHello(x, client.incarnation, conn.eph) =>
        Ack(Server, 0) \in net \/ losses # 0
  BY DEF Exchanging
<1>5. ~IsHello(q, client.incarnation, conn.eph)
  BY DEF IsHello, IsMac
<1>6. \A x \in s.sent : IsHello(x, client.incarnation, conn.eph)
                         \/ IsMac(x, client.incarnation, conn.eph)
  BY DEF Exchanging
<1>7. QED
  BY <1>1, <1>2, <1>3, <1>4, <1>5, <1>6 DEF Exchanging

LEMMA ExchangingKey ==
  ASSUME IInv, Forgiving, client.phase = "wait_sf", Exchanging(client, conn, net, losses),
         NEW p \in net, ReceiveClientKeyExchange(p), IsExchange(p, client.incarnation, conn.eph),
         NoConnection
  PROVE  Exchanging(client', conn', net', losses') /\ UNCHANGED client
<1> DEFINE i == client.incarnation
           e == conn.eph
           secret == Decapsulate(conn.eph, p.body)
           sf == ServerFinished(secret, conn.transcript)
           q == ToPeer(conn, "HANDSHAKE", sf)
           a == Ack(conn.peer, p.pn)
           s == [Sent(conn, q) EXCEPT !.phase = "await_cf", !.secret = secret,
                                      !.transcript = @ \o <<p.body, sf>>]
<1>1. /\ conn' = s /\ Deliver(p, {a, q}) /\ UNCHANGED <<client, losses>>
      /\ conn # None /\ conn.phase = "await_cke"
  BY DEF ReceiveClientKeyExchange, InPhase
<1>2. net' = (net \ {p}) \cup {a, q}
  BY <1>1, PromptNet
<1>3. /\ conn.transcript = Hellos(i, e) /\ conn.peer = i /\ conn.pn \in Nat \ {0}
      /\ p.body = Exchanged(i, e)
  BY <1>1 DEF Exchanging, IsExchange
<1>4. secret = Shared(i, e)
  BY <1>3 DEF Shared, Encapsulated, Exchanged, ClientKeyExchange, ServerHello, Decapsulate
<1>5. sf = ServerMac(i, e)
  BY <1>3, <1>4 DEF ServerMac
<1>6. conn.transcript \o <<p.body, sf>> = Transcript(i, e)
  BY <1>3, <1>5, JoinTwo DEF Hellos, Transcript
<1>7. IsMac(q, i, e) /\ IsAck(a, i)
  BY <1>3, <1>5, AckIs DEF IsMac, IsAck, ToPeer, Datagram
<1>8. IsConnection(conn)
  BY <1>1 DEF IInv, ServerFine, ConnectionFine
<1>9. /\ s.sent = conn.sent \cup {q} /\ s.peer = conn.peer /\ s.eph = e
      /\ s.phase = "await_cf" /\ s.pn = conn.pn + 1
      /\ s.transcript = Transcript(i, e) /\ s.secret = secret
  BY <1>6, <1>8 DEF IsConnection, Sent
<1>10. s.pn \in Nat \ {0} /\ s # None
  <2>1. IsConnection(Sent(conn, q))
    BY <1>8, StaysConnection
  <2>2. IsConnection(s)
    BY <2>1, StaysConnection
  <2>3. QED
    BY <1>3, <1>9, <2>2, ConnectionIs
<1> HIDE DEF s, q, a, sf, secret
<1>11. Exchanging(client, s, (net \ {p}) \cup {a, q}, losses)
  BY <1>1, <1>4, <1>7, <1>9, <1>10, ExchangingMac
<1>12. QED
  BY <1>1, <1>2, <1>11

LEMMA CoveredFirst ==
  ASSUME NEW a, NEW b, NEW c, NEW d
  PROVE  T1(<<a, b, c, d>>) = <<a, b>>
<1> DEFINE S == {a, b, c, d}
           v2 == <<a, b>>
           v4 == <<a, b, c, d>>
<1>1. v2 \in Seq(S) /\ v4 \in Seq(S) /\ Len(v2) = 2 /\ Len(v4) = 4
  OBVIOUS
<1>2. v4[1] = v2[1] /\ v4[2] = v2[2]
  OBVIOUS
<1> HIDE DEF S, v2, v4
<1>3. \A i \in 1..Len(v2) : v4[i] = v2[i]
  BY <1>1, <1>2
<1>4. SubSeq(v4, 1, Len(v2)) = v2
  BY <1>1, <1>3, Front
<1>5. QED
  BY <1>1, <1>4 DEF T1, v2, v4

LEMMA ExchangingKeyAgain ==
  ASSUME IInv, Forgiving, client.phase = "wait_sf", Exchanging(client, conn, net, losses),
         NEW p \in net, ResendServerFinished(p), IsExchange(p, client.incarnation, conn.eph),
         NoConnection
  PROVE  Exchanging(client', conn', net', losses') /\ UNCHANGED client
<1> DEFINE i == client.incarnation
           e == conn.eph
           sf == ServerFinished(conn.secret, conn.transcript)
           q == ToPeer(conn, "HANDSHAKE", sf)
           a == Ack(conn.peer, p.pn)
           s == Sent(conn, q)
<1>1. /\ conn' = s /\ Deliver(p, {a, q}) /\ UNCHANGED <<client, losses>>
      /\ conn # None /\ conn.phase = "await_cf"
  BY DEF ResendServerFinished, InPhase
<1>2. net' = (net \ {p}) \cup {a, q}
  BY <1>1, PromptNet
<1>3. /\ conn.transcript = Transcript(i, e) /\ conn.secret = Shared(i, e)
      /\ conn.peer = i /\ conn.pn \in Nat \ {0}
  BY <1>1 DEF Exchanging
<1>4. T1(Hellos(i, e)) = Hellos(i, e)
  BY Covered DEF Hellos
<1>5. T1(Transcript(i, e)) = Hellos(i, e)
  BY CoveredFirst DEF Transcript, Hellos
<1>6. sf = ServerMac(i, e)
  BY <1>3, <1>4, <1>5 DEF ServerMac, ServerFinished
<1>7. IsMac(q, i, e) /\ IsAck(a, i)
  BY <1>3, <1>6, AckIs DEF IsMac, IsAck, ToPeer, Datagram
<1>8. IsConnection(conn)
  BY <1>1 DEF IInv, ServerFine, ConnectionFine
<1>9. /\ s.sent = conn.sent \cup {q} /\ s.peer = conn.peer /\ s.eph = e
      /\ s.phase = "await_cf" /\ s.pn = conn.pn + 1
      /\ s.transcript = Transcript(i, e) /\ s.secret = Shared(i, e)
  BY <1>1, <1>3, <1>8 DEF IsConnection, Sent
<1>10. s.pn \in Nat \ {0} /\ s # None
  <2>1. IsConnection(s)
    BY <1>8, StaysConnection
  <2>2. QED
    BY <1>3, <1>9, <2>1, ConnectionIs
<1> HIDE DEF s, q, a, sf
<1>11. Exchanging(client, s, (net \ {p}) \cup {a, q}, losses)
  BY <1>1, <1>7, <1>9, <1>10, ExchangingMac
<1>12. QED
  BY <1>1, <1>2, <1>11

LEMMA ExchangingLoses ==
  ASSUME IInv, Forgiving, client.phase = "wait_sf", Exchanging(client, conn, net, losses),
         NEW p \in net, Lose(p)
  PROVE  Exchanging(client', conn', net', losses') /\ UNCHANGED client
<1>1. net' = net \ {p} /\ losses = 0 /\ losses' = 1 /\ UNCHANGED <<client, conn>>
  BY Lost
<1>2. Progress(client.incarnation, conn, net)
  BY <1>1 DEF Exchanging
<1>3. ASSUME p = Ack(Server, 0)
      PROVE  Progress(client.incarnation, conn, net \ {p})
  <2>1. \A x : IsExchange(x, client.incarnation, conn.eph) \/ IsMac(x, client.incarnation, conn.eph)
                 => x # p
    BY <1>3, AckIs DEF IsExchange, IsMac
  <2>2. QED
    BY <1>2, <1>3, <2>1 DEF Progress
<1>4. \A q \in conn.sent : IsHello(q, client.incarnation, conn.eph) => Ack(Server, 0) \in net
  BY <1>1 DEF Exchanging
<1>5. Exchanging(client, conn, net \ {p}, 1)
  BY <1>3, <1>4 DEF Exchanging
<1>6. QED
  BY <1>1, <1>5

LEMMA ExchangingRetransmits ==
  ASSUME IInv, Forgiving, client.phase = "wait_sf", Exchanging(client, conn, net, losses),
         ServerRetransmit, NoConnection
  PROVE  Exchanging(client', conn', net', losses') /\ UNCHANGED client
<1>1. Quiet /\ conn # None
  BY DEF ServerRetransmit
<1>2. /\ net = {} /\ losses # 0
      /\ \A q \in conn.sent : IsMac(q, client.incarnation, conn.eph)
  BY <1>1, ExchangingQuiet
<1>3. PICK q \in conn.sent :
        /\ conn' = [conn EXCEPT !.sent = (@ \ {q}) \cup {Again(q, 1)}]
        /\ net' = {Again(q, 1)} /\ UNCHANGED <<client, losses>>
  BY <1>2 DEF ServerRetransmit
<1> DEFINE a == Again(q, 1)
           s == [conn EXCEPT !.sent = (@ \ {q}) \cup {a}]
<1>4. /\ s.sent = (conn.sent \ {q}) \cup {a}
      /\ s.peer = conn.peer /\ s.eph = conn.eph /\ s.phase = conn.phase /\ s.pn = conn.pn
      /\ s.transcript = conn.transcript /\ s.secret = conn.secret /\ IsConnection(s)
  BY <1>1 DEF IInv, ServerFine, ConnectionFine, IsConnection
<1>5. IsDatagram(q)
  BY <1>1 DEF IInv, MessagesFine, Sending, Out
<1>6. IsMac(a, client.incarnation, conn.eph)
  BY <1>2, <1>5, AgainIs DEF IsMac
<1> HIDE DEF a, s
<1>7. \A x \in s.sent : IsMac(x, client.incarnation, conn.eph)
                         /\ ~IsHello(x, client.incarnation, conn.eph)
  BY <1>2, <1>4, <1>6 DEF IsMac, IsHello
<1>8. Exchanging(client, s, {a}, losses)
  BY <1>2, <1>4, <1>6, <1>7, ConnectionIs DEF Exchanging
<1>9. QED
  BY <1>3, <1>8 DEF a, s

LEMMA ExchangingTimeout ==
  ASSUME IInv, Forgiving, client.phase = "wait_sf", Exchanging(client, conn, net, losses),
         HandshakeTimeout
  PROVE  \/ Exchanging(client', conn', net', losses') /\ client'.phase = "wait_sf"
         \/ /\ client'.phase = "closed" /\ Close \in net'
            /\ \A x \in client'.pending \cup net' : x.type # "INITIAL"
<1> DEFINE i == client.incarnation
           e == conn.eph
<1>1. net = {} /\ losses # 0 /\ \A q \in conn.sent : IsMac(q, i, e)
  <2>1. Quiet
    BY DEF HandshakeTimeout
  <2>2. QED
    BY <2>1, ExchangingQuiet
<1>2. PICK p \in client.pending, n \in {0, 1} :
        LET resent == Again(p, n)
        IN  IF resent.copy >= MaxRetries
              THEN Fail("budget exhausted", Retry(p))
              ELSE /\ client' = [client EXCEPT !.pending = {Again(resent, 1)}]
                   /\ net' = net \cup {resent, Again(resent, 1)}
  BY DEF HandshakeTimeout
<1>3. UNCHANGED <<conn, losses>>
  BY DEF HandshakeTimeout
<1>4. IsDatagram(p) /\ IsExchange(p, i, e)
  BY DEF IInv, MessagesFine, Sending, Out, Exchanging
<1>5. ASSUME NEW q, IsDatagram(q), IsExchange(q, i, e), NEW k
      PROVE  IsDatagram(Again(q, k)) /\ IsExchange(Again(q, k), i, e)
  BY <1>5, AgainIs DEF IsExchange
<1> DEFINE resent == Again(p, n)
           again == Again(resent, 1)
<1>6. IsDatagram(resent) /\ IsExchange(resent, i, e) /\ IsExchange(again, i, e)
  BY <1>4, <1>5
<1>7. CASE resent.copy >= MaxRetries
  <2>1. Fail("budget exhausted", Retry(p))
    BY <1>2, <1>7
  <2>2. client' = Closed(client) /\ net' = Retry(p) \cup {Close}
    BY <1>1, <2>1 DEF Fail
  <2>3. \A x \in Retry(p) : IsExchange(x, i, e)
    BY <1>4, <1>5 DEF Retry
  <2>4. client'.phase = "closed" /\ client'.pending = {}
    BY <2>2, ClientIs DEF Closed, IsClient
  <2>5. QED
    BY <2>2, <2>3, <2>4, CloseIs DEF IsExchange
<1>8. CASE ~(resent.copy >= MaxRetries)
  <2> DEFINE c == [client EXCEPT !.pending = {again}]
  <2>1. client' = c /\ net' = {resent, again}
    BY <1>1, <1>2, <1>8
  <2>2. /\ c.phase = "wait_sf" /\ c.incarnation = i /\ c.transcript = client.transcript
        /\ c.pending = {again}
    BY ClientIs DEF IsClient
  <2> HIDE DEF c, resent, again
  <2>3. \A q \in conn.sent : ~IsHello(q, i, e)
    BY <1>1 DEF IsMac, IsHello
  <2>4. Exchanging(c, conn, {resent, again}, losses)
    BY <1>1, <1>6, <2>2, <2>3 DEF Exchanging
  <2>5. QED
    BY <1>3, <2>1, <2>2, <2>4
<1>9. QED
  BY <1>7, <1>8

LEMMA ExchangingStep ==
  ASSUME IInv, Calm, Forgiving, NoConnection, client.phase = "wait_sf",
         Exchanging(client, conn, net, losses), Next
  PROVE  Calm'
<1>1. ASSUME Exchanging(client', conn', net', losses'), client'.phase = "wait_sf"
      PROVE  Calm'
  <2>1. \A x \in client'.pending \cup net' : x.type # "INITIAL"
    BY <1>1 DEF Exchanging, IsExchange, IsMac, IsAck
  <2>2. QED
    BY <1>1, <2>1 DEF Calm, NothingLeft
<1>2. ASSUME NEW p \in net, ClientReceive(p)
      PROVE  Calm'
  <2>1. CASE ReceiveServerFinished(p)
    <3>1. /\ client'.phase = "wait_response"
          /\ \A x \in client'.pending \cup net' : x.type # "INITIAL"
      BY <2>1, ExchangingDone
    <3>2. QED
      BY <3>1 DEF Calm, NothingLeft
  <2>2. CASE ClientReceiveAck(p) /\ IsAck(p, client.incarnation)
    BY <1>1, <2>2, ExchangingClientAck
  <2>3. QED
    BY <1>2, <2>1, <2>2, ExchangingClient
<1>3. ASSUME NEW p \in net, ServerReceive(p)
      PROVE  Calm'
  <2>1. Exchanging(client', conn', net', losses') /\ UNCHANGED client
    BY <1>3, ExchangingServer, ExchangingKey, ExchangingKeyAgain, ExchangingServerAck
  <2>2. QED
    BY <1>1, <2>1
<1>4. CASE HandshakeTimeout
  <2>1. CASE Exchanging(client', conn', net', losses') /\ client'.phase = "wait_sf"
    BY <1>1, <2>1
  <2>2. CASE /\ client'.phase = "closed" /\ Close \in net'
             /\ \A x \in client'.pending \cup net' : x.type # "INITIAL"
    BY <2>2 DEF Calm, NothingLeft
  <2>3. QED
    BY <1>4, <2>1, <2>2, ExchangingTimeout
<1>5. CASE ServerRetransmit
  BY <1>1, <1>5, ExchangingRetransmits
<1>6. CASE \E p \in net : Lose(p)
  BY <1>1, <1>6, ExchangingLoses
<1>7. ~NewRequest /\ ~ResponseTimeout /\ ~GiveUp
  BY DEF NewRequest, Reuse, CloseTransport, Connect, ResponseTimeout, GiveUp
<1>8. QED
  BY <1>2, <1>3, <1>4, <1>5, <1>6, <1>7 DEF Next, Receive, ClientTimer

-----------------------------------------------------------------------------
(* With a connection to another socket *)

LEMMA ElsewhereClient ==
  ASSUME IInv, client.phase = "wait_sh", Elsewhere(client, conn, net, losses),
         NEW p \in net, ClientReceive(p)
  PROVE  Elsewhere(client', conn', net', losses') /\ client'.phase = "wait_sh"
<1>1. ~Handshakes(p, "wait_sh") /\ ~Handshakes(p, "wait_sf")
  BY DEF Elsewhere, Handshakes, Addressed
<1>2. ClientReceiveAck(p) \/ ClientIgnore(p)
  BY <1>1
  DEF ClientReceive, ReceiveServerHello, ReceiveServerFinished, ReceiveUnexpected,
      ReceiveResponse, ReceiveResponseAgain
<1>3. /\ net' \subseteq net /\ UNCHANGED <<conn, losses>>
      /\ client' = client \/ client' = [client EXCEPT !.pending = {q \in @ : q.pn # p.pn}]
  BY <1>2 DEF ClientReceiveAck, ClientIgnore, Deliver
<1>4. /\ client'.phase = "wait_sh" /\ client'.incarnation = client.incarnation
      /\ client'.pending \subseteq client.pending
  BY <1>3, ClientIs DEF IsClient
<1> PICK c, n : c = client' /\ n = net'
  OBVIOUS
<1>5. Elsewhere(c, conn, n, losses)
  BY <1>3, <1>4 DEF Elsewhere
<1>6. QED
  BY <1>3, <1>4, <1>5

\* Whatever arrives, the server answers the other socket.
LEMMA ElsewhereServer ==
  ASSUME IInv, NoConnection, CommonMode = TRUE, client.phase = "wait_sh",
         Elsewhere(client, conn, net, losses), NEW p \in net, ServerReceive(p)
  PROVE  Elsewhere(client', conn', net', losses') /\ UNCHANGED client
<1>1. /\ conn # None /\ IsConnection(conn) /\ conn.phase # "await_initial"
      /\ conn.phase \in {"await_initial", "await_cke", "await_cf", "established"}
  BY DEF Elsewhere, IInv, ServerFine, ConnectionFine
<1> conn.peer # Server /\ conn.peer # client.incarnation
  BY ClientIs, AddressAssumption DEF Elsewhere, IInv, ServerFine, ConnectionFine
<1>2. ~ReceiveInitial(p) /\ ~ReceiveClose(p)
  BY <1>1 DEF ReceiveInitial, ReceiveClose, Arrives, InPhase, Elsewhere
<1>3. UNCHANGED <<client, losses>>
  BY <1>2
  DEF ServerReceive, ResendServerHello, ReceiveClientKeyExchange, PoisonTranscript,
      ResendServerFinished, ReceiveClientFinished, Serve, ServeRaises, AcknowledgeOnly,
      ServerReceiveAck, ServerIgnore
<1>4. \E ps : Deliver(p, ps) /\ \A x \in ps : x.dst = conn.peer
  BY <1>2
  DEF ServerReceive, ResendServerHello, ReceiveClientKeyExchange, PoisonTranscript,
      ResendServerFinished, ReceiveClientFinished, Serve, ServeRaises, AcknowledgeOnly,
      ServerReceiveAck, ServerIgnore, Ack, ToPeer, Datagram
<1>5. IsConnection(conn') /\ conn'.peer = conn.peer
  BY <1>1, <1>2
  DEF ServerReceive, ResendServerHello, ReceiveClientKeyExchange, PoisonTranscript,
      ResendServerFinished, ReceiveClientFinished, Serve, ServeRaises, AcknowledgeOnly,
      ServerReceiveAck, ServerIgnore, Sent, IsConnection
<1>6. conn' # None
  BY <1>5, ConnectionIs
<1> PICK s, n : s = conn' /\ n = net'
  OBVIOUS
<1>7. Elsewhere(client, s, n, losses)
  BY <1>4, <1>5, <1>6 DEF Elsewhere, Deliver
<1>8. QED
  BY <1>3, <1>7

LEMMA ElsewhereRetransmits ==
  ASSUME IInv, NoConnection, client.phase = "wait_sh",
         Elsewhere(client, conn, net, losses), ServerRetransmit
  PROVE  Elsewhere(client', conn', net', losses') /\ UNCHANGED client
<1>1. PICK q \in conn.sent :
        /\ conn' = [conn EXCEPT !.sent = (@ \ {q}) \cup {Again(q, 1)}]
        /\ net' = net \cup {Again(q, 1)} /\ UNCHANGED <<client, losses>>
  BY DEF ServerRetransmit
<1>2. conn # None /\ ConnectionFine(conn)
  BY DEF Elsewhere, IInv, ServerFine
<1>3. q.dst = conn.peer /\ conn.peer # Server
  BY <1>2, ClientIs, AddressAssumption DEF ConnectionFine
<1>4. q \in Sending /\ IsDatagram(q)
  BY <1>2 DEF IInv, MessagesFine, Sending, Out
<1> PICK a : a = Again(q, 1)
  OBVIOUS
<1>5. a.dst = conn.peer
  BY <1>3, <1>4, AgainIs
<1> PICK s : s = [conn EXCEPT !.sent = (@ \ {q}) \cup {a}]
  OBVIOUS
<1>6. IsConnection(s) /\ s.peer = conn.peer
  BY <1>2 DEF ConnectionFine, IsConnection
<1>7. Elsewhere(client, s, net \cup {a}, losses)
  BY <1>3, <1>5, <1>6, ConnectionIs DEF Elsewhere
<1>8. QED
  BY <1>1, <1>7

LEMMA ElsewhereTimeout ==
  ASSUME IInv, client.phase = "wait_sh", Elsewhere(client, conn, net, losses), HandshakeTimeout
  PROVE  /\ losses' # 0
         /\ \/ Elsewhere(client', conn', net', losses') /\ client'.phase = "wait_sh"
            \/ client'.phase = "closed" /\ client'.pending = {}
<1>1. PICK p \in client.pending, n \in {0, 1} :
        LET resent == Again(p, n)
        IN  IF resent.copy >= MaxRetries
              THEN Fail("budget exhausted", Retry(p))
              ELSE /\ client' = [client EXCEPT !.pending = {Again(resent, 1)}]
                   /\ net' = net \cup {resent, Again(resent, 1)}
  BY DEF HandshakeTimeout
<1>2. UNCHANGED <<conn, losses>> /\ losses # 0
  BY DEF HandshakeTimeout, Elsewhere
<1>3. IsDatagram(p) /\ p.type = "INITIAL"
  BY DEF IInv, MessagesFine, Sending, Out, Elsewhere
<1> PICK resent, again : resent = Again(p, n) /\ again = Again(resent, 1)
  OBVIOUS
<1>4. resent.type = "INITIAL" /\ again.type = "INITIAL"
  BY <1>3, AgainIs
<1>5. CASE resent.copy >= MaxRetries
  <2>1. client' = Closed(client)
    BY <1>1, <1>5 DEF Fail
  <2>2. QED
    BY <1>2, <2>1, ClientIs DEF Closed, IsClient
<1>6. CASE ~(resent.copy >= MaxRetries)
  <2>1. client' = [client EXCEPT !.pending = {again}] /\ net' = net \cup {resent, again}
    BY <1>1, <1>6
  <2>2. /\ client'.phase = "wait_sh" /\ client'.incarnation = client.incarnation
        /\ client'.pending = {again}
    BY <2>1, ClientIs DEF IsClient
  <2> PICK c : c = client'
    OBVIOUS
  <2>3. Elsewhere(c, conn, net \cup {resent, again}, losses)
    BY <1>4, <2>2 DEF Elsewhere
  <2>4. QED
    BY <1>2, <2>1, <2>2, <2>3
<1>7. QED
  BY <1>5, <1>6

LEMMA ElsewhereStep ==
  ASSUME IInv, Calm, Forgiving, NoConnection, CommonMode = TRUE, client.phase = "wait_sh",
         Elsewhere(client, conn, net, losses), Next
  PROVE  Calm'
<1>1. ASSUME Elsewhere(client', conn', net', losses'), client'.phase = "wait_sh"
      PROVE  Calm'
  BY <1>1 DEF Calm, NothingLeft
<1>2. CASE \E p \in net : ClientReceive(p)
  BY <1>1, <1>2, ElsewhereClient
<1>3. CASE \E p \in net : ServerReceive(p)
  BY <1>1, <1>3, ElsewhereServer
<1>4. CASE HandshakeTimeout
  <2>1. CASE Elsewhere(client', conn', net', losses') /\ client'.phase = "wait_sh"
    BY <1>1, <2>1
  <2>2. CASE losses' # 0 /\ client'.phase = "closed" /\ client'.pending = {}
    BY <2>2 DEF Calm, NothingLeft
  <2>3. QED
    BY <1>4, <2>1, <2>2, ElsewhereTimeout
<1>5. CASE ServerRetransmit
  BY <1>1, <1>5, ElsewhereRetransmits
<1>6. ~\E p \in net : Lose(p)
  BY Lost DEF Elsewhere
<1>7. ~NewRequest /\ ~ResponseTimeout /\ ~GiveUp
  BY DEF NewRequest, Reuse, CloseTransport, Connect, ResponseTimeout, GiveUp
<1>8. QED
  BY <1>2, <1>3, <1>4, <1>5, <1>6, <1>7 DEF Next, Receive, ClientTimer

-----------------------------------------------------------------------------
(* Outside a handshake *)

AtRest == client.phase \in {"closed", "wait_response", "open"}

\* A step that begins no handshake, adds no INITIAL and leaves a closed client's
\* connection closed, or the datagram that closes it under way.
LEMMA RestKept ==
  ASSUME client'.phase \in {"closed", "wait_response", "open"},
         \A x \in client'.pending : x.type # "INITIAL",
         \/ \A x \in net' : x.type # "INITIAL"
         \/ client'.phase = "closed" /\ losses' # 0,
         client'.phase = "closed" => conn' = None \/ Close \in net' \/ losses' # 0
  PROVE  Calm'
BY DEF Calm, NothingLeft

LEMMA RestClient ==
  ASSUME IInv, NothingLeft, AtRest, NEW p \in net, ClientReceive(p)
  PROVE  Calm'
<1>1. /\ \A x \in client.pending : x.type # "INITIAL"
      /\ \/ \A x \in net : x.type # "INITIAL"
         \/ client.phase = "closed" /\ losses # 0
  BY DEF NothingLeft, AtRest
<1>2. ASSUME ReceiveResponse(p)
      PROVE  Calm'
  <2> PICK k : k = Ack(Server, p.pn)
    OBVIOUS
  <2>1. k.type # "INITIAL" /\ Close.type # "INITIAL"
    BY AckIs, CloseIs
  <2> client.phase = "wait_response"
    BY <1>2 DEF ReceiveResponse
  <2>2. \/ /\ client' = [client EXCEPT !.phase = "open", !.processed = @ \cup {p.pn}]
           /\ Deliver(p, {k})
        \/ client' = Closed(client) /\ Deliver(p, {k, Close})
    BY <1>2 DEF ReceiveResponse
  <2>3. CASE /\ client' = [client EXCEPT !.phase = "open", !.processed = @ \cup {p.pn}]
             /\ Deliver(p, {k})
    <3>1. client'.phase = "open" /\ client'.pending = client.pending
      BY <2>3, ClientIs DEF IsClient
    <3>2. net' \subseteq net \cup {k}
      BY <2>3 DEF Deliver
    <3>3. QED
      BY <1>1, <2>1, <3>1, <3>2, RestKept
  <2>4. CASE client' = Closed(client) /\ Deliver(p, {k, Close})
    <3>1. client'.phase = "closed" /\ client'.pending = {}
      BY <2>4, ClientIs DEF Closed, IsClient
    <3>2. net' \subseteq net \cup {k, Close} /\ Close \in net'
      BY <2>4 DEF Deliver
    <3>3. QED
      BY <1>1, <2>1, <3>1, <3>2, RestKept
  <2>5. QED
    BY <2>2, <2>3, <2>4
<1>3. ASSUME ReceiveResponseAgain(p)
      PROVE  Calm'
  <2>1. /\ net' \subseteq net \cup {Ack(Server, p.pn)} /\ client' = client
        /\ client.phase = "wait_response"
    BY <1>3 DEF ReceiveResponseAgain, Deliver
  <2>2. QED
    BY <1>1, <2>1, AckIs, RestKept
<1>4. ASSUME ClientReceiveAck(p)
      PROVE  Calm'
  <2>1. /\ net' \subseteq net /\ client.phase = "wait_response"
        /\ client' = [client EXCEPT !.pending = {q \in @ : q.pn # p.pn}]
    BY <1>4 DEF ClientReceiveAck, Deliver, Addressed, AtRest
  <2>2. client'.phase = "wait_response" /\ client'.pending \subseteq client.pending
    BY <2>1, ClientIs DEF IsClient
  <2>3. QED
    BY <1>1, <2>1, <2>2, RestKept
<1>5. ASSUME ClientIgnore(p)
      PROVE  Calm'
  <2>1. /\ net' \subseteq net /\ net \ {p} \subseteq net' /\ UNCHANGED <<client, conn, losses>>
        /\ p.dst # Server
    BY <1>5 DEF ClientIgnore, Deliver
  <2>2. Close \in net => Close \in net'
    BY <2>1, CloseIs
  <2>3. QED
    BY <1>1, <2>1, <2>2, RestKept DEF NothingLeft, AtRest
<1>6. ~ReceiveServerHello(p) /\ ~ReceiveServerFinished(p) /\ ~ReceiveUnexpected(p)
  BY DEF ReceiveServerHello, ReceiveServerFinished, ReceiveUnexpected, Handshakes, AtRest
<1>7. QED
  BY <1>2, <1>3, <1>4, <1>5, <1>6 DEF ClientReceive

\* A datagram that is no INITIAL, at the server.
LEMMA ServerAnswers ==
  ASSUME IInv, NothingLeft, AtRest, NEW p \in net, ServerReceive(p),
         \A x \in net \cup client.pending : x.type # "INITIAL"
  PROVE  Calm'
<1>1. ~ReceiveInitial(p) /\ ~ResendServerHello(p)
  BY DEF ReceiveInitial, ResendServerHello, Arrives
<1>2. /\ UNCHANGED <<client, losses>>
      /\ \E ps : Deliver(p, ps) /\ \A x \in ps : x.type # "INITIAL"
  BY <1>1
  DEF ServerReceive, ReceiveClientKeyExchange, PoisonTranscript, ResendServerFinished,
      ReceiveClientFinished, Serve, ServeRaises, AcknowledgeOnly, ServerReceiveAck,
      ReceiveClose, ServerIgnore, Ack, ToPeer, Datagram
<1>3. net \ {p} \subseteq net' /\ \A x \in net' : x.type # "INITIAL"
  BY <1>2 DEF Deliver
<1>4. ASSUME conn = None \/ Close \in net
      PROVE  conn' = None \/ Close \in net'
  <2>1. CASE conn = None
    BY <1>1, <2>1
    DEF ServerReceive, ReceiveClientKeyExchange, PoisonTranscript, ResendServerFinished,
        ReceiveClientFinished, Serve, ServeRaises, AcknowledgeOnly, ServerReceiveAck,
        ReceiveClose, ServerIgnore, InPhase
  <2>2. CASE Close \in net /\ conn # None
    <3>1. CASE p = Close
      <4>1. p.type = "CONNECTION_CLOSE"
        BY <3>1, CloseIs
      <4>2. ReceiveClose(p)
        BY <1>1, <2>2, <4>1
        DEF ServerReceive, ReceiveClientKeyExchange, PoisonTranscript, ResendServerFinished,
            ReceiveClientFinished, Serve, ServeRaises, AcknowledgeOnly, ServerReceiveAck,
            ServerIgnore, InPhase, Arrives
      <4>3. QED
        BY <4>2 DEF ReceiveClose
    <3>2. CASE p # Close
      BY <1>3, <2>2, <3>2
    <3>3. QED
      BY <3>1, <3>2
  <2>3. QED
    BY <1>4, <2>1, <2>2
<1>5. QED
  BY <1>2, <1>3, <1>4, RestKept DEF NothingLeft, AtRest

LEMMA RestServer ==
  ASSUME IInv, NothingLeft, AtRest, NEW p \in net, ServerReceive(p)
  PROVE  Calm'
<1>1. \/ \A x \in net \cup client.pending : x.type # "INITIAL"
      \/ /\ client.phase = "closed" /\ losses # 0
         /\ \A x \in client.pending : x.type # "INITIAL"
  BY DEF NothingLeft, AtRest
<1>2. CASE /\ client.phase = "closed" /\ losses # 0
           /\ \A x \in client.pending : x.type # "INITIAL"
  <2>1. UNCHANGED <<client, losses>>
    BY DEF ServerReceive, ReceiveInitial, ResendServerHello, ReceiveClientKeyExchange,
           PoisonTranscript, ResendServerFinished, ReceiveClientFinished, Serve, ServeRaises,
           AcknowledgeOnly, ServerReceiveAck, ReceiveClose, ServerIgnore
  <2>2. QED
    BY <1>2, <2>1, RestKept
<1>3. CASE \A x \in net \cup client.pending : x.type # "INITIAL"
  BY <1>3, ServerAnswers
<1>4. QED
  BY <1>1, <1>2, <1>3


LEMMA RestOther ==
  ASSUME IInv, NothingLeft, AtRest, Forgiving,
         \/ NewRequest \/ ResponseTimeout \/ GiveUp \/ ServerRetransmit
         \/ \E p \in net : Lose(p)
  PROVE  Calm'
<1>1. /\ \A x \in client.pending : x.type # "INITIAL"
      /\ \/ \A x \in net : x.type # "INITIAL"
         \/ client.phase = "closed" /\ losses # 0
  BY DEF NothingLeft, AtRest
<1>2. ASSUME NEW keep \in BOOLEAN, Connect(keep)
      PROVE  Calm'
  <2> DEFINE i == client.incarnation + 1
             p == ToServer("INITIAL", client.pn, ClientHello(i))
             c == [client EXCEPT
                     !.phase = "wait_sh", !.incarnation = i, !.pn = @ + 1,
                     !.transcript = <<ClientHello(i)>>, !.pending = {p},
                     !.request = client.request + 1, !.keep_alive = keep]
  <2>1. client' = c /\ net' = net \cup {p} /\ UNCHANGED <<conn, losses>>
        /\ client.phase = "closed" /\ Quiet
    BY <1>2 DEF Connect
  <2>2. net = {}
    BY <2>1, PromptQuiet
  <2>3. conn = None \/ losses # 0
    BY <2>1, <2>2 DEF NothingLeft
  <2>4. /\ p.type = "INITIAL" /\ p.dst = Server /\ p.pn = client.pn
        /\ p.body = ClientHello(i)
    BY DEF ToServer, Datagram
  <2>5. /\ c.phase = "wait_sh" /\ c.incarnation = i /\ c.pn = client.pn + 1
        /\ c.pending = {p}
    BY ClientIs DEF IsClient
  <2> HIDE DEF c, p
  <2>6. IsLast(p.pn, c)
    BY <2>4, <2>5, ClientIs DEF IsLast
  <2>7. CASE conn = None
    <3>1. Opening(c, {p})
      BY <2>4, <2>5, <2>6 DEF Opening
    <3>2. QED
      BY <2>1, <2>2, <2>5, <2>7, <3>1 DEF Calm, NothingLeft
  <2>8. CASE conn # None /\ losses # 0
    <3>1. conn.peer \in 1..client.incarnation
      BY <2>8 DEF IInv, ServerFine, ConnectionFine
    <3>2. conn.peer # i
      BY <3>1, ClientIs
    <3>3. Elsewhere(c, conn, {p}, losses)
      BY <2>4, <2>5, <2>8, <3>2 DEF Elsewhere
    <3>4. QED
      BY <2>1, <2>2, <2>5, <3>3 DEF Calm, NothingLeft
  <2>9. QED
    BY <2>3, <2>7, <2>8
<1>3. ASSUME Reuse
      PROVE  Calm'
  <2>1. PICK q : /\ q.type = "APP_DATA" /\ net' = net \cup {q}
                 /\ client' = [client EXCEPT !.phase = "wait_response", !.pn = @ + 1,
                                             !.pending = @ \cup {q},
                                             !.request = client.request + 1]
                 /\ client.phase = "open"
    BY <1>3 DEF Reuse, SendApplication, ToServer, Datagram
  <2>2. client'.phase = "wait_response" /\ client'.pending = client.pending \cup {q}
    BY <2>1, ClientIs DEF IsClient
  <2>3. QED
    BY <1>1, <2>1, <2>2, RestKept
<1>4. ASSUME CloseTransport \/ GiveUp
      PROVE  Calm'
  <2>1. client' = Closed(client) /\ net' = net \cup {Close} /\ client.phase # "closed"
    BY <1>4 DEF CloseTransport, GiveUp, Fail
  <2>2. client'.phase = "closed" /\ client'.pending = {}
    BY <2>1, ClientIs DEF Closed, IsClient
  <2>3. QED
    BY <1>1, <2>1, <2>2, CloseIs, RestKept
<1>5. ASSUME ResponseTimeout
      PROVE  Calm'
  <2> DEFINE expired == {p \in client.pending : p.copy < MaxRetries}
             resent == {Again(p, 1) : p \in expired}
  <2>1. /\ client' = [client EXCEPT !.pending = (@ \ expired) \cup resent]
        /\ net' = net \cup resent /\ client.phase = "wait_response"
    BY <1>5 DEF ResponseTimeout
  <2>2. \A x \in client.pending : IsDatagram(x)
    BY DEF IInv, MessagesFine, Sending, Out
  <2>3. \A x \in resent : x.type # "INITIAL"
    BY <1>1, <2>2, AgainIs
  <2> HIDE DEF expired, resent
  <2>4. client'.phase = "wait_response" /\ client'.pending \subseteq client.pending \cup resent
    BY <2>1, ClientIs DEF IsClient
  <2>5. QED
    BY <1>1, <2>1, <2>3, <2>4, RestKept
<1>6. ASSUME ServerRetransmit
      PROVE  Calm'
  <2>1. PICK q \in conn.sent : net' = net \cup {Again(q, 1)} /\ conn # None
    BY <1>6 DEF ServerRetransmit
  <2>2. UNCHANGED <<client, losses>>
    BY <1>6 DEF ServerRetransmit
  <2>3. q \in Sending /\ IsDatagram(q)
    BY <2>1 DEF IInv, MessagesFine, Sending, Out
  <2>4. Plausible(Content(q))
    BY <2>3 DEF IInv, MessagesFine, Wire
  <2>5. q.dst # Server
    BY <2>1, ClientIs, AddressAssumption DEF IInv, ServerFine, ConnectionFine
  <2>6. q.type # "INITIAL"
    BY <2>4, <2>5 DEF Plausible, Content
  <2>7. Again(q, 1).type # "INITIAL"
    BY <2>3, <2>6, AgainIs
  <2>8. client'.phase = "closed" => conn' = None \/ Close \in net' \/ losses' # 0
    BY <2>1, <2>2 DEF NothingLeft
  <2>9. QED
    BY <1>1, <2>1, <2>2, <2>7, <2>8, RestKept DEF AtRest
<1>7. ASSUME NEW p \in net, Lose(p)
      PROVE  Calm'
  <2>1. net' = net \ {p} /\ losses' # 0 /\ UNCHANGED client
    BY <1>7, Lost
  <2>2. QED
    BY <1>1, <2>1, RestKept DEF AtRest
<1>8. QED
  BY <1>2, <1>3, <1>4, <1>5, <1>6, <1>7 DEF NewRequest

-----------------------------------------------------------------------------
(* The invariant, and what follows *)

LEMMA CalmStep ==
  ASSUME IInv, Calm, Forgiving, NoConnection, CommonMode = TRUE, Next
  PROVE  Calm'
<1>1. CASE client.phase = "wait_sh"
  BY <1>1, OpeningStep, GreetingStep, ElsewhereStep DEF Calm
<1>2. CASE client.phase = "wait_sf"
  BY <1>2, ExchangingStep DEF Calm
<1>3. CASE AtRest
  <2>1. NothingLeft /\ ~HandshakeTimeout
    BY <1>3 DEF Calm, AtRest, HandshakeTimeout
  <2>2. QED
    BY <1>3, <2>1, RestClient, RestServer, RestOther DEF Next, Receive, ClientTimer
<1>4. QED
  BY <1>1, <1>2, <1>3, ClientIs DEF AtRest

LEMMA CalmExpects ==
  ASSUME IInv, Calm, NEW p \in net
  PROVE  ~ReceiveUnexpected(p)
<1>1. CASE client.phase = "wait_sh" /\ Opening(client, net)
  BY <1>1, ClientIs DEF Opening, ReceiveUnexpected, Handshakes, Addressed
<1>2. CASE client.phase = "wait_sh" /\ Greeting(client, conn, net, losses)
  <2>1. IsHello(p, client.incarnation, conn.eph) \/ p.type = "ACK"
    BY <1>2 DEF Greeting, IsAck
  <2>2. QED
    BY <1>2, <2>1, BodyTypes DEF IsHello, ReceiveUnexpected, Handshakes
<1>3. CASE client.phase = "wait_sf" /\ Exchanging(client, conn, net, losses)
  <2>1. ASSUME Handshakes(p, "wait_sf")
        PROVE  ServerFinishedVerifies(p.body, ClientSecret, client.transcript)
    BY <1>3, <2>1, ExchangingMessages, ClientIs
    DEF Handshakes, Addressed, IsExchange, IsAck
  <2>2. QED
    BY <1>3, <2>1 DEF ReceiveUnexpected, Handshakes
<1>4. CASE client.phase = "wait_sh" /\ Elsewhere(client, conn, net, losses)
  BY <1>4 DEF Elsewhere, ReceiveUnexpected, Handshakes, Addressed
<1>5. CASE client.phase \notin {"wait_sh", "wait_sf"}
  BY <1>5 DEF ReceiveUnexpected, Handshakes
<1>6. QED
  BY <1>1, <1>2, <1>3, <1>4, <1>5 DEF Calm

\* Without a common mode the server answers no ClientHello.
Silent == \A p \in net \cup client.pending : p.type = "HANDSHAKE" => p.dst = Server

LEMMA SilentStep ==
  ASSUME IInv, Silent, CommonMode = FALSE, Next
  PROVE  Silent'
<1>1. conn # None => conn.phase = "await_initial" /\ conn.sent = {}
  <2>1. ASSUME conn # None
        PROVE  conn.phase = "await_initial" /\ conn.sent = {}
    <3>1. ConnectionFine(conn)
      BY <2>1 DEF IInv, ServerFine
    <3>2. conn.phase = "await_initial" /\ conn.pn = 0
      BY <3>1 DEF ConnectionFine
    <3>3. \A q \in conn.sent : q.pn \in Nat /\ q.pn < 0
      BY <3>1, <3>2 DEF ConnectionFine
    <3>4. QED
      BY <3>2, <3>3
  <2>2. QED
    BY <2>1
<1>2. \A p, n : p \in client.pending =>
        /\ Again(p, n).type = p.type /\ Again(p, n).dst = p.dst
        /\ \A m : Again(Again(p, n), m).type = p.type /\ Again(Again(p, n), m).dst = p.dst
  <2>1. \A p \in client.pending : IsDatagram(p)
    BY DEF IInv, MessagesFine, Sending, Out
  <2>2. QED
    BY <2>1, AgainIs
<1>3. ASSUME NEW p \in net, ServerReceive(p)
      PROVE  Silent'
  <2>1. client' = client /\ \E ps : Deliver(p, ps) /\ \A x \in ps : x.type # "HANDSHAKE"
    BY <1>1, <1>3
    DEF ServerReceive, ReceiveInitial, ResendServerHello, ReceiveClientKeyExchange,
        PoisonTranscript, ResendServerFinished, ReceiveClientFinished, Serve, ServeRaises,
        AcknowledgeOnly, ServerReceiveAck, ReceiveClose, ServerIgnore, InPhase, Ack, Datagram
  <2>2. QED
    BY <2>1 DEF Silent, Deliver
<1>4. ASSUME NEW p \in net, ClientReceive(p)
      PROVE  Silent'
  <2>1. ~Handshakes(p, "wait_sh") /\ ~Handshakes(p, "wait_sf")
    BY ClientIs DEF Silent, Handshakes, Addressed
  <2>2. \E ps : Deliver(p, ps) /\ \A x \in ps : x.type # "HANDSHAKE"
    <3> PICK k, x : k = Ack(Server, p.pn) /\ x = Close
      OBVIOUS
    <3>1. Deliver(p, {}) \/ Deliver(p, {k}) \/ Deliver(p, {k, x})
      BY <1>4, <2>1
      DEF ClientReceive, ReceiveServerHello, ReceiveServerFinished, ReceiveUnexpected,
          ReceiveResponse, ReceiveResponseAgain, ClientReceiveAck, ClientIgnore
    <3>2. k.type # "HANDSHAKE" /\ x.type # "HANDSHAKE"
      BY AckIs, CloseIs
    <3>3. QED
      BY <3>1, <3>2
  <2>3. client'.pending \subseteq client.pending
    BY <1>4, <2>1, ClientIs
    DEF ClientReceive, ReceiveServerHello, ReceiveServerFinished, ReceiveUnexpected,
        ReceiveResponse, ReceiveResponseAgain, ClientReceiveAck, ClientIgnore, Closed, IsClient
  <2>4. QED
    BY <2>2, <2>3 DEF Silent, Deliver
<1>5. ASSUME NewRequest
      PROVE  Silent'
  <2>1. PICK p : /\ p.dst = Server /\ net' = net \cup {p}
                 /\ client'.pending \subseteq client.pending \cup {p}
    <3>1. CASE Reuse
      <4>1. PICK q : /\ q.dst = Server /\ net' = net \cup {q}
                     /\ client' = [client EXCEPT !.phase = "wait_response", !.pn = @ + 1,
                                                 !.pending = @ \cup {q},
                                                 !.request = client.request + 1]
        BY <3>1 DEF Reuse, SendApplication, ToServer, Datagram
      <4>2. QED
        BY <4>1, ClientIs DEF IsClient
    <3>2. ASSUME NEW keep \in BOOLEAN, Connect(keep)
          PROVE  \E q : /\ q.dst = Server /\ net' = net \cup {q}
                        /\ client'.pending \subseteq client.pending \cup {q}
      <4>1. PICK q : q = ToServer("INITIAL", client.pn, ClientHello(client.incarnation + 1))
        OBVIOUS
      <4>2. q.dst = Server
        BY <4>1 DEF ToServer, Datagram
      <4>3. net' = net \cup {q} /\ client'.pending = {q}
        BY <3>2, <4>1, ClientIs DEF Connect, IsClient
      <4>4. QED
        BY <4>2, <4>3
    <3>3. CASE CloseTransport
      <4>1. net' = net \cup {Close} /\ client'.pending = {}
        BY <3>3, ClientIs DEF CloseTransport, Closed, IsClient
      <4>2. QED
        BY <4>1, CloseIs
    <3>4. QED
      BY <1>5, <3>1, <3>2, <3>3 DEF NewRequest
  <2>2. QED
    BY <2>1 DEF Silent
<1>6. ASSUME NEW reason, NEW p \in client.pending, Fail(reason, {}) \/ Fail(reason, Retry(p))
      PROVE  Silent'
  <2>1. client'.pending = {} /\ net' \subseteq net \cup {Again(p, 1), Close}
    BY <1>6, ClientIs DEF Fail, Retry, Closed, IsClient
  <2>2. QED
    BY <1>2, <2>1, CloseIs DEF Silent
<1>7. ASSUME HandshakeTimeout
      PROVE  Silent'
  <2>1. PICK p \in client.pending, n \in {0, 1} :
          LET resent == Again(p, n)
          IN  IF resent.copy >= MaxRetries
                THEN Fail("budget exhausted", Retry(p))
                ELSE /\ client' = [client EXCEPT !.pending = {Again(resent, 1)}]
                     /\ net' = net \cup {resent, Again(resent, 1)}
    BY <1>7 DEF HandshakeTimeout
  <2>2. CASE Fail("budget exhausted", Retry(p))
    BY <1>6, <2>2
  <2>3. CASE /\ client' = [client EXCEPT !.pending = {Again(Again(p, n), 1)}]
             /\ net' = net \cup {Again(p, n), Again(Again(p, n), 1)}
    <3>1. client'.pending = {Again(Again(p, n), 1)}
      BY <2>3, ClientIs DEF IsClient
    <3>2. QED
      BY <1>2, <2>3, <3>1 DEF Silent
  <2>4. QED
    BY <2>1, <2>2, <2>3
<1>8. ASSUME ResponseTimeout
      PROVE  Silent'
  <2> DEFINE expired == {p \in client.pending : p.copy < MaxRetries}
             resent == {Again(p, 1) : p \in expired}
  <2>1. /\ client' = [client EXCEPT !.pending = (@ \ expired) \cup resent]
        /\ net' = net \cup resent
    BY <1>8 DEF ResponseTimeout
  <2>2. client'.pending \subseteq client.pending \cup resent
    BY <2>1, ClientIs DEF IsClient
  <2>3. \A x \in resent : x.type = "HANDSHAKE" => x.dst = Server
    BY <1>2 DEF Silent
  <2>4. QED
    BY <2>1, <2>2, <2>3 DEF Silent
<1>9. ASSUME GiveUp
      PROVE  Silent'
  <2>1. client' = Closed(client) /\ net' = net \cup {Close}
    BY <1>9 DEF GiveUp, Fail
  <2>2. client'.pending = {}
    BY <2>1, ClientIs DEF Closed, IsClient
  <2>3. QED
    BY <2>1, <2>2, CloseIs DEF Silent
<1>10. ~ServerRetransmit
  BY <1>1 DEF ServerRetransmit
<1>11. ASSUME NEW p \in net, Lose(p)
       PROVE  Silent'
  BY <1>11 DEF Lose, Silent
<1>12. QED
  BY <1>3, <1>4, <1>5, <1>7, <1>8, <1>9, <1>10, <1>11 DEF Next, Receive, ClientTimer

LEMMA SilentExpects ==
  ASSUME IInv, Silent, NEW p \in net
  PROVE  ~ReceiveUnexpected(p)
BY ClientIs DEF Silent, ReceiveUnexpected, Handshakes, Addressed

\* No other step fails a request for a handshake error.
LEMMA Undisturbed ==
  ASSUME IInv, HandshakeUndisturbed, \A p \in net : ~ReceiveUnexpected(p), [Next]_vars
  PROVE  HandshakeUndisturbed'
<1>1. DOMAIN caller = Request
  BY DEF IInv, CallersFine
<1>2. ASSUME NEW r, NEW outcome, outcome # <<"failed", "handshake error">>,
             caller' = [caller EXCEPT ![r] = outcome]
      PROVE  HandshakeUndisturbed'
  BY <1>1, <1>2 DEF HandshakeUndisturbed
<1>3. UNCHANGED caller => HandshakeUndisturbed'
  BY DEF HandshakeUndisturbed
<1>4. ASSUME NEW reason, reason # "handshake error", NEW ps, Fail(reason, ps)
      PROVE  HandshakeUndisturbed'
  BY <1>2, <1>4 DEF Fail
<1>5. ASSUME NEW p \in net, ClientReceive(p)
      PROVE  HandshakeUndisturbed'
  <2>1. CASE ReceiveResponse(p)
    <3>1. \/ caller' = [caller EXCEPT ![client.request] = <<"answered", p.body.data>>]
          \/ caller' = [caller EXCEPT ![client.request] = <<"failed", "protection error">>]
      BY <2>1 DEF ReceiveResponse
    <3>2. QED
      BY <1>2, <3>1
  <2>2. QED
    BY <1>3, <1>5, <2>1
    DEF ClientReceive, ReceiveServerHello, ReceiveServerFinished, ReceiveResponseAgain,
        ClientReceiveAck, ClientIgnore
<1>6. ASSUME NEW p \in net, ServerReceive(p)
      PROVE  UNCHANGED caller
  BY <1>6
  DEF ServerReceive, ReceiveInitial, ResendServerHello, ReceiveClientKeyExchange,
      PoisonTranscript, ResendServerFinished, ReceiveClientFinished, Serve, ServeRaises,
      AcknowledgeOnly, ServerReceiveAck, ReceiveClose, ServerIgnore
<1>7. ASSUME NewRequest
      PROVE  HandshakeUndisturbed'
  <2>1. \/ caller' = [caller EXCEPT ![client.request + 1] = <<"waiting">>]
        \/ UNCHANGED caller
    BY <1>7 DEF NewRequest, Reuse, CloseTransport, Connect
  <2>2. QED
    BY <1>2, <1>3, <2>1
<1>8. ASSUME HandshakeTimeout
      PROVE  HandshakeUndisturbed'
  <2>1. UNCHANGED caller \/ \E p : Fail("budget exhausted", Retry(p))
    BY <1>8 DEF HandshakeTimeout
  <2>2. QED
    BY <1>3, <1>4, <2>1
<1>9. GiveUp => HandshakeUndisturbed'
  BY <1>4 DEF GiveUp
<1>10. ResponseTimeout \/ ServerRetransmit \/ (\E p \in net : Lose(p)) \/ UNCHANGED vars
         => UNCHANGED caller
  BY DEF ResponseTimeout, ServerRetransmit, Lose, vars
<1>11. QED
  BY <1>3, <1>5, <1>6, <1>7, <1>8, <1>9, <1>10 DEF Next, Receive, ClientTimer

LEMMA AtFirst ==
  Init => Calm /\ Silent /\ HandshakeUndisturbed
BY DEF Init, ClientInit, Calm, NothingLeft, Silent, HandshakeUndisturbed

\* On a Prompt network that loses at most one datagram, which is no INITIAL, no
\* retransmission makes a handshake fail: what is sent again is never taken
\* for the next message (quic_client.py _transmit_with_retry, _recv_loop,
\* quic_server.py _handle_packet).
THEOREM HandshakesUndisturbed ==
  ASSUME Forgiving, NoConnection
  PROVE  Spec => []HandshakeUndisturbed
<1>1. CASE CommonMode = TRUE
  <2>1. IInv /\ Calm /\ [Next]_vars => Calm'
    <3>1. UNCHANGED vars /\ Calm => Calm'
      BY DEF vars, Calm, NothingLeft
    <3>2. QED
      BY <1>1, <3>1, CalmStep
  <2>2. IInv /\ Calm /\ HandshakeUndisturbed /\ [Next]_vars => HandshakeUndisturbed'
    BY CalmExpects, Undisturbed
  <2>3. QED
    BY <2>1, <2>2, AtFirst, Invariance, PTL DEF Spec
<1>2. CASE CommonMode = FALSE
  <2>1. IInv /\ Silent /\ [Next]_vars => Silent'
    <3>1. UNCHANGED vars /\ Silent => Silent'
      BY DEF vars, Silent
    <3>2. QED
      BY <1>2, <3>1, SilentStep
  <2>2. IInv /\ Silent /\ HandshakeUndisturbed /\ [Next]_vars => HandshakeUndisturbed'
    BY SilentExpects, Undisturbed
  <2>3. QED
    BY <2>1, <2>2, AtFirst, Invariance, PTL DEF Spec
<1>3. QED
  BY <1>1, <1>2, QuicAssumption
=============================================================================
