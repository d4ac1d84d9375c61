------------------------ MODULE QuicTransportProofs ------------------------
(***************************************************************************)
(* Proofs about QuicTransport, for any number of requests, retries, server *)
(* connections and losses, with a Prompt network or an arbitrary one: the  *)
(* types, that no nonce protects two plaintexts, that an established       *)
(* connection has its client's keys, that the transport implements         *)
(* RequestExchange and that no request runs after a later one.             *)
(*                                                                         *)
(* The argument is about what has been sent and may still come, however    *)
(* often: datagrams are told apart by all but the copy they are.           *)
(***************************************************************************)
EXTENDS QuicTransport, TLAPS, SequenceTheorems, FiniteSetTheorems

(* What may still arrive *)

Out(c, s) == net \cup c.pending \cup (IF s = None THEN {} ELSE s.sent)
Sending == Out(client, conn)

\* A datagram without its copy.
Content(p) == [dst |-> p.dst, type |-> p.type, pn |-> p.pn, body |-> p.body]
Wire == {Content(p) : p \in Sending}

FromClient(type) == {w \in Wire : w.dst = Server /\ w.type = type}
FromServer(type) == {w \in Wire : w.dst # Server /\ w.type = type}

IsDatagram(p) ==
  p = [dst |-> p.dst, type |-> p.type, pn |-> p.pn, copy |-> p.copy, body |-> p.body]

-----------------------------------------------------------------------------
(* The messages of a handshake of incarnation i with server connection e   *)

Exchanged(i, e) == ClientKeyExchange(i, ServerHello(e))
Shared(i, e) == Encapsulated(Exchanged(i, e))
Hellos(i, e) == <<ClientHello(i), ServerHello(e)>>
ServerMac(i, e) == ServerFinished(Shared(i, e), Hellos(i, e))
Upto3(i, e) == <<ClientHello(i), ServerHello(e), Exchanged(i, e)>>
Transcript(i, e) == <<ClientHello(i), ServerHello(e), Exchanged(i, e), ServerMac(i, e)>>
ClientMac(i, e) == ClientFinished(Shared(i, e), Transcript(i, e))

-----------------------------------------------------------------------------
(* The inductive invariant *)

InSession == client.phase \in {"wait_response", "open"}
Handshaking == client.phase \in {"wait_sh", "wait_sf"}

\* Incarnation i and server connection e have exchanged hellos.
Met(i, e) ==
  /\ i \in 1..client.incarnation /\ e \in 1..opened
  /\ conn # None /\ conn.eph = e => conn.peer = i

\* Incarnation i has sent its Finished to server connection e.
Finished(i, e) ==
  /\ i \in 1..client.incarnation /\ e \in 1..opened
  /\ i = client.incarnation => ~Handshaking /\ (InSession => client.keys = SessionKeys(i, e))

IsClient(c) ==
  c = [phase |-> c.phase, incarnation |-> c.incarnation, pn |-> c.pn,
       transcript |-> c.transcript, keys |-> c.keys, pending |-> c.pending,
       processed |-> c.processed, request |-> c.request, keep_alive |-> c.keep_alive]

IsConnection(c) ==
  c = [peer |-> c.peer, eph |-> c.eph, phase |-> c.phase, pn |-> c.pn,
       transcript |-> c.transcript, secret |-> c.secret, keys |-> c.keys,
       sent |-> c.sent, processed |-> c.processed]

ClientFine ==
  /\ IsClient(client)
  /\ client.incarnation \in Nat /\ client.request \in 0..MaxRequests
  /\ client.incarnation <= client.request
  /\ client.pn \in Nat
  /\ client.phase \in {"closed", "wait_sh", "wait_sf", "wait_response", "open"}
  /\ client.phase # "closed" => client.incarnation >= 1
  /\ client.phase = "closed" => client.transcript = <<>>
  /\ client.phase = "wait_sh" => client.transcript = <<ClientHello(client.incarnation)>>
  /\ client.phase = "wait_sf" =>
       \E e \in 1..opened : /\ Met(client.incarnation, e)
                            /\ client.transcript = Upto3(client.incarnation, e)
  /\ InSession =>
       \E e \in 1..opened : /\ Met(client.incarnation, e)
                            /\ client.keys = SessionKeys(client.incarnation, e)
                            /\ client.transcript = Transcript(client.incarnation, e)
  /\ ~InSession => client.keys = None
  /\ Handshaking => \A p, q \in client.pending : p = q

\* Only a datagram that is no ClientKeyExchange spoils a transcript, and then
\* it stands where ClientKeyExchange should.
Greeted(c) ==
  \/ c.transcript = Hellos(c.peer, c.eph)
  \/ \E m : /\ m.type # "ClientKeyExchange"
            /\ c.transcript = <<ClientHello(c.peer), ServerHello(c.eph), m>>

KeyExchanged(c) ==
  \E cke :
    /\ c.secret = Decapsulate(c.eph, cke)
    /\ LET sf == ServerFinished(c.secret, Hellos(c.peer, c.eph))
       IN  \/ c.transcript = <<ClientHello(c.peer), ServerHello(c.eph), cke, sf>>
           \/ \E m : /\ m.type # "ClientKeyExchange"
                     /\ c.transcript = <<ClientHello(c.peer), ServerHello(c.eph), m, cke, sf>>

ConnectionFine(c) ==
  /\ IsConnection(c)
  /\ c.eph = opened /\ opened >= 1
  /\ c.peer \in 1..client.incarnation
  /\ c.pn \in 0..MaxServerPackets
  /\ \A q \in c.sent : q.dst = c.peer /\ q.pn \in Nat /\ q.pn < c.pn
  /\ CommonMode = (c.phase # "await_initial")
  /\ c.phase \in {"await_initial", "await_cke", "await_cf", "established"}
  /\ c.phase = "await_initial" => c.pn = 0
  /\ c.phase = "await_cke" => Greeted(c)
  /\ c.phase = "await_cf" => KeyExchanged(c)
  /\ c.phase = "established" =>
       /\ c.keys = SessionKeys(c.peer, c.eph)
       /\ c.transcript[1] = ClientHello(c.peer)
       /\ Finished(c.peer, c.eph)
  /\ c.phase # "established" => c.keys = None

ServerFine ==
  /\ opened \in 0..MaxConnections
  /\ conn # None => ConnectionFine(conn)

\* What a datagram may say.
Plausible(w) ==
  /\ w.type = "INITIAL" =>
       \E i \in 1..client.incarnation : w.dst = Server /\ w.body = ClientHello(i)
  /\ w.type = "HANDSHAKE" /\ w.dst = Server =>
       \E i, e : /\ Met(i, e)
                 /\ \/ w.body = Exchanged(i, e)
                    \/ w.body = ClientMac(i, e) /\ Finished(i, e)
  /\ w.type = "HANDSHAKE" /\ w.dst # Server =>
       \/ w.body.type = "ServerFinished"
       \/ \E e : w.body = ServerHello(e) /\ Met(w.dst, e)
  /\ w.type = "APP_DATA" =>
       /\ \E i, e : /\ w.body.keys = SessionKeys(i, e) /\ Met(i, e) /\ Finished(i, e)
                    /\ w.dst \in {i, Server}
       /\ w.body.data \in 1..client.request
       /\ w.pn \in Nat

MessagesFine ==
  /\ \A p \in Sending : IsDatagram(p)
  /\ \A w \in Wire : Plausible(w)

\* Request r is not the one that waits for its response.
Past(r) == r < client.request \/ client.phase = "open"

\* The client's numbers and requests: each is used once, and a request made
\* after another one on a session finds that one executed.
RequestsFine ==
  /\ \A w \in FromClient("APP_DATA") :
       /\ w.pn < client.pn
       /\ InSession /\ client.keys = w.body.keys /\ Past(w.body.data) => executed[w.body.data] = 1
       /\ Handshaking => w.body.data < client.request
  /\ \A v, w \in FromClient("APP_DATA") :
       /\ v.pn = w.pn => v.body = w.body
       /\ v.body.data = w.body.data => v.pn = w.pn
       /\ v.body.keys = w.body.keys /\ v.body.data < w.body.data => executed[v.body.data] = 1

\* The server's connection knows which of the requests made over it have been
\* executed, and none of them has been overtaken.
ServedFine ==
  conn # None =>
    \A w \in FromClient("APP_DATA") :
      w.body.keys = SessionKeys(conn.peer, conn.eph) =>
        /\ executed[w.body.data] = 1 => conn.phase = "established" /\ w.pn \in conn.processed
        /\ \A later \in Request : later > w.body.data /\ executed[later] = 1
                                    => executed[w.body.data] = 1

\* A session's responses are to executed requests, one to each, and the client
\* has processed all but the one it waits for.
ResponsesFine ==
  /\ \A w \in FromServer("APP_DATA") :
       /\ executed[w.body.data] = 1
       /\ conn # None /\ w.body.keys = SessionKeys(conn.peer, conn.eph) => w.pn < conn.pn
       /\ InSession /\ client.keys = w.body.keys /\ Past(w.body.data) => w.pn \in client.processed
  /\ \A v, w \in FromServer("APP_DATA") :
       v.body.keys = w.body.keys =>
         /\ v.pn = w.pn => v.body = w.body
         /\ v.body.data = w.body.data => v.pn = w.pn

CallersFine ==
  /\ caller \in [Request -> {<<"idle">>, <<"waiting">>}
                             \cup ({"answered"} \X Request) \cup ({"failed"} \X Reason)]
  /\ executed \in [Request -> {0, 1}]
  /\ \A r \in Request : caller[r] = <<"idle">> <=> r > client.request
  /\ \A r \in Request :
       executed[r] = 1 => r <= client.request /\ (Handshaking => r < client.request)
  /\ \A r \in Request : caller[r][1] = "answered" => caller[r] = <<"answered", r>> /\ executed[r] = 1
  /\ client.phase \notin {"closed", "open"} =>
       client.request \in Request /\ caller[client.request] = <<"waiting">>

IInv ==
  /\ ClientFine /\ ServerFine /\ MessagesFine
  /\ RequestsFine /\ ServedFine /\ ResponsesFine /\ CallersFine /\ losses \in 0..MaxLoss

-----------------------------------------------------------------------------
(* Sequences and messages *)

LEMMA Joined ==
  ASSUME NEW S, NEW s \in Seq(S), NEW t \in Seq(S), NEW u \in Seq(S),
         Len(u) = Len(s) + Len(t), \A i \in 1..Len(s) : u[i] = s[i],
         \A i \in 1..Len(t) : u[Len(s) + i] = t[i]
  PROVE  s \o t = u
<1>1. s \o t \in Seq(S) /\ Len(s \o t) = Len(u)
  OBVIOUS
<1>2. \A i \in 1..Len(u) : (s \o t)[i] = u[i]
  <2> SUFFICES ASSUME NEW i \in 1..Len(u) PROVE (s \o t)[i] = u[i]
    OBVIOUS
  <2>1. CASE i <= Len(s)
    BY <2>1
  <2>2. CASE i > Len(s)
    <3>1. i - Len(s) \in 1..Len(t) /\ (s \o t)[i] = t[i - Len(s)]
      BY <2>2
    <3>2. Len(s) + (i - Len(s)) = i
      OBVIOUS
    <3>3. QED
      BY <3>1, <3>2
  <2>3. QED
    BY <2>1, <2>2
<1>3. QED
  BY <1>1, <1>2, SeqEqual

LEMMA Front ==
  ASSUME NEW S, NEW s \in Seq(S), NEW u \in Seq(S), Len(u) <= Len(s),
         \A i \in 1..Len(u) : s[i] = u[i]
  PROVE  SubSeq(s, 1, Len(u)) = u
<1>1. SubSeq(s, 1, Len(u)) \in Seq(S) /\ Len(SubSeq(s, 1, Len(u))) = Len(u)
  OBVIOUS
<1>2. \A i \in 1..Len(u) : SubSeq(s, 1, Len(u))[i] = u[i]
  OBVIOUS
<1>3. QED
  BY <1>1, <1>2, SeqEqual

LEMMA Appended ==
  ASSUME NEW S, NEW s \in Seq(S), NEW x \in S, NEW u \in Seq(S),
         Len(u) = Len(s) + 1, \A i \in 1..Len(s) : u[i] = s[i], u[Len(s) + 1] = x
  PROVE  Append(s, x) = u
<1>1. Append(s, x) \in Seq(S)
  BY AppendProperties
<1>2. Len(Append(s, x)) = Len(u)
  BY AppendProperties
<1>3. \A i \in 1..Len(s) : Append(s, x)[i] = u[i]
  BY AppendProperties
<1>4. Append(s, x)[Len(s) + 1] = x
  BY AppendProperties
<1>5. \A i \in 1..Len(u) : i \in 1..Len(s) \/ i = Len(s) + 1
  OBVIOUS
<1>6. \A i \in 1..Len(u) : Append(s, x)[i] = u[i]
  BY <1>3, <1>4, <1>5
<1>7. QED
  BY <1>1, <1>2, <1>6, SeqEqual

\* The transcripts that occur: how they grow.
LEMMA JoinOne ==
  ASSUME NEW a, NEW b, NEW c
  PROVE  <<a>> \o <<b, c>> = <<a, b, c>>
<1> DEFINE S == {a, b, c}
           s == <<a>>
           t == <<b, c>>
           u == <<a, b, c>>
<1>1. /\ s \in Seq(S) /\ t \in Seq(S) /\ u \in Seq(S)
      /\ Len(s) = 1 /\ Len(t) = 2 /\ Len(u) = 3
  OBVIOUS
<1>2. /\ u[1] = s[1]
      /\ u[2] = t[1] /\ u[3] = t[2]
  OBVIOUS
<1> HIDE DEF S, s, t, u
<1>3. \A i \in 1..Len(s) : u[i] = s[i]
  BY <1>1, <1>2
<1>4. \A i \in 1..Len(t) : u[Len(s) + i] = t[i]
  <2> SUFFICES ASSUME NEW i \in 1..2 PROVE u[1 + i] = t[i]
    BY <1>1
  <2>1. i = 1 \/ i = 2
    OBVIOUS
  <2>2. QED
    BY <1>2, <2>1
<1>5. Len(u) = Len(s) + Len(t)
  BY <1>1
<1>6. s \o t = u
  BY <1>1, <1>3, <1>4, <1>5, Joined
<1>7. QED
  BY <1>6 DEF s, t, u

LEMMA JoinTwo ==
  ASSUME NEW a, NEW b, NEW c, NEW d
  PROVE  <<a, b>> \o <<c, d>> = <<a, b, c, d>>
<1> DEFINE S == {a, b, c, d}
           s == <<a, b>>
           t == <<c, d>>
           u == <<a, b, c, d>>
<1>1. /\ s \in Seq(S) /\ t \in Seq(S) /\ u \in Seq(S)
      /\ Len(s) = 2 /\ Len(t) = 2 /\ Len(u) = 4
  OBVIOUS
<1>2. /\ u[1] = s[1] /\ u[2] = s[2]
      /\ u[3] = t[1] /\ u[4] = t[2]
  OBVIOUS
<1> HIDE DEF S, s, t, u
<1>3. \A i \in 1..Len(s) : u[i] = s[i]
  BY <1>1, <1>2
<1>4. \A i \in 1..Len(t) : u[Len(s) + i] = t[i]
  <2> SUFFICES ASSUME NEW i \in 1..2 PROVE u[2 + i] = t[i]
    BY <1>1
  <2>1. i = 1 \/ i = 2
    OBVIOUS
  <2>2. QED
    BY <1>2, <2>1
<1>5. Len(u) = Len(s) + Len(t)
  BY <1>1
<1>6. s \o t = u
  BY <1>1, <1>3, <1>4, <1>5, Joined
<1>7. QED
  BY <1>6 DEF s, t, u

LEMMA JoinThree ==
  ASSUME NEW a, NEW b, NEW c, NEW d, NEW e
  PROVE  <<a, b, c>> \o <<d, e>> = <<a, b, c, d, e>>
<1> DEFINE S == {a, b, c, d, e}
           s == <<a, b, c>>
           t == <<d, e>>
           u == <<a, b, c, d, e>>
<1>1. /\ s \in Seq(S) /\ t \in Seq(S) /\ u \in Seq(S)
      /\ Len(s) = 3 /\ Len(t) = 2 /\ Len(u) = 5
  OBVIOUS
<1>2. /\ u[1] = s[1] /\ u[2] = s[2] /\ u[3] = s[3]
      /\ u[4] = t[1] /\ u[5] = t[2]
  OBVIOUS
<1> HIDE DEF S, s, t, u
<1>3. \A i \in 1..Len(s) : u[i] = s[i]
  BY <1>1, <1>2
<1>4. \A i \in 1..Len(t) : u[Len(s) + i] = t[i]
  <2> SUFFICES ASSUME NEW i \in 1..2 PROVE u[3 + i] = t[i]
    BY <1>1
  <2>1. i = 1 \/ i = 2
    OBVIOUS
  <2>2. QED
    BY <1>2, <2>1
<1>5. Len(u) = Len(s) + Len(t)
  BY <1>1
<1>6. s \o t = u
  BY <1>1, <1>3, <1>4, <1>5, Joined
<1>7. QED
  BY <1>6 DEF s, t, u

LEMMA AppendToTwo ==
  ASSUME NEW a, NEW b, NEW c
  PROVE  Append(<<a, b>>, c) = <<a, b, c>>
<1> DEFINE S == {a, b, c}
           s == <<a, b>>
           u == <<a, b, c>>
<1>1. s \in Seq(S) /\ u \in Seq(S) /\ c \in S /\ Len(s) = 2 /\ Len(u) = 3
  OBVIOUS
<1>2. u[1] = s[1] /\ u[2] = s[2] /\ u[3] = c
  OBVIOUS
<1> HIDE DEF S, s, u
<1>3. \A i \in 1..Len(s) : u[i] = s[i]
  <2> SUFFICES ASSUME NEW i \in 1..2 PROVE u[i] = s[i]
    BY <1>1
  <2>1. i = 1 \/ i = 2
    OBVIOUS
  <2>2. QED
    BY <1>2, <2>1
<1>4. Len(u) = Len(s) + 1 /\ u[Len(s) + 1] = c
  BY <1>1, <1>2
<1>5. Append(s, c) = u
  BY <1>1, <1>3, <1>4, Appended
<1>6. QED
  BY <1>5 DEF s, u

LEMMA AppendToThree ==
  ASSUME NEW a, NEW b, NEW c, NEW d
  PROVE  Append(<<a, b, c>>, d) = <<a, b, c, d>>
<1> DEFINE S == {a, b, c, d}
           s == <<a, b, c>>
           u == <<a, b, c, d>>
<1>1. s \in Seq(S) /\ u \in Seq(S) /\ d \in S /\ Len(s) = 3 /\ Len(u) = 4
  OBVIOUS
<1>2. u[1] = s[1] /\ u[2] = s[2] /\ u[3] = s[3] /\ u[4] = d
  OBVIOUS
<1> HIDE DEF S, s, u
<1>3. \A i \in 1..Len(s) : u[i] = s[i]
  <2> SUFFICES ASSUME NEW i \in 1..3 PROVE u[i] = s[i]
    BY <1>1
  <2>1. i = 1 \/ i = 2 \/ i = 3
    OBVIOUS
  <2>2. QED
    BY <1>2, <2>1
<1>4. Len(u) = Len(s) + 1 /\ u[Len(s) + 1] = d
  BY <1>1, <1>2
<1>5. Append(s, d) = u
  BY <1>1, <1>3, <1>4, Appended
<1>6. QED
  BY <1>5 DEF s, u

\* What the MACs and the keys are computed from.
LEMMA Covered ==
  ASSUME NEW a, NEW b, NEW c, NEW d, NEW e
  PROVE  /\ T1(<<a, b>>) = <<a, b>> /\ T1(<<a, b, c>>) = <<a, b>>
         /\ T2(<<a, b, c, d>>) = <<a, b, c>> /\ T2(<<a, b, c, d, e>>) = <<a, b, c>>
         /\ T3(<<a, b, c, d>>) = <<a, b, c, d>>
<1> DEFINE S == {a, b, c, d, e}
           v2 == <<a, b>>
           v3 == <<a, b, c>>
           v4 == <<a, b, c, d>>
           v5 == <<a, b, c, d, e>>
<1>1. /\ v2 \in Seq(S) /\ v3 \in Seq(S) /\ v4 \in Seq(S) /\ v5 \in Seq(S)
      /\ Len(v2) = 2 /\ Len(v3) = 3 /\ Len(v4) = 4 /\ Len(v5) = 5
  OBVIOUS
<1>2. /\ v3[1] = v2[1] /\ v3[2] = v2[2]
      /\ v4[1] = v3[1] /\ v4[2] = v3[2] /\ v4[3] = v3[3]
      /\ v5[1] = v3[1] /\ v5[2] = v3[2] /\ v5[3] = v3[3]
  OBVIOUS
<1> HIDE DEF S, v2, v3, v4, v5
<1>3. SubSeq(v2, 1, Len(v2)) = v2 /\ SubSeq(v4, 1, Len(v4)) = v4
  BY <1>1, Front
<1>4. SubSeq(v3, 1, Len(v2)) = v2
  <2>1. \A i \in 1..Len(v2) : v3[i] = v2[i]
    BY <1>1, <1>2
  <2>2. QED
    BY <1>1, <2>1, Front
<1>5. SubSeq(v4, 1, Len(v3)) = v3
  <2>1. \A i \in 1..Len(v3) : v4[i] = v3[i]
    BY <1>1, <1>2
  <2>2. QED
    BY <1>1, <2>1, Front
<1>6. SubSeq(v5, 1, Len(v3)) = v3
  <2>1. \A i \in 1..Len(v3) : v5[i] = v3[i]
    BY <1>1, <1>2
  <2>2. QED
    BY <1>1, <2>1, Front
<1>7. T1(v2) = v2 /\ T1(v3) = v2 /\ T2(v4) = v3 /\ T2(v5) = v3 /\ T3(v4) = v4
  BY <1>1, <1>3, <1>4, <1>5, <1>6 DEF T1, T2, T3
<1>8. QED
  BY <1>7 DEF v2, v3, v4, v5

LEMMA KeysAre ==
  ASSUME NEW i, NEW e
  PROVE  SessionKeys(i, e) = ApplicationKeys(Shared(i, e), Transcript(i, e))
<1> DEFINE cke == Exchanged(i, e)
           sf == ServerMac(i, e)
<1>1. <<ClientHello(i), ServerHello(e)>> \o <<cke, sf>> = <<ClientHello(i), ServerHello(e), cke, sf>>
  BY JoinTwo
<1>2. SessionKeys(i, e) = ApplicationKeys(Shared(i, e), <<ClientHello(i), ServerHello(e)>> \o <<cke, sf>>)
  BY DEF SessionKeys, Shared, Exchanged, ServerMac, Hellos
<1>3. QED
  BY <1>1, <1>2 DEF Transcript

\* The keys tell which handshake they come from.
LEMMA KeysTell ==
  ASSUME NEW i, NEW e, NEW j, NEW f, SessionKeys(i, e) = SessionKeys(j, f)
  PROVE  i = j /\ e = f
<1>1. Shared(i, e) = Shared(j, f)
  BY KeysAre DEF ApplicationKeys
<1>2. QED
  BY <1>1 DEF Shared, Encapsulated, Decapsulate, Exchanged, ClientKeyExchange, ServerHello

LEMMA ClientDerives ==
  ASSUME NEW i, NEW e, NEW m,
         ServerFinishedVerifies(m, Encapsulated(Upto3(i, e)[3]), Upto3(i, e))
  PROVE  /\ m = ServerMac(i, e) /\ Encapsulated(Upto3(i, e)[3]) = Shared(i, e)
         /\ Append(Upto3(i, e), m) = Transcript(i, e)
<1>1. Encapsulated(Upto3(i, e)[3]) = Shared(i, e)
  BY DEF Upto3, Shared
<1>2. T1(Upto3(i, e)) = Hellos(i, e) /\ T1(Hellos(i, e)) = Hellos(i, e)
  BY Covered DEF Upto3, Hellos
<1>3. m = ServerMac(i, e)
  BY <1>1, <1>2 DEF ServerFinishedVerifies, ServerMac, ServerFinished
<1>4. Append(Upto3(i, e), m) = Transcript(i, e)
  BY <1>3, AppendToThree DEF Upto3, Transcript
<1>5. QED
  BY <1>1, <1>3, <1>4

\* A ClientFinished that verifies comes from the server's own handshake, whose
\* transcript no stray datagram has spoilt.
LEMMA ServerDerives ==
  ASSUME NEW c, KeyExchanged(c), NEW i, NEW e,
         ClientFinishedVerifies(ClientMac(i, e), c.secret, c.transcript)
  PROVE  /\ i = c.peer /\ e = c.eph
         /\ ApplicationKeys(c.secret, c.transcript) = SessionKeys(i, e)
         /\ c.transcript = Transcript(i, e)
<1>1. c.secret = Shared(i, e) /\ T2(c.transcript) = T2(Transcript(i, e))
  BY DEF ClientFinishedVerifies, ClientMac, ClientFinished
<1>2. T2(Transcript(i, e)) = Upto3(i, e)
  BY Covered DEF Transcript, Upto3
<1>3. PICK cke :
        /\ c.secret = Decapsulate(c.eph, cke)
        /\ LET sf == ServerFinished(c.secret, Hellos(c.peer, c.eph))
           IN  \/ c.transcript = <<ClientHello(c.peer), ServerHello(c.eph), cke, sf>>
               \/ \E m : /\ m.type # "ClientKeyExchange"
                         /\ c.transcript = <<ClientHello(c.peer), ServerHello(c.eph), m, cke, sf>>
  BY DEF KeyExchanged
<1>4. cke = Exchanged(i, e) /\ c.eph = e
  BY <1>1, <1>3 DEF Shared, Encapsulated, Decapsulate, Exchanged, ClientKeyExchange, ServerHello
<1> DEFINE sf == ServerFinished(c.secret, Hellos(c.peer, c.eph))
<1>5. ASSUME NEW m, m.type # "ClientKeyExchange",
             c.transcript = <<ClientHello(c.peer), ServerHello(c.eph), m, cke, sf>>
      PROVE  FALSE
  <2>1. T2(c.transcript) = <<ClientHello(c.peer), ServerHello(c.eph), m>>
    BY <1>5, Covered
  <2>2. m = Exchanged(i, e)
    BY <1>1, <1>2, <2>1 DEF Upto3
  <2>3. QED
    BY <1>5, <2>2 DEF Exchanged, ClientKeyExchange
<1>6. c.transcript = <<ClientHello(c.peer), ServerHello(c.eph), cke, sf>>
  BY <1>3, <1>5
<1>7. i = c.peer
  <2>1. T2(c.transcript) = <<ClientHello(c.peer), ServerHello(c.eph), cke>>
    BY <1>6, Covered
  <2>2. ClientHello(c.peer) = ClientHello(i)
    BY <1>1, <1>2, <2>1 DEF Upto3
  <2>3. QED
    BY <2>2 DEF ClientHello
<1>8. c.transcript = Transcript(i, e)
  BY <1>1, <1>4, <1>6, <1>7 DEF Transcript, ServerMac
<1>9. QED
  BY <1>1, <1>4, <1>7, <1>8, KeysAre

-----------------------------------------------------------------------------
(* What every step keeps *)

\* Nothing starts again: incarnations and connections are numbered upwards, a
\* connection keeps its ends, and a handshake that is over stays over.
Onward ==
  /\ client'.incarnation \in Nat /\ client'.incarnation >= client.incarnation
  /\ client'.request \in Nat /\ client'.request >= client.request
  /\ opened' \in Nat /\ opened' >= opened
  /\ conn' # None =>
       \/ conn # None /\ conn'.eph = conn.eph /\ conn'.peer = conn.peer
       \/ conn'.eph > opened
  /\ client'.incarnation = client.incarnation /\ ~Handshaking =>
       ~Handshaking' /\ (InSession' => InSession /\ client'.keys = client.keys)

\* The datagrams of a step: acknowledgements, closes and X are new.
Says(X) ==
  /\ \A p \in Sending' : IsDatagram(p)
  /\ \A w \in Wire' : w \in Wire \/ w.type \in {"ACK", "CONNECTION_CLOSE"} \/ w \in X

LEMMA MetStays ==
  ASSUME ClientFine, ServerFine, Onward, NEW i, NEW e, Met(i, e)
  PROVE  Met(i, e)'
BY QuicAssumption DEF ClientFine, ServerFine, Onward, Met

LEMMA FinishedStays ==
  ASSUME ClientFine, ServerFine, Onward, NEW i, NEW e, Finished(i, e)
  PROVE  Finished(i, e)'
BY QuicAssumption DEF ClientFine, ServerFine, Onward, Finished

LEMMA PlausibleStays ==
  ASSUME ClientFine, ServerFine, Onward, NEW w, Plausible(w)
  PROVE  Plausible(w)'
<1> DEFINE i0 == client.incarnation
           r0 == client.request
<1>1. /\ i0 \in Nat /\ client'.incarnation \in Nat /\ i0 <= client'.incarnation
      /\ r0 \in Nat /\ client'.request \in Nat /\ r0 <= client'.request
  BY QuicAssumption DEF ClientFine, Onward
<1>2. /\ \A i \in 1..i0 : i \in 1..client'.incarnation
      /\ \A r \in 1..r0 : r \in 1..client'.request
  BY <1>1
<1>3. /\ \A i, e : Met(i, e) => Met(i, e)'
      /\ \A i, e : Finished(i, e) => Finished(i, e)'
  BY MetStays, FinishedStays
<1>4. w.type = "INITIAL" =>
        \E i \in 1..client'.incarnation : w.dst = Server /\ w.body = ClientHello(i)
  BY <1>2 DEF Plausible
<1>5. w.type = "HANDSHAKE" /\ w.dst = Server =>
        \E i, e : /\ Met(i, e)'
                  /\ \/ w.body = Exchanged(i, e)
                     \/ w.body = ClientMac(i, e) /\ Finished(i, e)'
  BY <1>3 DEF Plausible
<1>6. w.type = "HANDSHAKE" /\ w.dst # Server =>
        \/ w.body.type = "ServerFinished"
        \/ \E e : w.body = ServerHello(e) /\ Met(w.dst, e)'
  BY <1>3 DEF Plausible
<1>7. w.type = "APP_DATA" =>
        /\ \E i, e : /\ w.body.keys = SessionKeys(i, e) /\ Met(i, e)' /\ Finished(i, e)'
                     /\ w.dst \in {i, Server}
        /\ w.body.data \in 1..client'.request
        /\ w.pn \in Nat
  BY <1>2, <1>3 DEF Plausible
<1>8. QED
  BY <1>4, <1>5, <1>6, <1>7 DEF Plausible, ClientHello, Exchanged, ClientKeyExchange, ServerHello,
     ClientMac, ClientFinished, Shared, Encapsulated, Decapsulate, Transcript, ServerMac,
     ServerFinished, Hellos, SessionKeys, ApplicationKeys, T1, T2, T3

\* One fact about all that is under way from one about what is new.
LEMMA MessagesStay ==
  ASSUME ClientFine, ServerFine, MessagesFine, Onward, NEW X, Says(X),
         \A w \in X : Plausible(w)'
  PROVE  MessagesFine'
<1>1. ASSUME NEW w \in Wire'
      PROVE  Plausible(w)'
  <2>1. CASE w \in Wire
    BY <2>1, PlausibleStays DEF MessagesFine
  <2>2. CASE w.type \in {"ACK", "CONNECTION_CLOSE"}
    BY <2>2 DEF Plausible
  <2>3. QED
    BY <1>1, <2>1, <2>2 DEF Says
<1>2. \A p \in Sending' : IsDatagram(p)
  BY DEF Says
<1>3. QED
  BY <1>1, <1>2 DEF MessagesFine, IsDatagram

CopyOf(p, q) == IsDatagram(p) /\ Content(p) = Content(q)

LEMMA Resent ==
  ASSUME NEW q, NEW p, CopyOf(p, q), NEW n
  PROVE  CopyOf(Again(p, n), q)
BY DEF CopyOf, IsDatagram, Again, Content

-----------------------------------------------------------------------------
(* Steps that do not concern one part of the invariant *)

ExecutedStays ==
  /\ executed' \in [Request -> {0, 1}]
  /\ \A r \in Request : executed[r] = 1 => executed'[r] = 1

SameConnection ==
  /\ conn # None /\ conn'.eph = conn.eph /\ conn'.peer = conn.peer
  /\ conn.processed \subseteq conn'.processed
  /\ conn'.pn \in Nat /\ conn'.pn >= conn.pn
  /\ conn.phase = "established" => conn'.phase = "established"

NothingLost == conn' # None => SameConnection \/ conn'.eph > opened

\* No new request and no new session.
RequestsCalm ==
  /\ FromClient("APP_DATA")' \subseteq FromClient("APP_DATA")
  /\ client'.pn \in Nat /\ client'.pn >= client.pn
  /\ InSession' =>
       /\ InSession /\ client'.keys = client.keys /\ client'.request = client.request
       /\ client'.phase = "open" => client.phase = "open" \/ executed'[client.request] = 1
  /\ Handshaking' =>
       client'.request > client.request \/ (Handshaking /\ client'.request = client.request)

\* No new request and nothing executed.
ServedCalm ==
  /\ FromClient("APP_DATA")' \subseteq FromClient("APP_DATA")
  /\ executed' = executed

\* No new response, and the client forgets none it has processed.
ResponsesCalm ==
  /\ FromServer("APP_DATA")' \subseteq FromServer("APP_DATA")
  /\ InSession' =>
       \/ Handshaking /\ \E e : client'.keys = SessionKeys(client.incarnation, e)
       \/ /\ InSession /\ client'.keys = client.keys
          /\ client.processed \subseteq client'.processed
          /\ \A w \in FromServer("APP_DATA") :
               w.body.keys = client.keys /\ Past(w.body.data)'
                 => Past(w.body.data) \/ w.pn \in client'.processed

LEMMA RequestRange ==
  ASSUME ClientFine, MessagesFine
  PROVE  /\ \A w \in Wire : w.type = "APP_DATA" =>
              w.body.data \in Request /\ w.body.data \in 1..client.request /\ w.pn \in Nat
         /\ Request \subseteq Nat
<1>1. client.request \in 0..MaxRequests /\ MaxRequests \in Nat
  BY QuicAssumption DEF ClientFine
<1>2. 1..client.request \subseteq Request /\ Request \subseteq Nat
  BY <1>1 DEF Request
<1>3. QED
  BY <1>2 DEF MessagesFine, Plausible

LEMMA RequestsKept ==
  ASSUME ClientFine, MessagesFine, RequestsFine, CallersFine, ExecutedStays, RequestsCalm,
         client'.request \in Nat
  PROVE  RequestsFine'
<1> DEFINE A == FromClient("APP_DATA")
           B == FromClient("APP_DATA")'
           r0 == client.request
<1>1. /\ r0 \in Nat /\ client.pn \in Nat /\ client'.pn \in Nat
      /\ client'.request \in Nat
  BY QuicAssumption DEF ClientFine, RequestsCalm
<1>2. \A w \in A : w.body.data \in Request /\ w.body.data \in 1..r0 /\ w.body.data \in Nat /\ w.pn \in Nat
  BY RequestRange DEF FromClient
<1>3. B \subseteq A
  BY DEF RequestsCalm
<1>4. ASSUME NEW w \in B
      PROVE  /\ w.pn < client'.pn
             /\ InSession' /\ client'.keys = w.body.keys /\ Past(w.body.data)'
                  => executed'[w.body.data] = 1
             /\ Handshaking' => w.body.data < client'.request
  <2>1. w \in A /\ w.body.data \in Request /\ w.body.data \in Nat /\ w.body.data <= r0 /\ w.pn \in Nat
    BY <1>1, <1>2, <1>3
  <2>2. w.pn < client'.pn
    BY <1>1, <2>1 DEF RequestsFine, RequestsCalm
  <2>3. ASSUME InSession', client'.keys = w.body.keys, Past(w.body.data)'
        PROVE  executed'[w.body.data] = 1
    <3>1. InSession /\ client.keys = w.body.keys /\ client'.request = r0
      BY <2>3 DEF RequestsCalm
    <3>2. CASE Past(w.body.data)
      BY <2>1, <3>1, <3>2 DEF RequestsFine, ExecutedStays
    <3>3. CASE ~Past(w.body.data)
      <4>1. client'.phase = "open" /\ client.phase # "open" /\ w.body.data = r0
        BY <1>1, <2>1, <2>3, <3>1, <3>3 DEF Past
      <4>2. QED
        BY <2>3, <4>1 DEF RequestsCalm
    <3>4. QED
      BY <3>2, <3>3
  <2>4. ASSUME Handshaking'
        PROVE  w.body.data < client'.request
    <3>1. CASE client'.request > r0
      BY <1>1, <2>1, <3>1
    <3>2. CASE Handshaking /\ client'.request = r0
      BY <2>1, <3>2 DEF RequestsFine
    <3>3. QED
      BY <2>4, <3>1, <3>2 DEF RequestsCalm
  <2>5. QED
    BY <2>2, <2>3, <2>4
<1>5. ASSUME NEW v \in B, NEW w \in B
      PROVE  /\ v.pn = w.pn => v.body = w.body
             /\ v.body.data = w.body.data => v.pn = w.pn
             /\ v.body.keys = w.body.keys /\ v.body.data < w.body.data
                  => executed'[v.body.data] = 1
  <2>1. v \in A /\ w \in A /\ v.body.data \in Request
    BY <1>2, <1>3
  <2>2. QED
    BY <2>1 DEF RequestsFine, ExecutedStays
<1>6. QED
  BY <1>4, <1>5 DEF RequestsFine

LEMMA ServedKept ==
  ASSUME ClientFine, ServerFine, MessagesFine, ServedFine, ServedCalm, NothingLost
  PROVE  ServedFine'
<1> SUFFICES ASSUME conn' # None, NEW w \in FromClient("APP_DATA")',
                    w.body.keys = SessionKeys(conn'.peer, conn'.eph)
             PROVE  /\ executed'[w.body.data] = 1 =>
                         conn'.phase = "established" /\ w.pn \in conn'.processed
                    /\ \A later \in Request : later > w.body.data /\ executed'[later] = 1
                                                => executed'[w.body.data] = 1
  BY DEF ServedFine
<1>1. w \in FromClient("APP_DATA") /\ w \in Wire /\ w.type = "APP_DATA" /\ executed' = executed
  BY DEF ServedCalm, FromClient
<1>2. CASE SameConnection
  BY <1>1, <1>2 DEF ServedFine, SameConnection
<1>3. CASE conn'.eph > opened
  <2>1. PICK i, e : w.body.keys = SessionKeys(i, e) /\ Met(i, e)
    BY <1>1 DEF MessagesFine, Plausible
  <2>2. e = conn'.eph
    <3>1. PICK j, f : j = conn'.peer /\ f = conn'.eph
      OBVIOUS
    <3>2. SessionKeys(i, e) = SessionKeys(j, f)
      BY <2>1, <3>1
    <3>3. QED
      BY <3>1, <3>2, KeysTell
  <2>3. e \in 1..opened /\ opened \in Nat
    BY <2>1, QuicAssumption DEF Met, ServerFine
  <2>4. QED
    BY <1>3, <2>2, <2>3
<1>4. QED
  BY <1>2, <1>3 DEF NothingLost

LEMMA ResponsesKept ==
  ASSUME ClientFine, ServerFine, MessagesFine, ResponsesFine, ExecutedStays, ResponsesCalm,
         NothingLost
  PROVE  ResponsesFine'
<1> DEFINE A == FromServer("APP_DATA")
           B == FromServer("APP_DATA")'
<1>1. \A w \in A : w.body.data \in Request /\ w.pn \in Nat /\ w \in Wire /\ w.type = "APP_DATA"
  BY RequestRange DEF FromServer
<1>2. B \subseteq A
  BY DEF ResponsesCalm
<1>3. ASSUME NEW w \in B
      PROVE  /\ executed'[w.body.data] = 1
             /\ conn' # None /\ w.body.keys = SessionKeys(conn'.peer, conn'.eph) => w.pn < conn'.pn
             /\ InSession' /\ client'.keys = w.body.keys /\ Past(w.body.data)'
                  => w.pn \in client'.processed
  <2>1. w \in A /\ w.body.data \in Request
    BY <1>1, <1>2
  <2>2. PICK i, e : w.body.keys = SessionKeys(i, e) /\ Met(i, e) /\ Finished(i, e)
    BY <1>1, <2>1 DEF MessagesFine, Plausible
  <2>3. executed'[w.body.data] = 1
    BY <2>1 DEF ResponsesFine, ExecutedStays
  <2>4. ASSUME conn' # None, w.body.keys = SessionKeys(conn'.peer, conn'.eph)
        PROVE  w.pn < conn'.pn
    <3>1. e = conn'.eph /\ e \in 1..opened /\ opened \in Nat
      <4>1. PICK j, f : j = conn'.peer /\ f = conn'.eph
        OBVIOUS
      <4>2. SessionKeys(i, e) = SessionKeys(j, f)
        BY <2>2, <2>4, <4>1
      <4>3. QED
        BY <2>2, <4>1, <4>2, KeysTell, QuicAssumption DEF Met, ServerFine
    <3>2. SameConnection
      BY <2>4, <3>1 DEF NothingLost
    <3>3. w.pn < conn.pn /\ conn.pn \in Nat /\ w.pn \in Nat
      BY <1>1, <2>1, <2>4, <3>2, QuicAssumption DEF ResponsesFine, ServerFine, ConnectionFine, SameConnection
    <3>4. QED
      BY <3>2, <3>3 DEF SameConnection
  <2>5. ASSUME InSession', client'.keys = w.body.keys, Past(w.body.data)'
        PROVE  w.pn \in client'.processed
    <3>1. CASE Handshaking /\ \E f : client'.keys = SessionKeys(client.incarnation, f)
      <4>1. i = client.incarnation
        BY <2>2, <2>5, <3>1, KeysTell
      <4>2. QED
        BY <2>2, <3>1, <4>1 DEF Finished
    <3>2. CASE /\ InSession /\ client'.keys = client.keys
               /\ client.processed \subseteq client'.processed
               /\ \A x \in FromServer("APP_DATA") :
                    x.body.keys = client.keys /\ Past(x.body.data)'
                      => Past(x.body.data) \/ x.pn \in client'.processed
      BY <2>1, <2>5, <3>2 DEF ResponsesFine
    <3>3. QED
      BY <2>5, <3>1, <3>2 DEF ResponsesCalm
  <2>6. QED
    BY <2>3, <2>4, <2>5
<1>4. QED
  <2>1. \A v, w \in B : v \in A /\ w \in A
    BY <1>2
  <2>2. QED
    BY <1>3, <2>1 DEF ResponsesFine

-----------------------------------------------------------------------------
(* Steps of one side *)

\* The client resends, is acknowledged or does nothing.
ClientRests ==
  /\ IsClient(client)'
  /\ client'.phase = client.phase /\ client'.incarnation = client.incarnation
  /\ client'.pn = client.pn /\ client'.transcript = client.transcript
  /\ client'.keys = client.keys /\ client'.processed = client.processed
  /\ client'.request = client.request
  /\ Handshaking => \A p, q \in client'.pending : p = q

\* The server's connection stays as far as it has come; it may have sent more.
ServerRests ==
  /\ opened' = opened
  /\ \/ conn' = conn
     \/ /\ conn # None /\ IsConnection(conn)'
        /\ conn'.peer = conn.peer /\ conn'.eph = conn.eph /\ conn'.phase = conn.phase
        /\ conn'.transcript = conn.transcript /\ conn'.secret = conn.secret
        /\ conn'.keys = conn.keys /\ conn.processed \subseteq conn'.processed
        /\ conn'.pn \in 0..MaxServerPackets /\ conn'.pn >= conn.pn
        /\ conn.phase = "await_initial" => conn'.pn = 0
        /\ \A q \in conn'.sent : q.dst = conn.peer /\ q.pn \in Nat /\ q.pn < conn'.pn

LEMMA BothRest ==
  ASSUME ClientFine, ServerFine, ClientRests, ServerRests
  PROVE  Onward
BY QuicAssumption DEF ClientFine, ServerFine, ClientRests, ServerRests, Onward, Handshaking, InSession

LEMMA ClientRest ==
  ASSUME ClientFine, ServerFine, Onward, ClientRests
  PROVE  ClientFine'
<1>1. PICK i : i = client.incarnation
  OBVIOUS
<1>2. i = client'.incarnation
  BY <1>1 DEF ClientRests
<1>3. \A e \in 1..opened : e \in 1..opened' /\ (Met(i, e) => Met(i, e)')
  BY MetStays, QuicAssumption DEF Onward, ServerFine
<1>4. client'.phase = "wait_sf" =>
        \E e \in 1..opened' : Met(i, e)' /\ client'.transcript = Upto3(i, e)
  BY <1>1, <1>3 DEF ClientRests, ClientFine
<1>5. InSession' =>
        \E e \in 1..opened' : /\ Met(i, e)' /\ client'.keys = SessionKeys(i, e)
                              /\ client'.transcript = Transcript(i, e)
  BY <1>1, <1>3 DEF ClientRests, ClientFine, InSession
<1>6. /\ IsClient(client)'
      /\ client'.incarnation \in Nat /\ client'.request \in 0..MaxRequests
      /\ client'.incarnation <= client'.request /\ client'.pn \in Nat
      /\ client'.phase \in {"closed", "wait_sh", "wait_sf", "wait_response", "open"}
      /\ client'.phase # "closed" => client'.incarnation >= 1
      /\ client'.phase = "closed" => client'.transcript = <<>>
      /\ client'.phase = "wait_sh" => client'.transcript = <<ClientHello(client'.incarnation)>>
      /\ ~InSession' => client'.keys = None
      /\ Handshaking' => \A p, q \in client'.pending : p = q
  BY DEF ClientRests, ClientFine, InSession, Handshaking
<1>7. \A e : Met(i, e)' => Met(client.incarnation, e)'
  BY <1>2 DEF Met
<1>8. QED
  BY <1>2, <1>4, <1>5, <1>6, <1>7 DEF ClientFine, IsClient, ClientHello, SessionKeys, Transcript, Upto3

LEMMA ServerRest ==
  ASSUME ClientFine, ServerFine, Onward, ServerRests
  PROVE  ServerFine' /\ NothingLost
<1>1. opened' \in 0..MaxConnections
  BY DEF ServerFine, ServerRests
<1>2. ASSUME conn' # None
      PROVE  ConnectionFine(conn)' /\ SameConnection
  <2>1. conn # None /\ ConnectionFine(conn)
    BY <1>2 DEF ServerFine, ServerRests
  <2>2. conn'.peer = conn.peer /\ conn'.eph = conn.eph
    BY DEF ServerRests
  <2>3. conn.peer \in 1..client.incarnation => conn.peer \in 1..client'.incarnation
    BY DEF Onward, ClientFine
  <2>4. Finished(conn.peer, conn.eph) => Finished(conn.peer, conn.eph)'
    <3>1. PICK i, e : i = conn.peer /\ e = conn.eph
      OBVIOUS
    <3>2. Finished(i, e) => Finished(i, e)'
      BY FinishedStays
    <3>3. i = conn'.peer /\ e = conn'.eph
      BY <2>2, <3>1
    <3>4. QED
      BY <3>1, <3>2, <3>3 DEF Finished
  <2>5. Greeted(conn) => Greeted(conn)'
    BY <2>2 DEF ServerRests, Greeted, Hellos, ClientHello, ServerHello
  <2>6. KeyExchanged(conn) => KeyExchanged(conn)'
    BY <2>2 DEF ServerRests, KeyExchanged, Hellos
  <2>7. SameConnection
    BY <2>1, QuicAssumption DEF ServerRests, SameConnection, ConnectionFine
  <2>8. ConnectionFine(conn)'
    BY <2>1, <2>2, <2>3, <2>4, <2>5, <2>6 DEF ServerRests, ConnectionFine, IsConnection
  <2>9. QED
    BY <2>7, <2>8
<1>3. QED
  BY <1>1, <1>2 DEF ServerFine, NothingLost

LEMMA CallersRest ==
  ASSUME CallersFine, ExecutedStays, caller' = caller, client'.request = client.request,
         client'.phase = client.phase,
         \A r \in Request :
           executed'[r] = 1 => r <= client.request /\ (Handshaking => r < client.request)
  PROVE  CallersFine'
BY DEF CallersFine, ExecutedStays, Handshaking

LEMMA NoneExecuted ==
  ASSUME CallersFine, executed' = executed
  PROVE  ExecutedStays
BY DEF CallersFine, ExecutedStays

\* The server handles a datagram that carries no request, or resends.
LEMMA ServerTurn ==
  ASSUME IInv, Onward, ClientRests, ServerFine', NothingLost,
         caller' = caller, executed' = executed, losses' \in 0..MaxLoss,
         NEW X, Says(X), \A w \in X : w.type # "APP_DATA" /\ Plausible(w)'
  PROVE  IInv'
<1>1. ExecutedStays /\ client'.request \in Nat
  BY NoneExecuted DEF IInv, Onward
<1>2. ClientFine' /\ MessagesFine'
  BY ClientRest, MessagesStay DEF IInv
<1>3. /\ FromClient("APP_DATA")' \subseteq FromClient("APP_DATA")
      /\ FromServer("APP_DATA")' \subseteq FromServer("APP_DATA")
  BY DEF Says, FromClient, FromServer
<1>4. RequestsCalm
  BY <1>3 DEF IInv, ClientFine, RequestsCalm, ClientRests, InSession, Handshaking
<1>5. ResponsesCalm
  BY <1>3 DEF ResponsesCalm, ClientRests, InSession, Past
<1>6. RequestsFine' /\ ServedFine' /\ ResponsesFine'
  BY <1>1, <1>3, <1>4, <1>5, RequestsKept, ServedKept, ResponsesKept DEF IInv, ServedCalm
<1>7. CallersFine'
  BY <1>1, CallersRest DEF IInv, CallersFine, ClientRests
<1>8. QED
  BY <1>2, <1>6, <1>7 DEF IInv

LEMMA CallerTold ==
  ASSUME ClientFine, CallersFine, executed' = executed, client'.request = client.request,
         client'.phase \in {"closed", "open"}, client.phase \notin {"closed", "open"},
         NEW y, caller' = [caller EXCEPT ![client.request] = y],
         \/ \E x \in Reason : y = <<"failed", x>>
         \/ y = <<"answered", client.request>> /\ executed[client.request] = 1
  PROVE  CallersFine'
<1> DEFINE rq == client.request
           CS == {<<"idle">>, <<"waiting">>} \cup ({"answered"} \X Request)
                   \cup ({"failed"} \X Reason)
<1>1. /\ rq \in Request /\ caller[rq] = <<"waiting">> /\ caller \in [Request -> CS]
      /\ rq <= client.request
  BY QuicAssumption DEF ClientFine, CallersFine, Request
<1>2. /\ y \in CS /\ y # <<"idle">>
      /\ y[1] = "answered" => y = <<"answered", rq>> /\ executed[rq] = 1
  BY <1>1
<1>3. caller' \in [Request -> CS]
  BY <1>1, <1>2
<1>4. caller'[rq] = y /\ \A r \in Request : r # rq => caller'[r] = caller[r]
  BY <1>1
<1>5. \A r \in Request : caller'[r] = <<"idle">> <=> r > client'.request
  <2>1. <<"waiting">> # <<"idle">>
    OBVIOUS
  <2>2. QED
    BY <1>1, <1>2, <1>4, <2>1 DEF CallersFine
<1>6. \A r \in Request : caller'[r][1] = "answered" =>
                           caller'[r] = <<"answered", r>> /\ executed'[r] = 1
  BY <1>1, <1>2, <1>4 DEF CallersFine
<1>7. ~Handshaking'
  BY DEF Handshaking
<1>8. QED
  BY <1>1, <1>3, <1>5, <1>6, <1>7 DEF CallersFine

\* close(), however it comes about: the caller of a request that waits is told.
LEMMA Closing ==
  ASSUME IInv, client' = Closed(client), UNCHANGED <<conn, opened, losses, executed>>,
         Says({}),
         \/ client.phase = "open" /\ caller' = caller
         \/ /\ client.phase \notin {"closed", "open"}
            /\ \E y : /\ caller' = [caller EXCEPT ![client.request] = y]
                      /\ \/ \E x \in Reason : y = <<"failed", x>>
                         \/ y = <<"answered", client.request>> /\ executed[client.request] = 1
  PROVE  IInv'
<1>1. /\ IsClient(client)' /\ client'.phase = "closed" /\ client'.keys = None
      /\ client'.transcript = <<>> /\ client'.pn = client.pn
      /\ client'.incarnation = client.incarnation /\ client'.request = client.request
      /\ ~Handshaking' /\ ~InSession'
  BY DEF IInv, ClientFine, IsClient, Closed, Handshaking, InSession
<1>2. Onward
  BY <1>1, QuicAssumption DEF IInv, ClientFine, ServerFine, Onward
<1>3. ServerRests
  BY DEF ServerRests
<1>4. ClientFine'
  BY <1>1 DEF IInv, ClientFine
<1>5. MessagesFine'
  BY <1>2, MessagesStay DEF IInv
<1>6. /\ FromClient("APP_DATA")' \subseteq FromClient("APP_DATA")
      /\ FromServer("APP_DATA")' \subseteq FromServer("APP_DATA")
  BY DEF Says, FromClient, FromServer
<1>7. ExecutedStays /\ ServerFine' /\ NothingLost
  BY <1>2, <1>3, NoneExecuted, ServerRest DEF IInv
<1>8. RequestsCalm /\ ServedCalm /\ ResponsesCalm
  BY <1>1, <1>6 DEF IInv, ClientFine, RequestsCalm, ServedCalm, ResponsesCalm
<1>9. RequestsFine' /\ ServedFine' /\ ResponsesFine'
  BY <1>2, <1>7, <1>8, RequestsKept, ServedKept, ResponsesKept DEF IInv, Onward
<1>10. CallersFine'
  <2>1. CASE caller' = caller
    BY <1>1, <2>1 DEF IInv, CallersFine
  <2>2. ASSUME client.phase \notin {"closed", "open"},
               NEW y, caller' = [caller EXCEPT ![client.request] = y],
               \/ \E x \in Reason : y = <<"failed", x>>
               \/ y = <<"answered", client.request>> /\ executed[client.request] = 1
        PROVE  CallersFine'
    BY <1>1, <2>2, CallerTold DEF IInv
  <2>3. QED
    BY <2>1, <2>2
<1>11. QED
  BY <1>4, <1>5, <1>7, <1>9, <1>10 DEF IInv

-----------------------------------------------------------------------------
(* Steps that leave both sides where they are *)

LEMMA SaysFrom ==
  ASSUME MessagesFine, NEW X,
         \A p \in Sending' :
           \/ p \in Sending
           \/ /\ IsDatagram(p)
              /\ p.type \in {"ACK", "CONNECTION_CLOSE"} \/ Content(p) \in X \/ Content(p) \in Wire
  PROVE  Says(X)
<1>1. \A p \in Sending' : IsDatagram(p)
  BY DEF MessagesFine
<1>2. ASSUME NEW w \in Wire'
      PROVE  w \in Wire \/ w.type \in {"ACK", "CONNECTION_CLOSE"} \/ w \in X
  <2>1. PICK p \in Sending' : w = Content(p)
    BY DEF Wire, Content
  <2>2. CASE p \in Sending
    BY <2>1, <2>2 DEF Wire
  <2>3. CASE p.type \in {"ACK", "CONNECTION_CLOSE"}
    BY <2>1, <2>3 DEF Content
  <2>4. QED
    BY <2>1, <2>2, <2>3
<1>3. QED
  BY <1>1, <1>2 DEF Says

LEMMA Delivered ==
  ASSUME NEW p, NEW ps, Deliver(p, ps)
  PROVE  net' \subseteq net \cup ps
BY DEF Deliver

LEMMA Plain ==
  /\ \A dst, pn : IsDatagram(Ack(dst, pn)) /\ Ack(dst, pn).type = "ACK"
  /\ IsDatagram(Close) /\ Close.type = "CONNECTION_CLOSE"
BY DEF IsDatagram, Ack, Close, Datagram

LEMMA Arrived ==
  ASSUME MessagesFine, NEW p \in net
  PROVE  /\ IsDatagram(p) /\ Content(p) \in Wire /\ Plausible(Content(p))
         /\ Content(p).dst = p.dst /\ Content(p).type = p.type
         /\ Content(p).pn = p.pn /\ Content(p).body = p.body
BY DEF MessagesFine, Wire, Sending, Out, Content

LEMMA NetOnly ==
  ASSUME IInv, UNCHANGED <<client, conn, opened, caller, executed>>, losses' \in 0..MaxLoss,
         \A p \in net' : p \in net \/ \E dst, pn : p = Ack(dst, pn)
  PROVE  IInv'
<1>1. Says({})
  <2>1. \A p \in Sending' : p \in Sending \/ (IsDatagram(p) /\ p.type = "ACK")
    BY Plain DEF Sending, Out
  <2>2. QED
    BY <2>1, SaysFrom DEF IInv
<1>2. ClientRests /\ ServerRests
  BY DEF IInv, ClientFine, ClientRests, ServerRests, IsClient
<1>3. Onward
  BY <1>2, BothRest DEF IInv
<1>4. QED
  BY <1>1, <1>2, <1>3, ServerRest, ServerTurn DEF IInv

\* The client has only its retransmissions changed.
LEMMA ClientResends ==
  ASSUME IInv, UNCHANGED <<conn, opened, losses, caller, executed>>, NEW pending,
         client' = [client EXCEPT !.pending = pending],
         Handshaking => \A p, q \in pending : p = q,
         \A p \in net' \cup pending :
           \/ p \in net \cup client.pending
           \/ \E q \in client.pending : CopyOf(p, q)
  PROVE  IInv'
<1>1. /\ IsClient(client)' /\ client'.phase = client.phase
      /\ client'.incarnation = client.incarnation /\ client'.pn = client.pn
      /\ client'.transcript = client.transcript /\ client'.keys = client.keys
      /\ client'.processed = client.processed /\ client'.request = client.request
      /\ client'.pending = pending
  BY DEF IInv, ClientFine, IsClient
<1>2. ClientRests /\ ServerRests
  BY <1>1 DEF ClientRests, ServerRests
<1>3. Onward
  BY <1>2, BothRest DEF IInv
<1>4. Says({})
  <2>1. \A q \in client.pending : q \in Sending /\ IsDatagram(q) /\ Content(q) \in Wire
    BY DEF IInv, MessagesFine, Wire, Sending, Out
  <2>2. ASSUME NEW p \in Sending'
        PROVE  p \in Sending \/ (IsDatagram(p) /\ Content(p) \in Wire)
    <3>1. CASE p \in net' \cup pending
      BY <2>1, <3>1 DEF Sending, Out, CopyOf
    <3>2. CASE p \notin net' \cup pending
      BY <1>1, <3>2 DEF Sending, Out
    <3>3. QED
      BY <3>1, <3>2
  <2>3. QED
    BY <2>2, SaysFrom DEF IInv
<1>5. losses' \in 0..MaxLoss
  BY DEF IInv
<1>6. QED
  BY <1>2, <1>3, <1>4, <1>5, ServerRest, ServerTurn DEF IInv

LEMMA NetSteps ==
  ASSUME IInv, NEW p \in net,
         \/ ReceiveResponseAgain(p) \/ ClientIgnore(p)
         \/ AcknowledgeOnly(p) \/ ServerIgnore(p) \/ Lose(p)
  PROVE  IInv'
<1>1. CASE ReceiveResponseAgain(p)
  <2>1. net' \subseteq net \cup {Ack(Server, p.pn)}
    BY <1>1, Delivered DEF ReceiveResponseAgain
  <2>2. QED
    BY <1>1, <2>1, NetOnly DEF ReceiveResponseAgain, IInv
<1>2. CASE ClientIgnore(p)
  <2>1. net' \subseteq net
    BY <1>2 DEF ClientIgnore, Deliver
  <2>2. QED
    BY <1>2, <2>1, NetOnly DEF ClientIgnore, IInv
<1>3. CASE AcknowledgeOnly(p)
  <2>1. net' \subseteq net \cup {Ack(conn.peer, p.pn)}
    BY <1>3 DEF AcknowledgeOnly, Deliver
  <2>2. QED
    BY <1>3, <2>1, NetOnly DEF AcknowledgeOnly, IInv
<1>4. CASE ServerIgnore(p)
  <2>1. net' \subseteq net
    BY <1>4 DEF ServerIgnore, Deliver
  <2>2. QED
    BY <1>4, <2>1, NetOnly DEF ServerIgnore, IInv
<1>5. CASE Lose(p)
  <2>1. net' \subseteq net /\ losses' \in 0..MaxLoss
    BY <1>5, QuicAssumption DEF Lose, IInv
  <2>2. QED
    BY <1>5, <2>1, NetOnly DEF Lose
<1>6. QED
  BY <1>1, <1>2, <1>3, <1>4, <1>5

LEMMA StepClientAck ==
  ASSUME IInv, NEW p \in net, ClientReceiveAck(p)
  PROVE  IInv'
<1>1. PICK rest : rest = {q \in client.pending : q.pn # p.pn}
  OBVIOUS
<1>2. client' = [client EXCEPT !.pending = rest] /\ rest \subseteq client.pending
  BY <1>1 DEF ClientReceiveAck
<1>3. net' \subseteq net
  BY DEF ClientReceiveAck, Deliver
<1>4. Handshaking => \A a, b \in rest : a = b
  BY <1>2 DEF IInv, ClientFine
<1>5. QED
  BY <1>2, <1>3, <1>4, ClientResends DEF ClientReceiveAck

LEMMA PendingCopies ==
  ASSUME IInv, NEW p \in client.pending, NEW n
  PROVE  CopyOf(p, p) /\ CopyOf(Again(p, n), p) /\ CopyOf(Again(Again(p, n), 1), p)
<1>1. CopyOf(p, p)
  BY DEF IInv, MessagesFine, Sending, Out, CopyOf
<1>2. QED
  BY <1>1, Resent

LEMMA StepResponseTimeout ==
  ASSUME IInv, ResponseTimeout
  PROVE  IInv'
<1>1. PICK resent : resent = {Again(p, 1) : p \in {q \in client.pending : q.copy < MaxRetries}}
  OBVIOUS
<1>2. PICK pending : pending = (client.pending \ {q \in client.pending : q.copy < MaxRetries}) \cup resent
  OBVIOUS
<1>3. client' = [client EXCEPT !.pending = pending] /\ net' = net \cup resent
  BY <1>1, <1>2 DEF ResponseTimeout
<1>4. \A p \in resent : \E q \in client.pending : CopyOf(p, q)
  BY <1>1, PendingCopies
<1>5. ~Handshaking
  BY DEF ResponseTimeout, Handshaking
<1>6. \A p \in net' \cup pending :
        p \in net \cup client.pending \/ \E q \in client.pending : CopyOf(p, q)
  BY <1>2, <1>3, <1>4
<1>7. QED
  BY <1>3, <1>5, <1>6, ClientResends DEF ResponseTimeout

\* Sending CONNECTION_CLOSE, an acknowledgement and copies says nothing new.
LEMMA SaysNothing ==
  ASSUME IInv, client'.pending = {} \/ client'.pending \subseteq client.pending, conn' = conn,
         \A p \in net' : \/ p \in net
                         \/ p = Close
                         \/ \E dst, pn : p = Ack(dst, pn)
                         \/ \E q \in client.pending : CopyOf(p, q)
  PROVE  Says({})
<1>1. \A q \in client.pending : IsDatagram(q) /\ Content(q) \in Wire
  BY DEF IInv, MessagesFine, Wire, Sending, Out
<1>2. ASSUME NEW p \in Sending'
      PROVE  p \in Sending \/ (IsDatagram(p) /\ (p.type \in {"ACK", "CONNECTION_CLOSE"} \/ Content(p) \in Wire))
  <2>1. CASE p \in net'
    BY <1>1, <2>1, Plain DEF Sending, Out, CopyOf
  <2>2. CASE p \notin net'
    BY <2>2 DEF Sending, Out
  <2>3. QED
    BY <2>1, <2>2
<1>3. QED
  BY <1>2, SaysFrom DEF IInv

LEMMA ClosedSaysNothing ==
  ASSUME IInv
  PROVE  Closed(client).pending = {}
BY DEF IInv, ClientFine, IsClient, Closed

LEMMA StepCloseTransport ==
  ASSUME IInv, CloseTransport
  PROVE  IInv'
<1>1. Says({})
  BY SaysNothing, ClosedSaysNothing DEF CloseTransport
<1>2. QED
  BY <1>1, Closing DEF CloseTransport

LEMMA StepUnexpected ==
  ASSUME IInv, NEW p \in net, ReceiveUnexpected(p)
  PROVE  IInv'
<1>1. net' \subseteq net \cup {Ack(Server, p.pn), Close}
  BY DEF ReceiveUnexpected, Deliver
<1>2. Says({})
  BY <1>1, SaysNothing, ClosedSaysNothing DEF ReceiveUnexpected
<1>3. PICK y : y = <<"failed", "handshake error">>
  OBVIOUS
<1>4. "handshake error" \in Reason
  BY DEF Reason
<1>5. client.phase \notin {"closed", "open"}
  BY DEF ReceiveUnexpected, Handshakes
<1>6. caller' = [caller EXCEPT ![client.request] = y]
  BY <1>3 DEF ReceiveUnexpected
<1>7. QED
  BY <1>2, <1>3, <1>4, <1>5, <1>6, Closing DEF ReceiveUnexpected

LEMMA Failing ==
  ASSUME IInv, NEW reason \in Reason, NEW ps, Fail(reason, ps),
         client.phase \notin {"closed", "open"}, UNCHANGED <<conn, opened, losses, executed>>,
         \A p \in ps : \E q \in client.pending : CopyOf(p, q)
  PROVE  IInv'
<1>1. net' = net \cup ps \cup {Close}
  BY DEF Fail
<1>2. Says({})
  BY <1>1, SaysNothing, ClosedSaysNothing DEF Fail
<1>3. PICK y : y = <<"failed", reason>>
  OBVIOUS
<1>4. caller' = [caller EXCEPT ![client.request] = y]
  BY <1>3 DEF Fail
<1>5. QED
  BY <1>2, <1>3, <1>4, Closing DEF Fail

LEMMA StepGiveUp ==
  ASSUME IInv, GiveUp
  PROVE  IInv'
<1> PICK reason, ps : reason = "timed out" /\ ps = {}
  OBVIOUS
<1>1. Fail(reason, ps) /\ reason \in Reason /\ client.phase \notin {"closed", "open"}
  BY DEF GiveUp, Reason
<1>2. UNCHANGED <<conn, opened, losses, executed>>
  BY DEF GiveUp
<1>3. \A p \in ps : \E q \in client.pending : CopyOf(p, q)
  OBVIOUS
<1>4. QED
  BY <1>1, <1>2, <1>3, Failing

LEMMA StepHandshakeTimeout ==
  ASSUME IInv, HandshakeTimeout
  PROVE  IInv'
<1>1. PICK p \in client.pending :
        LET resent == Again(p, IF p.copy < MaxRetries THEN 1 ELSE 0)
        IN  IF resent.copy >= MaxRetries
              THEN Fail("budget exhausted", Retry(p))
              ELSE /\ client' = [client EXCEPT !.pending = {Again(resent, 1)}]
                   /\ net' = net \cup {resent, Again(resent, 1)}
                   /\ UNCHANGED caller
  BY DEF HandshakeTimeout
<1>2. PICK n : n = IF p.copy < MaxRetries THEN 1 ELSE 0
  OBVIOUS
<1>3. CASE Again(p, n).copy >= MaxRetries
  <2>1. Fail("budget exhausted", Retry(p))
    BY <1>1, <1>2, <1>3
  <2>2. \A x \in Retry(p) : CopyOf(x, p)
    BY PendingCopies DEF Retry
  <2>3. QED
    BY <2>1, <2>2, Failing DEF HandshakeTimeout, Reason
<1>4. CASE ~(Again(p, n).copy >= MaxRetries)
  <2>1. PICK twice : twice = Again(Again(p, n), 1)
    OBVIOUS
  <2>2. /\ client' = [client EXCEPT !.pending = {twice}]
        /\ net' = net \cup {Again(p, n), twice} /\ UNCHANGED caller
    BY <1>1, <1>2, <1>4, <2>1
  <2>3. CopyOf(Again(p, n), p) /\ CopyOf(twice, p)
    BY <2>1, PendingCopies
  <2>4. \A x \in net' \cup {twice} :
          x \in net \cup client.pending \/ \E q \in client.pending : CopyOf(x, q)
    BY <2>2, <2>3
  <2>5. QED
    BY <2>2, <2>4, ClientResends DEF HandshakeTimeout
<1>5. QED
  BY <1>3, <1>4

-----------------------------------------------------------------------------
(* The client's requests and responses *)

\* A client in a session.
LEMMA ClientInSession ==
  ASSUME IsClient(client)', InSession', client'.incarnation \in Nat, client'.incarnation >= 1,
         client'.request \in 0..MaxRequests, client'.incarnation <= client'.request,
         client'.pn \in Nat,
         NEW i, i = client'.incarnation, NEW e \in 1..opened', Met(i, e)',
         client'.keys = SessionKeys(i, e), client'.transcript = Transcript(i, e)
  PROVE  ClientFine'
<1>1. Met(client.incarnation, e)'
  BY DEF Met
<1>2. /\ client'.phase \in {"wait_response", "open"} /\ ~Handshaking'
  BY DEF InSession, Handshaking
<1>3. QED
  BY <1>1, <1>2 DEF ClientFine, IsClient, ClientHello, SessionKeys, Transcript, Upto3

\* What a response that the client has not processed and can open is: the one
\* to the request it waits for.
LEMMA ResponseIs ==
  ASSUME IInv, NEW p \in net, p.type = "APP_DATA", p.dst = client.incarnation,
         client.phase = "wait_response", p.pn \notin client.processed,
         p.body.keys = client.keys
  PROVE  /\ p.body.data = client.request /\ executed[client.request] = 1
         /\ \A w \in FromServer("APP_DATA") :
              w.body.keys = client.keys /\ w.body.data = client.request => w.pn = p.pn
<1> DEFINE v == Content(p)
<1>1. /\ v \in FromServer("APP_DATA") /\ v.body = p.body /\ v.pn = p.pn
      /\ v \in Wire /\ v.type = "APP_DATA"
  BY Arrived, AddressAssumption DEF IInv, ClientFine, FromServer
<1>2. v.body.data \in 1..client.request /\ client.request \in Nat
  BY <1>1, RequestRange, QuicAssumption DEF IInv, ClientFine
<1> HIDE DEF v
<1>3. ~Past(v.body.data)
  BY <1>1 DEF IInv, ResponsesFine, InSession
<1>4. v.body.data = client.request
  BY <1>2, <1>3 DEF Past
<1>5. QED
  BY <1>1, <1>4 DEF IInv, ResponsesFine

LEMMA StepResponse ==
  ASSUME IInv, NEW p \in net, ReceiveResponse(p)
  PROVE  IInv'
<1> DEFINE unprotected == p.body.keys = client.keys
           y == IF unprotected THEN <<"answered", p.body.data>>
                               ELSE <<"failed", "protection error">>
<1>1. /\ p.type = "APP_DATA" /\ p.dst = client.incarnation
      /\ client.phase = "wait_response" /\ p.pn \notin client.processed
      /\ caller' = [caller EXCEPT ![client.request] = y]
      /\ UNCHANGED <<conn, opened, losses, executed>>
  BY DEF ReceiveResponse, Addressed, SeenBefore
<1>2. \/ \E x \in Reason : y = <<"failed", x>>
      \/ y = <<"answered", client.request>> /\ executed[client.request] = 1
  <2>1. "protection error" \in Reason
    BY DEF Reason
  <2>2. QED
    BY <1>1, <2>1, ResponseIs
<1>3. PICK z : z = y
  OBVIOUS
<1> HIDE DEF y
<1>4. CASE ~(unprotected /\ client.keep_alive)
  <2>1. client' = Closed(client) /\ net' \subseteq net \cup {Ack(Server, p.pn), Close}
    BY <1>4 DEF ReceiveResponse, Deliver
  <2>2. Says({})
    BY <1>1, <2>1, SaysNothing, ClosedSaysNothing
  <2>3. client.phase \notin {"closed", "open"}
    BY <1>1
  <2>4. QED
    BY <1>1, <1>2, <1>3, <2>1, <2>2, <2>3, Closing
<1>5. CASE unprotected /\ client.keep_alive
  <2>1. /\ client' = [client EXCEPT !.phase = "open", !.processed = client.processed \cup {p.pn}]
        /\ net' \subseteq net \cup {Ack(Server, p.pn)}
    BY <1>5 DEF ReceiveResponse, Deliver
  <2>2. /\ IsClient(client)' /\ client'.phase = "open" /\ client'.keys = client.keys
        /\ client'.incarnation = client.incarnation /\ client'.request = client.request
        /\ client'.pn = client.pn /\ client'.transcript = client.transcript
        /\ client'.processed = client.processed \cup {p.pn}
        /\ client'.pending = client.pending
    BY <2>1 DEF IInv, ClientFine, IsClient
  <2>3. InSession /\ InSession' /\ ~Handshaking /\ ~Handshaking'
    BY <1>1, <2>2 DEF InSession, Handshaking
  <2>4. Onward /\ ServerRests
    BY <1>1, <2>2, <2>3, QuicAssumption DEF IInv, ClientFine, ServerFine, Onward, ServerRests
  <2>5. Says({})
    BY <1>1, <2>1, <2>2, SaysNothing
  <2>6. ClientFine'
    <3>1. PICK i : i = client.incarnation
      OBVIOUS
    <3>2. PICK e \in 1..opened : /\ Met(i, e) /\ client.keys = SessionKeys(i, e)
                                 /\ client.transcript = Transcript(i, e)
      BY <2>3, <3>1 DEF IInv, ClientFine
    <3>3. Met(i, e)' /\ e \in 1..opened'
      BY <1>1, <2>4, <3>2, MetStays DEF IInv
    <3>4. i = client'.incarnation /\ client'.keys = SessionKeys(i, e) /\ client'.transcript = Transcript(i, e)
      BY <2>2, <3>1, <3>2
    <3>5. QED
      BY <1>1, <2>2, <2>3, <3>3, <3>4, ClientInSession DEF IInv, ClientFine
  <2>7. MessagesFine' /\ ServerFine' /\ NothingLost /\ ExecutedStays
    BY <1>1, <2>4, <2>5, MessagesStay, ServerRest, NoneExecuted DEF IInv
  <2>8. /\ FromClient("APP_DATA")' \subseteq FromClient("APP_DATA")
        /\ FromServer("APP_DATA")' \subseteq FromServer("APP_DATA")
    BY <2>5 DEF Says, FromClient, FromServer
  <2>9. RequestsCalm
    BY <1>1, <1>5, <2>2, <2>3, <2>8, ResponseIs DEF IInv, ClientFine, RequestsCalm
  <2>10. ResponsesCalm
    <3>1. ASSUME NEW w \in FromServer("APP_DATA"), w.body.keys = client.keys
          PROVE  Past(w.body.data) \/ w.pn \in client'.processed
      <4>1. w.body.data \in 1..client.request /\ client.request \in Nat
        BY RequestRange, QuicAssumption DEF IInv, ClientFine, FromServer
      <4>2. CASE w.body.data = client.request
        BY <1>1, <1>5, <2>2, <3>1, <4>2, ResponseIs
      <4>3. QED
        BY <4>1, <4>2 DEF Past
    <3>2. QED
      BY <2>2, <2>3, <2>8, <3>1 DEF ResponsesCalm
  <2>11. RequestsFine' /\ ServedFine' /\ ResponsesFine'
    BY <1>1, <2>4, <2>7, <2>8, <2>9, <2>10, RequestsKept, ServedKept, ResponsesKept
       DEF IInv, ServedCalm, Onward
  <2>12. CallersFine'
    BY <1>1, <1>2, <1>3, <2>2, CallerTold DEF IInv
  <2>13. QED
    BY <1>1, <2>6, <2>7, <2>11, <2>12 DEF IInv
<1>6. QED
  BY <1>4, <1>5

LEMMA CallerWaits ==
  ASSUME ClientFine, CallersFine, executed' = executed, client.request < MaxRequests,
         client'.request = client.request + 1, client'.phase \notin {"closed", "open"},
         caller' = [caller EXCEPT ![client.request + 1] = <<"waiting">>]
  PROVE  CallersFine' /\ client'.request \in Request
<1> DEFINE rq == client.request + 1
           CS == {<<"idle">>, <<"waiting">>} \cup ({"answered"} \X Request)
                   \cup ({"failed"} \X Reason)
<1>1. /\ rq \in Request /\ rq = client'.request /\ client.request \in Nat
      /\ Request \subseteq Nat /\ caller \in [Request -> CS]
  BY QuicAssumption DEF ClientFine, CallersFine, Request
<1>2. <<"waiting">> \in CS /\ <<"waiting">> # <<"idle">> /\ <<"waiting">>[1] # "answered"
  OBVIOUS
<1>3. /\ caller' \in [Request -> CS]
      /\ caller'[rq] = <<"waiting">> /\ \A r \in Request : r # rq => caller'[r] = caller[r]
  BY <1>1, <1>2
<1>4. \A r \in Request : caller'[r] = <<"idle">> <=> r > client'.request
  BY <1>1, <1>2, <1>3 DEF CallersFine
<1>5. \A r \in Request : caller'[r][1] = "answered" =>
                           caller'[r] = <<"answered", r>> /\ executed'[r] = 1
  BY <1>1, <1>2, <1>3 DEF CallersFine
<1>6. \A r \in Request : executed'[r] = 1 => r <= client'.request /\ r < client'.request
  BY <1>1 DEF CallersFine
<1>7. QED
  BY <1>1, <1>3, <1>4, <1>5, <1>6 DEF CallersFine

LEMMA StepConnect ==
  ASSUME IInv, NEW keep \in BOOLEAN, Connect(keep)
  PROVE  IInv'
<1> PICK i, p : /\ i = client.incarnation + 1
                /\ p = ToServer("INITIAL", client.pn, ClientHello(i))
  OBVIOUS
<1>1. /\ client' = [client EXCEPT
                      !.phase = "wait_sh", !.incarnation = i, !.pn = client.pn + 1,
                      !.transcript = <<ClientHello(i)>>, !.pending = {p},
                      !.request = client.request + 1, !.keep_alive = keep]
      /\ net' = net \cup {p} /\ client.phase = "closed" /\ client.request < MaxRequests
      /\ caller' = [caller EXCEPT ![client.request + 1] = <<"waiting">>]
      /\ UNCHANGED <<conn, opened, losses, executed>>
  BY DEF Connect
<1>2. /\ IsClient(client)' /\ client'.phase = "wait_sh" /\ client'.incarnation = i
      /\ client'.pn = client.pn + 1 /\ client'.transcript = <<ClientHello(i)>>
      /\ client'.pending = {p} /\ client'.request = client.request + 1
      /\ client'.keys = client.keys
  BY <1>1 DEF IInv, ClientFine, IsClient
<1>3. ~InSession /\ ~InSession' /\ ~Handshaking /\ Handshaking'
  BY <1>1, <1>2 DEF InSession, Handshaking
<1>4. Onward /\ ServerRests
  BY <1>1, <1>2, <1>3, QuicAssumption DEF IInv, ClientFine, ServerFine, Onward, ServerRests
<1>5. /\ IsDatagram(p) /\ p.type = "INITIAL" /\ p.dst = Server /\ p.body = ClientHello(i)
      /\ Content(p).type = "INITIAL" /\ Content(p).dst = Server /\ Content(p).body = ClientHello(i)
  BY DEF IsDatagram, ToServer, Datagram, Content
<1>6. PICK x : x = Content(p)
  OBVIOUS
<1>7. Says({x})
  <2>1. \A q \in Sending' : q \in Sending \/ (IsDatagram(q) /\ Content(q) \in {x})
    BY <1>1, <1>2, <1>5, <1>6 DEF Sending, Out
  <2>2. QED
    BY <2>1, SaysFrom DEF IInv
<1>8. Plausible(x)'
  <2>1. i \in 1..client'.incarnation
    BY <1>2 DEF IInv, ClientFine
  <2>2. QED
    BY <1>5, <1>6, <2>1 DEF Plausible, ClientHello
<1>9. ClientFine'
  <2>1. client'.incarnation \in Nat /\ client'.incarnation >= 1 /\ client'.pn \in Nat
    BY <1>2 DEF IInv, ClientFine
  <2>2. client'.request \in 0..MaxRequests /\ client'.incarnation <= client'.request
    BY <1>1, <1>2, QuicAssumption DEF IInv, ClientFine
  <2>3. client'.keys = None
    BY <1>2, <1>3 DEF IInv, ClientFine
  <2>4. QED
    BY <1>2, <1>3, <2>1, <2>2, <2>3 DEF ClientFine, IsClient, ClientHello
<1>10. MessagesFine' /\ ServerFine' /\ NothingLost /\ ExecutedStays
  BY <1>1, <1>4, <1>7, <1>8, MessagesStay, ServerRest, NoneExecuted DEF IInv
<1>11. /\ FromClient("APP_DATA")' \subseteq FromClient("APP_DATA")
       /\ FromServer("APP_DATA")' \subseteq FromServer("APP_DATA")
  BY <1>5, <1>6, <1>7 DEF Says, FromClient, FromServer
<1>12. RequestsCalm /\ ServedCalm /\ ResponsesCalm
  BY <1>1, <1>2, <1>3, <1>11, QuicAssumption
     DEF IInv, ClientFine, RequestsCalm, ServedCalm, ResponsesCalm
<1>13. RequestsFine' /\ ServedFine' /\ ResponsesFine'
  BY <1>4, <1>10, <1>12, RequestsKept, ServedKept, ResponsesKept DEF IInv, Onward
<1>14. CallersFine'
  BY <1>1, <1>2, CallerWaits DEF IInv
<1>15. QED
  BY <1>1, <1>9, <1>10, <1>13, <1>14 DEF IInv

LEMMA StepReuse ==
  ASSUME IInv, Reuse
  PROVE  IInv'
<1> PICK r, p, keys : /\ r = client.request + 1 /\ keys = client.keys
                      /\ p = SendApplication(client, r, keys)
  OBVIOUS
<1>1. /\ client' = [client EXCEPT !.phase = "wait_response", !.pn = client.pn + 1,
                                  !.pending = client.pending \cup {p}, !.request = r]
      /\ net' = net \cup {p} /\ client.phase = "open" /\ client.request < MaxRequests
      /\ caller' = [caller EXCEPT ![client.request + 1] = <<"waiting">>]
      /\ UNCHANGED <<conn, opened, losses, executed>>
  BY DEF Reuse
<1>2. /\ IsClient(client)' /\ client'.phase = "wait_response"
      /\ client'.incarnation = client.incarnation /\ client'.pn = client.pn + 1
      /\ client'.transcript = client.transcript /\ client'.keys = client.keys
      /\ client'.processed = client.processed /\ client'.request = r
      /\ client'.pending = client.pending \cup {p}
  BY <1>1 DEF IInv, ClientFine, IsClient
<1>3. InSession /\ InSession' /\ ~Handshaking /\ ~Handshaking'
  BY <1>1, <1>2 DEF InSession, Handshaking
<1>4. Onward /\ ServerRests
  BY <1>1, <1>2, <1>3, QuicAssumption DEF IInv, ClientFine, ServerFine, Onward, ServerRests
<1>5. PICK x : x = Content(p)
  OBVIOUS
<1>6. /\ IsDatagram(p) /\ x.type = "APP_DATA" /\ x.dst = Server /\ x.pn = client.pn
      /\ x.body.keys = keys /\ x.body.data = r
  BY <1>5 DEF IsDatagram, SendApplication, ToServer, Datagram, Content
<1>7. Says({x})
  <2>1. \A q \in Sending' : q \in Sending \/ (IsDatagram(q) /\ Content(q) \in {x})
    BY <1>1, <1>2, <1>5, <1>6 DEF Sending, Out
  <2>2. QED
    BY <2>1, SaysFrom DEF IInv
<1>8. PICK i : i = client.incarnation
  OBVIOUS
<1>9. PICK e \in 1..opened : /\ Met(i, e) /\ client.keys = SessionKeys(i, e)
                             /\ client.transcript = Transcript(i, e)
  BY <1>3, <1>8 DEF IInv, ClientFine
<1>10. Met(i, e)' /\ e \in 1..opened' /\ i = client'.incarnation /\ keys = SessionKeys(i, e)
  BY <1>1, <1>2, <1>4, <1>8, <1>9, MetStays DEF IInv
<1>11. Finished(i, e)'
  BY <1>2, <1>3, <1>9, <1>10 DEF Finished, Met
<1>12. /\ client.request \in Nat /\ client.pn \in Nat /\ r \in Nat /\ r >= 1
       /\ client'.request \in 0..MaxRequests /\ client'.incarnation >= 1
       /\ client'.incarnation \in Nat /\ client'.incarnation <= client'.request
       /\ client'.pn \in Nat
  BY <1>1, <1>2, QuicAssumption DEF IInv, ClientFine
<1>13. Plausible(x)'
  <2>1. r \in 1..client'.request
    BY <1>2, <1>12
  <2>2. QED
    BY <1>6, <1>10, <1>11, <1>12, <2>1 DEF Plausible
<1>14. ClientFine'
  BY <1>2, <1>3, <1>9, <1>10, <1>12, ClientInSession
<1>15. MessagesFine' /\ ServerFine' /\ NothingLost /\ ExecutedStays
  BY <1>1, <1>4, <1>7, <1>13, MessagesStay, ServerRest, NoneExecuted DEF IInv
<1>16. /\ \A w \in FromClient("APP_DATA")' : w \in FromClient("APP_DATA") \/ w = x
       /\ FromServer("APP_DATA")' \subseteq FromServer("APP_DATA")
  BY <1>6, <1>7 DEF Says, FromClient, FromServer
<1>17. ResponsesFine'
  <2>1. ResponsesCalm
    BY <1>1, <1>2, <1>3, <1>16 DEF ResponsesCalm, Past
  <2>2. QED
    BY <1>15, <2>1, ResponsesKept DEF IInv
<1>18. \A w \in FromClient("APP_DATA") : /\ w.body.data \in 1..client.request
                                         /\ w.pn \in Nat /\ w.pn < client.pn
                                         /\ w.body.keys = keys => executed[w.body.data] = 1
  BY <1>1, <1>3, RequestRange DEF IInv, RequestsFine, FromClient, Past
<1>19. RequestsFine'
  <2>1. ASSUME NEW w \in FromClient("APP_DATA")'
        PROVE  /\ w.pn < client'.pn
               /\ client'.keys = w.body.keys /\ Past(w.body.data)' => executed'[w.body.data] = 1
    <3>1. CASE w = x
      BY <1>2, <1>6, <1>12, <3>1 DEF Past
    <3>2. CASE w \in FromClient("APP_DATA")
      BY <1>1, <1>2, <1>12, <1>18, <3>2
    <3>3. QED
      BY <1>16, <3>1, <3>2
  <2>2. ASSUME NEW v \in FromClient("APP_DATA")', NEW w \in FromClient("APP_DATA")'
        PROVE  /\ v.pn = w.pn => v.body = w.body
               /\ v.body.data = w.body.data => v.pn = w.pn
               /\ v.body.keys = w.body.keys /\ v.body.data < w.body.data
                    => executed'[v.body.data] = 1
    <3>1. CASE v \in FromClient("APP_DATA") /\ w \in FromClient("APP_DATA")
      BY <1>1, <3>1 DEF IInv, RequestsFine
    <3>2. CASE v = x /\ w = x
      BY <1>6, <1>12, <3>2
    <3>3. CASE v = x /\ w \in FromClient("APP_DATA")
      BY <1>6, <1>12, <1>18, <3>3
    <3>4. CASE v \in FromClient("APP_DATA") /\ w = x
      BY <1>1, <1>6, <1>12, <1>18, <3>4
    <3>5. QED
      BY <1>16, <3>1, <3>2, <3>3, <3>4
  <2>3. QED
    BY <1>3, <2>1, <2>2 DEF RequestsFine
<1>20. ServedFine'
  <2>1. ASSUME conn' # None, NEW w \in FromClient("APP_DATA")',
               w.body.keys = SessionKeys(conn'.peer, conn'.eph)
        PROVE  /\ executed'[w.body.data] = 1 =>
                    conn'.phase = "established" /\ w.pn \in conn'.processed
               /\ \A later \in Request : later > w.body.data /\ executed'[later] = 1
                                           => executed'[w.body.data] = 1
    <3>1. CASE w = x
      <4>1. r \in Request /\ Request \subseteq Nat
        BY <1>2, <1>12, QuicAssumption DEF Request
      <4>2. \A s \in Request : executed[s] = 1 => s <= client.request
        BY DEF IInv, CallersFine
      <4>3. executed[r] # 1 /\ \A s \in Request : s > r => executed[s] # 1
        BY <1>12, <4>1, <4>2
      <4>4. QED
        BY <1>1, <1>6, <3>1, <4>3
    <3>2. CASE w \in FromClient("APP_DATA")
      BY <1>1, <2>1, <3>2 DEF IInv, ServedFine
    <3>3. QED
      BY <1>16, <3>1, <3>2
  <2>2. QED
    BY <2>1 DEF ServedFine
<1>21. CallersFine'
  BY <1>1, <1>2, CallerWaits DEF IInv
<1>22. QED
  BY <1>1, <1>14, <1>15, <1>17, <1>19, <1>20, <1>21 DEF IInv

-----------------------------------------------------------------------------
(* The client's handshake *)

LEMMA StepServerHello ==
  ASSUME IInv, NEW p \in net, ReceiveServerHello(p)
  PROVE  IInv'
<1>1. /\ client.phase = "wait_sh" /\ p.dst = client.incarnation /\ p.type = "HANDSHAKE"
      /\ p.body.type = "ServerHello" /\ client.transcript = <<ClientHello(client.incarnation)>>
      /\ UNCHANGED <<conn, opened, losses, caller, executed>>
  BY DEF ReceiveServerHello, Handshakes, Addressed, IInv, ClientFine
<1> PICK i : i = client.incarnation
  OBVIOUS
<1>2. PICK e : p.body = ServerHello(e) /\ Met(i, e)
  <2>1. p.dst # Server
    BY <1>1, AddressAssumption DEF IInv, ClientFine
  <2>2. QED
    BY <1>1, <2>1, Arrived DEF IInv, Plausible
<1> PICK q : q = ToServer("HANDSHAKE", client.pn, Exchanged(i, e))
  OBVIOUS
<1>3. /\ client' = [client EXCEPT !.phase = "wait_sf", !.pn = client.pn + 1, !.pending = {q},
                                  !.transcript = client.transcript \o <<p.body, Exchanged(i, e)>>]
      /\ net' \subseteq net \cup {Ack(Server, p.pn), q}
  BY <1>2 DEF ReceiveServerHello, Deliver, Exchanged
<1>4. client.transcript \o <<p.body, Exchanged(i, e)>> = Upto3(i, e)
  BY <1>1, <1>2, JoinOne DEF Upto3
<1>5. /\ IsClient(client)' /\ client'.phase = "wait_sf" /\ client'.incarnation = i
      /\ client'.pn = client.pn + 1 /\ client'.transcript = Upto3(i, e)
      /\ client'.pending = {q} /\ client'.request = client.request
      /\ client'.keys = client.keys
  BY <1>3, <1>4 DEF IInv, ClientFine, IsClient
<1>6. ~InSession /\ ~InSession' /\ Handshaking /\ Handshaking'
  BY <1>1, <1>5 DEF InSession, Handshaking
<1>7. Onward /\ ServerRests
  BY <1>1, <1>5, <1>6, QuicAssumption DEF IInv, ClientFine, ServerFine, Onward, ServerRests
<1>8. Met(i, e)' /\ e \in 1..opened'
  BY <1>2, <1>7, MetStays DEF IInv, Met
<1>9. PICK x : x = Content(q)
  OBVIOUS
<1>10. /\ IsDatagram(q) /\ x.type = "HANDSHAKE" /\ x.dst = Server /\ x.body = Exchanged(i, e)
  BY <1>9 DEF IsDatagram, ToServer, Datagram, Content
<1>11. Says({x})
  <2>1. \A y \in Sending' : \/ y \in Sending
                            \/ IsDatagram(y) /\ (y.type = "ACK" \/ Content(y) \in {x})
    BY <1>1, <1>3, <1>5, <1>9, <1>10, Plain DEF Sending, Out
  <2>2. QED
    BY <2>1, SaysFrom DEF IInv
<1>12. Plausible(x)'
  BY <1>8, <1>10 DEF Plausible, Exchanged, ClientKeyExchange, ServerHello
<1>13. ClientFine'
  <2>1. client'.keys = None
    BY <1>5, <1>6 DEF IInv, ClientFine
  <2>2. /\ client'.incarnation \in Nat /\ client'.request \in 0..MaxRequests
        /\ client'.incarnation <= client'.request /\ client'.incarnation >= 1
        /\ client'.pn \in Nat
    BY <1>1, <1>5 DEF IInv, ClientFine
  <2>3. Met(client.incarnation, e)'
    BY <1>5, <1>8 DEF Met
  <2>4. QED
    BY <1>5, <1>6, <1>8, <2>1, <2>2, <2>3 DEF ClientFine, IsClient, ClientHello, Upto3
<1>14. MessagesFine' /\ ServerFine' /\ NothingLost /\ ExecutedStays
  BY <1>1, <1>7, <1>11, <1>12, MessagesStay, ServerRest, NoneExecuted DEF IInv
<1>15. /\ FromClient("APP_DATA")' \subseteq FromClient("APP_DATA")
       /\ FromServer("APP_DATA")' \subseteq FromServer("APP_DATA")
  BY <1>10, <1>11 DEF Says, FromClient, FromServer
<1>16. RequestsCalm /\ ServedCalm /\ ResponsesCalm
  BY <1>1, <1>5, <1>6, <1>15 DEF IInv, ClientFine, RequestsCalm, ServedCalm, ResponsesCalm
<1>17. RequestsFine' /\ ServedFine' /\ ResponsesFine'
  BY <1>7, <1>14, <1>16, RequestsKept, ServedKept, ResponsesKept DEF IInv, Onward
<1>18. CallersFine'
  BY <1>1, <1>5, <1>6 DEF IInv, CallersFine
<1>19. QED
  BY <1>1, <1>13, <1>14, <1>17, <1>18 DEF IInv

LEMMA StepServerFinished ==
  ASSUME IInv, NEW p \in net, ReceiveServerFinished(p)
  PROVE  IInv'
<1>1. /\ client.phase = "wait_sf"
      /\ ServerFinishedVerifies(p.body, ClientSecret, client.transcript)
      /\ UNCHANGED <<conn, opened, losses, caller, executed>>
  BY DEF ReceiveServerFinished, Handshakes
<1> PICK i : i = client.incarnation
  OBVIOUS
<1>2. PICK e \in 1..opened : Met(i, e) /\ client.transcript = Upto3(i, e)
  BY <1>1 DEF IInv, ClientFine
<1>3. /\ p.body = ServerMac(i, e) /\ ClientSecret = Shared(i, e)
      /\ Append(client.transcript, p.body) = Transcript(i, e)
  BY <1>1, <1>2, ClientDerives DEF ClientSecret
<1> PICK keys, cf, q : /\ keys = SessionKeys(i, e)
                       /\ cf = ToServer("HANDSHAKE", client.pn, ClientMac(i, e))
                       /\ q = ToServer("APP_DATA", client.pn + 1,
                                       [keys |-> keys, data |-> client.request])
  OBVIOUS
<1>4. [client EXCEPT !.pn = client.pn + 1].pn = client.pn + 1
  BY DEF IInv, ClientFine, IsClient
<1>5. q = SendApplication([client EXCEPT !.pn = client.pn + 1], client.request, keys)
  BY <1>4 DEF SendApplication
<1>6. /\ client' = [client EXCEPT !.phase = "wait_response", !.pn = client.pn + 2,
                                  !.transcript = Transcript(i, e), !.keys = keys,
                                  !.pending = {q}]
      /\ net' \subseteq net \cup {Ack(Server, p.pn), cf, q}
  BY <1>3, <1>5, KeysAre DEF ReceiveServerFinished, Deliver, ClientMac
<1>7. /\ IsClient(client)' /\ client'.phase = "wait_response" /\ client'.incarnation = i
      /\ client'.pn = client.pn + 2 /\ client'.transcript = Transcript(i, e)
      /\ client'.pending = {q} /\ client'.request = client.request
      /\ client'.keys = keys
  BY <1>6 DEF IInv, ClientFine, IsClient
<1>8. ~InSession /\ InSession' /\ Handshaking /\ ~Handshaking'
  BY <1>1, <1>7 DEF InSession, Handshaking
<1>9. Onward /\ ServerRests
  BY <1>1, <1>7, <1>8, QuicAssumption DEF IInv, ClientFine, ServerFine, Onward, ServerRests
<1>10. Met(i, e)' /\ e \in 1..opened'
  BY <1>2, <1>9, MetStays DEF IInv, Met
<1>11. Finished(i, e)'
  BY <1>7, <1>8, <1>10 DEF Finished, Met
<1>12. PICK x, y : x = Content(cf) /\ y = Content(q)
  OBVIOUS
<1>13. /\ IsDatagram(cf) /\ x.type = "HANDSHAKE" /\ x.dst = Server /\ x.body = ClientMac(i, e)
       /\ IsDatagram(q) /\ y.type = "APP_DATA" /\ y.dst = Server /\ y.pn = client.pn + 1
       /\ y.body.keys = keys /\ y.body.data = client.request
  BY <1>12 DEF IsDatagram, ToServer, Datagram, Content
<1>14. Says({x, y})
  <2>1. \A z \in Sending' : \/ z \in Sending
                            \/ IsDatagram(z) /\ (z.type = "ACK" \/ Content(z) \in {x, y})
    BY <1>1, <1>6, <1>7, <1>12, <1>13, Plain DEF Sending, Out
  <2>2. QED
    BY <2>1, SaysFrom DEF IInv
<1>15. /\ client.request \in Nat /\ client.pn \in Nat /\ client.request \in Request
       /\ client'.request \in 0..MaxRequests /\ client'.incarnation >= 1
       /\ client'.incarnation \in Nat /\ client'.incarnation <= client'.request
       /\ client'.pn \in Nat
  BY <1>1, <1>7, QuicAssumption DEF IInv, ClientFine, CallersFine
<1>16. Plausible(x)'
  BY <1>10, <1>11, <1>13 DEF Plausible, ClientMac, ClientFinished, Shared, Encapsulated,
     Decapsulate, Exchanged, ClientKeyExchange, ServerHello, Transcript, ClientHello,
     ServerMac, ServerFinished, Hellos, T1, T2
<1>17. Plausible(y)'
  <2>1. client.request \in 1..client'.request
    BY <1>7, <1>15
  <2>2. QED
    BY <1>10, <1>11, <1>13, <1>15, <2>1 DEF Plausible
<1>18. ClientFine'
  BY <1>7, <1>8, <1>10, <1>15, ClientInSession
<1>19. MessagesFine' /\ ServerFine' /\ NothingLost /\ ExecutedStays
  <2>1. \A w \in {x, y} : Plausible(w)'
    BY <1>16, <1>17
  <2>2. QED
    BY <1>1, <1>9, <1>14, <2>1, MessagesStay, ServerRest, NoneExecuted DEF IInv
<1>20. /\ \A w \in FromClient("APP_DATA")' : w \in FromClient("APP_DATA") \/ w = y
       /\ FromServer("APP_DATA")' \subseteq FromServer("APP_DATA")
  BY <1>13, <1>14 DEF Says, FromClient, FromServer
<1>21. ResponsesFine'
  <2>1. ResponsesCalm
    BY <1>7, <1>8, <1>20 DEF ResponsesCalm
  <2>2. QED
    BY <1>19, <2>1, ResponsesKept DEF IInv
\* Nothing has been sent under the keys of a handshake that was not over.
<1>22. \A w \in FromClient("APP_DATA") : /\ w.body.data \in 1..client.request
                                         /\ w.body.data < client.request
                                         /\ w.pn \in Nat /\ w.pn < client.pn
                                         /\ w.body.keys # keys
  <2> SUFFICES ASSUME NEW w \in FromClient("APP_DATA")
               PROVE  /\ w.body.data \in 1..client.request
                      /\ w.body.data < client.request
                      /\ w.pn \in Nat /\ w.pn < client.pn
                      /\ w.body.keys # keys
    OBVIOUS
  <2>1. w \in Wire /\ w.type = "APP_DATA"
    BY DEF FromClient
  <2>2. PICK j, f : w.body.keys = SessionKeys(j, f) /\ Finished(j, f)
    BY <2>1 DEF IInv, MessagesFine, Plausible
  <2>3. j # i
    BY <1>8, <2>2 DEF Finished
  <2>4. w.body.keys # keys
    BY <2>2, <2>3, KeysTell
  <2>5. QED
    BY <1>8, <2>1, <2>4, RequestRange DEF IInv, RequestsFine
<1>23. RequestsFine'
  <2>1. ASSUME NEW w \in FromClient("APP_DATA")'
        PROVE  /\ w.pn < client'.pn
               /\ client'.keys = w.body.keys /\ Past(w.body.data)' => executed'[w.body.data] = 1
    <3>1. CASE w = y
      BY <1>7, <1>13, <1>15, <3>1 DEF Past
    <3>2. CASE w \in FromClient("APP_DATA")
      BY <1>7, <1>15, <1>22, <3>2
    <3>3. QED
      BY <1>20, <3>1, <3>2
  <2>2. ASSUME NEW v \in FromClient("APP_DATA")', NEW w \in FromClient("APP_DATA")'
        PROVE  /\ v.pn = w.pn => v.body = w.body
               /\ v.body.data = w.body.data => v.pn = w.pn
               /\ v.body.keys = w.body.keys /\ v.body.data < w.body.data
                    => executed'[v.body.data] = 1
    <3>1. CASE v \in FromClient("APP_DATA") /\ w \in FromClient("APP_DATA")
      BY <1>1, <3>1 DEF IInv, RequestsFine
    <3>2. CASE v = y /\ w = y
      BY <1>13, <1>15, <3>2
    <3>3. CASE v = y /\ w \in FromClient("APP_DATA")
      BY <1>13, <1>15, <1>22, <3>3
    <3>4. CASE v \in FromClient("APP_DATA") /\ w = y
      BY <1>13, <1>15, <1>22, <3>4
    <3>5. QED
      BY <1>20, <3>1, <3>2, <3>3, <3>4
  <2>3. QED
    BY <1>8, <2>1, <2>2 DEF RequestsFine
<1>24. ServedFine'
  <2>1. ASSUME conn' # None, NEW w \in FromClient("APP_DATA")',
               w.body.keys = SessionKeys(conn'.peer, conn'.eph)
        PROVE  /\ executed'[w.body.data] = 1 =>
                    conn'.phase = "established" /\ w.pn \in conn'.processed
               /\ \A later \in Request : later > w.body.data /\ executed'[later] = 1
                                           => executed'[w.body.data] = 1
    <3>1. CASE w = y
      <4>1. \A s \in Request : executed[s] = 1 => s <= client.request /\ s < client.request
        BY <1>8 DEF IInv, CallersFine
      <4>2. executed[client.request] # 1 /\ \A s \in Request : s > client.request => executed[s] # 1
        <5>1. Request \subseteq Nat
          BY RequestRange DEF IInv
        <5>2. QED
          BY <1>15, <4>1, <5>1
      <4>3. QED
        BY <1>1, <1>13, <3>1, <4>2
    <3>2. CASE w \in FromClient("APP_DATA")
      BY <1>1, <2>1, <3>2 DEF IInv, ServedFine
    <3>3. QED
      BY <1>20, <3>1, <3>2
  <2>2. QED
    BY <2>1 DEF ServedFine
<1>25. CallersFine'
  BY <1>1, <1>7, <1>8 DEF IInv, CallersFine
<1>26. QED
  BY <1>1, <1>18, <1>19, <1>21, <1>23, <1>24, <1>25 DEF IInv

-----------------------------------------------------------------------------
(* The server's handshake *)

LEMMA ServerSays ==
  ASSUME IInv, UNCHANGED <<client, caller, executed, losses>>, Onward, ServerFine', NothingLost,
         NEW q, IsDatagram(q), q.type # "APP_DATA", NEW x, x = Content(q), Plausible(x)',
         \A z \in Sending' : z \in Sending \/ z = q \/ \E dst, pn : z = Ack(dst, pn)
  PROVE  IInv'
<1>1. Says({x})
  <2>1. \A z \in Sending' : \/ z \in Sending
                            \/ IsDatagram(z) /\ (z.type = "ACK" \/ Content(z) \in {x})
    BY Plain
  <2>2. QED
    BY <2>1, SaysFrom DEF IInv
<1>2. ClientRests
  BY DEF IInv, ClientFine, ClientRests, IsClient
<1>3. x.type # "APP_DATA" /\ losses' \in 0..MaxLoss
  BY DEF Content, IInv
<1>4. QED
  BY <1>1, <1>2, <1>3, ServerTurn

LEMMA ServerSilent ==
  ASSUME IInv, UNCHANGED <<client, caller, executed, losses>>, Onward, ServerFine', NothingLost,
         \A z \in Sending' : \/ z \in Sending
                             \/ \E y \in Sending : CopyOf(z, y)
                             \/ \E dst, pn : z = Ack(dst, pn)
  PROVE  IInv'
<1>1. Says({})
  <2>1. \A z \in Sending' : \/ z \in Sending
                            \/ IsDatagram(z) /\ (z.type = "ACK" \/ Content(z) \in Wire)
    BY Plain DEF CopyOf, Wire
  <2>2. QED
    BY <2>1, SaysFrom DEF IInv
<1>2. ClientRests
  BY DEF IInv, ClientFine, ClientRests, IsClient
<1>3. losses' \in 0..MaxLoss
  BY DEF IInv
<1>4. QED
  BY <1>1, <1>2, <1>3, ServerTurn

\* The client rests, and so does the server but for what it has sent.
LEMMA StillOnward ==
  ASSUME IInv, client' = client, ServerRests
  PROVE  Onward /\ ServerFine' /\ NothingLost
<1>1. ClientRests
  BY DEF IInv, ClientFine, ClientRests, IsClient
<1>2. QED
  BY <1>1, BothRest, ServerRest DEF IInv

LEMMA PeerMet ==
  ASSUME IInv, conn # None
  PROVE  /\ Met(conn.peer, conn.eph) /\ conn.peer # Server /\ IsConnection(conn)
         /\ conn.pn \in 0..MaxServerPackets /\ conn.eph = opened
         /\ \A q \in conn.sent : q.dst = conn.peer /\ q.pn \in Nat /\ q.pn < conn.pn /\ q \in Sending /\ CopyOf(q, q)
<1>1. ConnectionFine(conn) /\ opened \in Nat
  BY QuicAssumption DEF IInv, ServerFine
<1>2. conn.eph \in 1..opened /\ conn.peer \in Nat
  BY <1>1 DEF ConnectionFine, IInv, ClientFine
<1>3. Met(conn.peer, conn.eph) /\ conn.peer # Server
  BY <1>1, <1>2, AddressAssumption DEF ConnectionFine, Met
<1>4. \A q \in conn.sent : q \in Sending /\ CopyOf(q, q)
  BY DEF IInv, MessagesFine, Sending, Out, CopyOf
<1>5. QED
  BY <1>1, <1>3, <1>4 DEF ConnectionFine

\* What _send_packet does to the connection.
LEMMA SentIs ==
  ASSUME IInv, conn # None, MaySend(conn), NEW q, q.dst = conn.peer, q.pn = conn.pn
  PROVE  LET c == Sent(conn, q)
         IN  /\ IsConnection(c) /\ c.pn = conn.pn + 1 /\ c.sent = conn.sent \cup {q}
             /\ c.pn \in 0..MaxServerPackets /\ c.pn >= conn.pn
             /\ \A y \in c.sent : y.dst = conn.peer /\ y.pn \in Nat /\ y.pn < c.pn
             /\ c.peer = conn.peer /\ c.eph = conn.eph /\ c.phase = conn.phase
             /\ c.transcript = conn.transcript /\ c.secret = conn.secret
             /\ c.keys = conn.keys /\ c.processed = conn.processed
<1> PICK c : c = Sent(conn, q)
  OBVIOUS
<1>1. /\ IsConnection(c) /\ c.pn = conn.pn + 1 /\ c.sent = conn.sent \cup {q}
      /\ c.peer = conn.peer /\ c.eph = conn.eph /\ c.phase = conn.phase
      /\ c.transcript = conn.transcript /\ c.secret = conn.secret
      /\ c.keys = conn.keys /\ c.processed = conn.processed
  BY PeerMet DEF Sent, IsConnection
<1>2. conn.pn \in Nat /\ c.pn \in 0..MaxServerPackets /\ c.pn >= conn.pn /\ c.pn = conn.pn + 1
  BY <1>1, PeerMet, QuicAssumption DEF MaySend
<1>3. \A y \in c.sent : y.dst = conn.peer /\ y.pn \in Nat /\ y.pn < c.pn
  <2>1. ASSUME NEW y \in conn.sent
        PROVE  y.dst = conn.peer /\ y.pn \in Nat /\ y.pn < c.pn
    BY <1>2, <2>1, PeerMet
  <2>2. QED
    BY <1>1, <1>2, <2>1
<1>4. QED
  BY <1>1, <1>2, <1>3

\* Sending once more what the handshake has already produced.
LEMMA Resending ==
  ASSUME IInv, conn # None, MaySend(conn), conn.phase # "await_initial",
         NEW body, body.type = "ServerFinished" \/ body = ServerHello(conn.eph),
         NEW q, q = ToPeer(conn, "HANDSHAKE", body), conn' = Sent(conn, q),
         \A z \in net' : z \in net \/ z = q \/ \E dst, pn : z = Ack(dst, pn),
         UNCHANGED <<client, opened, losses, caller, executed>>
  PROVE  IInv'
<1>1. /\ IsDatagram(q) /\ q.type = "HANDSHAKE" /\ q.dst = conn.peer /\ q.pn = conn.pn
      /\ q.body = body
  BY DEF ToPeer, Datagram, IsDatagram
<1>2. ServerRests /\ conn'.sent = conn.sent \cup {q}
  BY <1>1, SentIs DEF ServerRests
<1>3. Onward /\ ServerFine' /\ NothingLost
  BY <1>2, StillOnward
<1> PICK x, i, e : x = Content(q) /\ i = conn.peer /\ e = conn.eph
  OBVIOUS
<1>4. Met(i, e)'
  BY <1>3, PeerMet, MetStays DEF IInv
<1>5. x.type = "HANDSHAKE" /\ x.dst = i /\ x.dst # Server /\ x.body = body
  BY <1>1, PeerMet DEF Content
<1>6. Plausible(x)'
  BY <1>4, <1>5 DEF Plausible, ServerHello
<1>7. \A z \in Sending' : z \in Sending \/ z = q \/ \E dst, pn : z = Ack(dst, pn)
  BY <1>2 DEF Sending, Out
<1>8. q.type # "APP_DATA"
  BY <1>1
<1>9. QED
  BY <1>1, <1>3, <1>6, <1>7, <1>8, ServerSays

LEMMA StepResendHello ==
  ASSUME IInv, NEW p \in net, ResendServerHello(p)
  PROVE  IInv'
<1> PICK body, q : body = ServerHello(conn.eph) /\ q = ToPeer(conn, "HANDSHAKE", body)
  OBVIOUS
<1>1. conn' = Sent(conn, q) /\ net' \subseteq net \cup {Ack(conn.peer, p.pn), q}
  BY DEF ResendServerHello, Deliver
<1>2. conn # None /\ conn.phase # "await_initial" /\ MaySend(conn)
  BY DEF ResendServerHello, InPhase
<1>3. \A z \in net' : z \in net \/ z = q \/ \E dst, pn : z = Ack(dst, pn)
  BY <1>1
<1>4. QED
  BY <1>1, <1>2, <1>3, Resending DEF ResendServerHello

LEMMA StepResendFinished ==
  ASSUME IInv, NEW p \in net, ResendServerFinished(p)
  PROVE  IInv'
<1> PICK body, q : /\ body = ServerFinished(conn.secret, conn.transcript)
                   /\ q = ToPeer(conn, "HANDSHAKE", body)
  OBVIOUS
<1>1. conn' = Sent(conn, q) /\ net' \subseteq net \cup {Ack(conn.peer, p.pn), q}
  BY DEF ResendServerFinished, Deliver
<1>2. conn # None /\ conn.phase # "await_initial" /\ MaySend(conn)
  BY DEF ResendServerFinished, InPhase
<1>3. \A z \in net' : z \in net \/ z = q \/ \E dst, pn : z = Ack(dst, pn)
  BY <1>1
<1>4. body.type = "ServerFinished"
  BY DEF ServerFinished
<1>5. QED
  BY <1>1, <1>2, <1>3, <1>4, Resending DEF ResendServerFinished

LEMMA StepServerAck ==
  ASSUME IInv, NEW p \in net, ServerReceiveAck(p)
  PROVE  IInv'
<1>1. /\ conn # None /\ conn' = [conn EXCEPT !.sent = {q \in conn.sent : q.pn # p.pn}]
      /\ net' \subseteq net /\ UNCHANGED <<client, opened, losses, caller, executed>>
  BY DEF ServerReceiveAck, Deliver
<1>2. /\ IsConnection(conn)' /\ conn'.sent \subseteq conn.sent
      /\ conn'.peer = conn.peer /\ conn'.eph = conn.eph /\ conn'.phase = conn.phase
      /\ conn'.transcript = conn.transcript /\ conn'.secret = conn.secret
      /\ conn'.keys = conn.keys /\ conn'.processed = conn.processed /\ conn'.pn = conn.pn
  BY <1>1, PeerMet DEF IsConnection
<1>3. ServerRests
  <2>1. conn.pn \in Nat /\ (conn.phase = "await_initial" => conn.pn = 0)
    BY <1>1, PeerMet, QuicAssumption DEF IInv, ServerFine, ConnectionFine
  <2>2. QED
    BY <1>1, <1>2, <2>1, PeerMet DEF ServerRests
<1>4. \A z \in Sending' : z \in Sending
  BY <1>1, <1>2 DEF Sending, Out
<1>5. QED
  BY <1>1, <1>3, <1>4, StillOnward, ServerSilent

LEMMA StepRetransmit ==
  ASSUME IInv, ServerRetransmit
  PROVE  IInv'
<1>1. PICK q \in conn.sent : /\ conn' = [conn EXCEPT !.sent = (conn.sent \ {q}) \cup {Again(q, 1)}]
                             /\ net' = net \cup {Again(q, 1)}
  BY DEF ServerRetransmit
<1>2. conn # None /\ UNCHANGED <<client, opened, losses, caller, executed>>
  BY DEF ServerRetransmit
<1>3. PICK z : z = Again(q, 1)
  OBVIOUS
<1>4. q \in Sending /\ CopyOf(z, q) /\ z.dst = q.dst /\ z.pn = q.pn
  BY <1>1, <1>2, <1>3, PeerMet, Resent DEF CopyOf, Content
<1>5. /\ IsConnection(conn)' /\ conn'.sent = (conn.sent \ {q}) \cup {z}
      /\ conn'.peer = conn.peer /\ conn'.eph = conn.eph /\ conn'.phase = conn.phase
      /\ conn'.transcript = conn.transcript /\ conn'.secret = conn.secret
      /\ conn'.keys = conn.keys /\ conn'.processed = conn.processed /\ conn'.pn = conn.pn
  BY <1>1, <1>2, <1>3, PeerMet DEF IsConnection
<1>6. ServerRests
  <2>1. conn.pn \in Nat /\ (conn.phase = "await_initial" => conn.pn = 0)
    BY <1>2, PeerMet, QuicAssumption DEF IInv, ServerFine, ConnectionFine
  <2>2. \A y \in conn'.sent : y.dst = conn.peer /\ y.pn \in Nat /\ y.pn < conn'.pn
    BY <1>1, <1>2, <1>4, <1>5, PeerMet
  <2>3. QED
    BY <1>2, <1>5, <2>1, <2>2, PeerMet DEF ServerRests
<1>7. \A y \in Sending' : y \in Sending \/ y = z
  BY <1>1, <1>2, <1>3, <1>5 DEF Sending, Out
<1>8. QED
  BY <1>2, <1>4, <1>6, <1>7, StillOnward, ServerSilent

LEMMA StepClose ==
  ASSUME IInv, NEW p \in net, ReceiveClose(p)
  PROVE  IInv'
<1>1. /\ conn' = None /\ net' \subseteq net
      /\ UNCHANGED <<client, opened, losses, caller, executed>>
  BY DEF ReceiveClose, Deliver
<1>2. Onward /\ ServerFine' /\ NothingLost
  BY <1>1, QuicAssumption
     DEF IInv, ClientFine, ServerFine, Onward, NothingLost, Handshaking, InSession
<1>3. \A z \in Sending' : z \in Sending
  BY <1>1 DEF Sending, Out
<1>4. QED
  BY <1>1, <1>2, <1>3, ServerSilent

LEMMA StepInitial ==
  ASSUME IInv, NEW p \in net, ReceiveInitial(p)
  PROVE  IInv'
<1>1. PICK i \in 1..client.incarnation : p.body = ClientHello(i)
  BY Arrived DEF ReceiveInitial, Arrives, IInv, Plausible
<1>2. /\ conn = None => opened < MaxConnections
      /\ opened' = IF conn = None THEN opened + 1 ELSE opened
      /\ UNCHANGED <<client, losses, caller, executed>>
  BY DEF ReceiveInitial
<1>3. i \in Nat /\ i # Server /\ i \in 1..client'.incarnation
  BY <1>2, AddressAssumption DEF IInv, ClientFine
\* A connection that is there already has failed to find a common mode.
<1>4. conn # None => conn.phase = "await_initial" /\ ~CommonMode
  BY DEF ReceiveInitial, InPhase, IInv, ServerFine, ConnectionFine
<1> PICK c : c = IF conn = None THEN NewConnection(i) ELSE conn
  OBVIOUS
<1>5. NewConnection(p.body.random) = NewConnection(i)
  BY <1>1 DEF ClientHello
<1>6. CASE conn # None
  <2>1. conn' = conn /\ net' \subseteq net \cup {Ack(c.peer, p.pn)} /\ ServerRests
    BY <1>2, <1>4, <1>6 DEF ReceiveInitial, Deliver, ServerRests
  <2>2. \A z \in Sending' : z \in Sending \/ \E dst, pn : z = Ack(dst, pn)
    BY <1>2, <2>1 DEF Sending, Out
  <2>3. QED
    BY <1>2, <2>1, <2>2, StillOnward, ServerSilent
<1>7. CASE conn = None
  <2>1. /\ c = [peer |-> i, eph |-> opened + 1, phase |-> "await_initial", pn |-> 0,
                transcript |-> <<>>, secret |-> None, keys |-> None, sent |-> {},
                processed |-> {}]
    BY <1>7 DEF NewConnection
  <2> PICK e, body, q : /\ e = opened + 1 /\ body = ServerHello(e)
                        /\ q = ToPeer(c, "HANDSHAKE", body)
    OBVIOUS
  <2>2. opened \in Nat /\ e \in Nat /\ opened' = e /\ e > opened /\ e \in 0..MaxConnections
    BY <1>2, <1>7, QuicAssumption DEF IInv, ServerFine
  <2>3. /\ IsDatagram(q) /\ q.type = "HANDSHAKE" /\ q.dst = i /\ q.pn = 0 /\ q.body = body
    BY <2>1 DEF ToPeer, Datagram, IsDatagram
  <2>4. CASE CommonMode
    <3> PICK d : d = Sent(c, q)
      OBVIOUS
    <3>1. /\ conn' = [d EXCEPT !.phase = "await_cke", !.transcript = Hellos(i, e)]
          /\ net' \subseteq net \cup {Ack(c.peer, p.pn), q}
      <4>1. c = (IF conn = None THEN NewConnection(p.body.random) ELSE conn) /\ c.eph = e
        BY <1>5, <1>7, <2>1
      <4>2. /\ conn' = [d EXCEPT !.phase = "await_cke", !.transcript = <<p.body, body>>]
            /\ Deliver(p, {Ack(c.peer, p.pn), q})
        BY <2>4, <4>1 DEF ReceiveInitial
      <4>3. QED
        BY <1>1, <4>2 DEF Deliver, Hellos
    <3>2. /\ IsConnection(conn)' /\ conn'.peer = i /\ conn'.eph = e /\ conn'.phase = "await_cke"
          /\ conn'.pn = 1 /\ conn'.transcript = Hellos(i, e) /\ conn'.keys = None
          /\ conn'.sent = {q}
      <4>1. /\ IsConnection(c) /\ c.peer = i /\ c.eph = e /\ c.pn = 0 /\ c.keys = None
            /\ c.sent = {}
        BY <2>1 DEF IsConnection
      <4>2. /\ IsConnection(d) /\ d.peer = i /\ d.eph = e /\ d.pn = 0 + 1 /\ d.keys = None
            /\ d.sent = {} \cup {q}
        BY <4>1 DEF Sent, IsConnection
      <4>3. /\ IsConnection(conn)' /\ conn'.peer = d.peer /\ conn'.eph = d.eph
            /\ conn'.phase = "await_cke" /\ conn'.pn = d.pn /\ conn'.keys = d.keys
            /\ conn'.transcript = Hellos(i, e) /\ conn'.sent = d.sent
        BY <3>1, <4>2 DEF IsConnection
      <4>4. QED
        BY <4>2, <4>3
    <3>3. Onward /\ NothingLost
      BY <1>2, <2>2, <3>2, QuicAssumption
         DEF IInv, ClientFine, ServerFine, Onward, NothingLost, Handshaking, InSession
    <3>4. ServerFine'
      <4>1. Greeted(conn)'
        BY <3>2 DEF Greeted, Hellos, ClientHello, ServerHello
      <4>2. 1 \in 0..MaxServerPackets
        BY QuicAssumption
      <4>3. \A y \in conn'.sent : y.dst = conn'.peer /\ y.pn \in Nat /\ y.pn < conn'.pn
        BY <2>3, <3>2
      <4>4. CommonMode = (conn'.phase # "await_initial")
        BY <2>4, <3>2, QuicAssumption
      <4>5. ConnectionFine(conn)'
        BY <1>3, <2>2, <3>2, <4>1, <4>2, <4>3, <4>4 DEF ConnectionFine, IsConnection
      <4>6. QED
        BY <2>2, <4>5 DEF ServerFine
    <3>5. PICK x : x = Content(q)
      OBVIOUS
    <3>6. Met(i, e)'
      BY <1>3, <2>2, <3>2 DEF Met
    <3>7. Plausible(x)'
      BY <1>3, <2>3, <3>5, <3>6 DEF Plausible, Content, ServerHello
    <3>8. \A z \in Sending' : z \in Sending \/ z = q \/ \E dst, pn : z = Ack(dst, pn)
      BY <1>2, <3>1, <3>2 DEF Sending, Out
    <3>9. q.type # "APP_DATA"
      BY <2>3
    <3>10. QED
      BY <1>2, <2>3, <3>3, <3>4, <3>5, <3>7, <3>8, <3>9, ServerSays
  <2>5. CASE ~CommonMode
    <3>1. conn' = c /\ net' \subseteq net \cup {Ack(c.peer, p.pn)}
      BY <1>5, <1>7, <2>5 DEF ReceiveInitial, Deliver
    <3>2. /\ IsConnection(conn)' /\ conn'.peer = i /\ conn'.eph = e /\ conn'.sent = {}
          /\ conn'.phase = "await_initial" /\ conn'.pn = 0 /\ conn'.keys = None
      BY <2>1, <3>1 DEF IsConnection
    <3>3. Onward /\ NothingLost
      BY <1>2, <2>2, <3>2, QuicAssumption
         DEF IInv, ClientFine, ServerFine, Onward, NothingLost, Handshaking, InSession
    <3>4. ServerFine'
      <4>1. ConnectionFine(conn)'
        BY <1>3, <2>2, <2>5, <3>2, QuicAssumption DEF ConnectionFine, IsConnection
      <4>2. QED
        BY <2>2, <4>1 DEF ServerFine
    <3>5. \A z \in Sending' : z \in Sending \/ \E dst, pn : z = Ack(dst, pn)
      BY <1>2, <3>1, <3>2 DEF Sending, Out
    <3>6. QED
      BY <1>2, <3>3, <3>4, <3>5, ServerSilent
  <2>6. QED
    BY <2>4, <2>5
<1>8. QED
  BY <1>6, <1>7

\* Whatever stands in a transcript that waits for ClientKeyExchange, the hellos
\* are the first two.
LEMMA GreetedHellos ==
  ASSUME NEW c, Greeted(c)
  PROVE  /\ T1(c.transcript) = Hellos(c.peer, c.eph)
         /\ T1(Hellos(c.peer, c.eph)) = Hellos(c.peer, c.eph)
BY Covered DEF Greeted, Hellos

LEMMA StepKeyExchange ==
  ASSUME IInv, NEW p \in net, ReceiveClientKeyExchange(p)
  PROVE  IInv'
<1>1. /\ conn # None /\ conn.phase = "await_cke" /\ MaySend(conn)
      /\ p.body.type = "ClientKeyExchange" /\ UNCHANGED <<client, opened, losses, caller, executed>>
  BY DEF ReceiveClientKeyExchange, InPhase
<1>2. ConnectionFine(conn) /\ Greeted(conn)
  BY <1>1 DEF IInv, ServerFine, ConnectionFine
<1> PICK i, e, cke, secret, sf, q :
      /\ i = conn.peer /\ e = conn.eph /\ cke = p.body /\ secret = Decapsulate(conn.eph, cke)
      /\ sf = ServerFinished(secret, conn.transcript)
      /\ q = ToPeer(conn, "HANDSHAKE", sf)
  OBVIOUS
<1> PICK d, transcript : d = Sent(conn, q) /\ transcript = conn.transcript \o <<cke, sf>>
  OBVIOUS
<1>3. /\ IsDatagram(q) /\ q.type = "HANDSHAKE" /\ q.dst = conn.peer /\ q.pn = conn.pn
      /\ q.body = sf /\ sf.type = "ServerFinished"
  BY DEF ToPeer, Datagram, IsDatagram, ServerFinished
<1>4. /\ IsConnection(d) /\ d.sent = conn.sent \cup {q}
      /\ d.pn \in 0..MaxServerPackets /\ d.pn >= conn.pn
      /\ \A y \in d.sent : y.dst = conn.peer /\ y.pn \in Nat /\ y.pn < d.pn
      /\ d.peer = i /\ d.eph = e /\ d.phase = conn.phase
      /\ d.transcript = conn.transcript /\ d.secret = conn.secret
      /\ d.keys = conn.keys /\ d.processed = conn.processed
  BY <1>1, <1>3, SentIs
<1>5. /\ conn' = [d EXCEPT !.phase = "await_cf", !.secret = secret, !.transcript = transcript]
      /\ net' \subseteq net \cup {Ack(conn.peer, p.pn), q}
  BY <1>4 DEF ReceiveClientKeyExchange, Deliver
<1>6. /\ IsConnection(conn)' /\ conn'.sent = d.sent /\ conn'.pn = d.pn /\ conn'.peer = i
      /\ conn'.eph = e /\ conn'.phase = "await_cf" /\ conn'.transcript = transcript
      /\ conn'.secret = secret /\ conn'.keys = conn.keys /\ conn'.processed = conn.processed
  BY <1>4, <1>5 DEF IsConnection
<1>7. Onward /\ NothingLost
  <2>1. conn.pn \in Nat /\ conn'.pn \in Nat
    BY <1>1, <1>4, <1>6, PeerMet, QuicAssumption
  <2>2. QED
    BY <1>1, <1>4, <1>6, <2>1, QuicAssumption
       DEF IInv, ClientFine, ServerFine, Onward, NothingLost, SameConnection, Handshaking, InSession
<1>8. KeyExchanged(conn)'
  <2>1. sf = ServerFinished(secret, Hellos(i, e))
    BY <1>2, GreetedHellos DEF ServerFinished
  <2>2. CASE conn.transcript = Hellos(i, e)
    <3>1. transcript = <<ClientHello(i), ServerHello(e), cke, sf>>
      BY <2>2, JoinTwo DEF Hellos
    <3>2. QED
      BY <1>6, <2>1, <3>1 DEF KeyExchanged, Hellos
  <2>3. ASSUME NEW m, m.type # "ClientKeyExchange",
               conn.transcript = <<ClientHello(i), ServerHello(e), m>>
        PROVE  KeyExchanged(conn)'
    <3>1. transcript = <<ClientHello(i), ServerHello(e), m, cke, sf>>
      BY <2>3, JoinThree
    <3>2. QED
      BY <1>6, <2>1, <2>3, <3>1 DEF KeyExchanged, Hellos
  <2>4. QED
    BY <1>2, <2>2, <2>3 DEF Greeted
<1>9. ServerFine'
  <2>1. /\ conn'.eph = opened' /\ opened' >= 1 /\ conn'.peer \in 1..client'.incarnation
        /\ CommonMode = (conn'.phase # "await_initial") /\ conn'.keys = None
    BY <1>1, <1>2, <1>6 DEF ConnectionFine
  <2>2. \A y \in conn'.sent : y.dst = conn'.peer /\ y.pn \in Nat /\ y.pn < conn'.pn
    BY <1>4, <1>6
  <2>3. conn'.pn \in 0..MaxServerPackets
    BY <1>4, <1>6
  <2>4. ConnectionFine(conn)'
    BY <1>6, <1>8, <2>1, <2>2, <2>3 DEF ConnectionFine, IsConnection
  <2>5. QED
    BY <1>1, <2>4 DEF IInv, ServerFine
<1>10. PICK x : x = Content(q)
  OBVIOUS
<1>11. x.type = "HANDSHAKE" /\ x.dst # Server /\ x.body = sf
  BY <1>1, <1>3, <1>10, PeerMet DEF Content
<1>12. Plausible(x)'
  BY <1>3, <1>11 DEF Plausible
<1>13. \A z \in Sending' : z \in Sending \/ z = q \/ \E dst, pn : z = Ack(dst, pn)
  BY <1>1, <1>4, <1>5, <1>6 DEF Sending, Out
<1>14. q.type # "APP_DATA"
  BY <1>3
<1>15. QED
  BY <1>1, <1>3, <1>7, <1>9, <1>10, <1>12, <1>13, <1>14, ServerSays

LEMMA StepPoison ==
  ASSUME IInv, NEW p \in net, PoisonTranscript(p)
  PROVE  IInv'
<1>1. /\ conn # None /\ conn.phase = "await_cke" /\ Len(conn.transcript) = 2
      /\ p.body.type # "ClientKeyExchange" /\ UNCHANGED <<client, opened, losses, caller, executed>>
      /\ conn' = [conn EXCEPT !.transcript = Append(conn.transcript, p.body)]
      /\ net' \subseteq net \cup {Ack(conn.peer, p.pn)}
  BY DEF PoisonTranscript, InPhase, Deliver
<1>2. ConnectionFine(conn) /\ Greeted(conn)
  BY <1>1 DEF IInv, ServerFine, ConnectionFine
<1> PICK i, e, m : i = conn.peer /\ e = conn.eph /\ m = p.body
  OBVIOUS
<1>3. conn.transcript = Hellos(i, e)
  <2>1. \A y : Len(<<ClientHello(i), ServerHello(e), y>>) # 2
    OBVIOUS
  <2>2. QED
    BY <1>1, <1>2, <2>1 DEF Greeted
<1>4. Append(conn.transcript, p.body) = <<ClientHello(i), ServerHello(e), m>>
  BY <1>3, AppendToTwo DEF Hellos
<1>5. /\ IsConnection(conn)' /\ conn'.sent = conn.sent /\ conn'.pn = conn.pn /\ conn'.peer = i
      /\ conn'.eph = e /\ conn'.phase = "await_cke"
      /\ conn'.transcript = <<ClientHello(i), ServerHello(e), m>>
      /\ conn'.keys = conn.keys /\ conn'.processed = conn.processed
  BY <1>1, <1>4, PeerMet DEF IsConnection
<1>6. Onward /\ NothingLost
  <2>1. conn.pn \in Nat /\ conn'.pn \in Nat
    BY <1>1, <1>5, PeerMet, QuicAssumption
  <2>2. QED
    BY <1>1, <1>5, <2>1, QuicAssumption
       DEF IInv, ClientFine, ServerFine, Onward, NothingLost, SameConnection, Handshaking, InSession
<1>7. Greeted(conn)'
  BY <1>1, <1>5 DEF Greeted
<1>8. ServerFine'
  <2>1. /\ conn'.eph = opened' /\ opened' >= 1 /\ conn'.peer \in 1..client'.incarnation
        /\ CommonMode = (conn'.phase # "await_initial") /\ conn'.keys = None
        /\ conn'.pn \in 0..MaxServerPackets
        /\ \A y \in conn'.sent : y.dst = conn'.peer /\ y.pn \in Nat /\ y.pn < conn'.pn
    BY <1>1, <1>2, <1>5 DEF ConnectionFine
  <2>2. ConnectionFine(conn)'
    BY <1>5, <1>7, <2>1 DEF ConnectionFine, IsConnection
  <2>3. QED
    BY <1>1, <2>2 DEF IInv, ServerFine
<1>9. \A z \in Sending' : z \in Sending \/ \E dst, pn : z = Ack(dst, pn)
  BY <1>1, <1>5 DEF Sending, Out
<1>10. QED
  BY <1>1, <1>6, <1>8, <1>9, ServerSilent

LEMMA AppendKeepsFirst ==
  ASSUME NEW a, NEW b, NEW c, NEW d, NEW x
  PROVE  Append(<<a, b, c, d>>, x)[1] = a
<1> DEFINE S == {a, b, c, d, x}
           s == <<a, b, c, d>>
<1>1. s \in Seq(S) /\ x \in S /\ Len(s) = 4 /\ s[1] = a
  OBVIOUS
<1> HIDE DEF S, s
<1>2. Append(s, x)[1] = s[1]
  BY <1>1, AppendProperties
<1>3. QED
  BY <1>1, <1>2 DEF s

LEMMA StepClientFinished ==
  ASSUME IInv, NEW p \in net, ReceiveClientFinished(p)
  PROVE  IInv'
<1>1. /\ conn # None /\ conn.phase = "await_cf" /\ p.type = "HANDSHAKE" /\ p.dst = Server
      /\ p.body.type # "ClientKeyExchange" /\ UNCHANGED <<client, opened, losses, caller, executed>>
      /\ net' \subseteq net \cup {Ack(conn.peer, p.pn)}
  BY DEF ReceiveClientFinished, Arrives, InPhase, Deliver
<1>2. ConnectionFine(conn) /\ KeyExchanged(conn)
  BY <1>1 DEF IInv, ServerFine, ConnectionFine
<1>3. CASE ~ClientFinishedVerifies(p.body, conn.secret, conn.transcript)
  <2>1. conn' = conn /\ ServerRests
    BY <1>1, <1>3 DEF ReceiveClientFinished, ServerRests
  <2>2. \A z \in Sending' : z \in Sending \/ \E dst, pn : z = Ack(dst, pn)
    BY <1>1, <2>1 DEF Sending, Out
  <2>3. QED
    BY <1>1, <2>1, <2>2, StillOnward, ServerSilent
<1>4. CASE ClientFinishedVerifies(p.body, conn.secret, conn.transcript)
  <2>1. PICK i, e : Met(i, e) /\ p.body = ClientMac(i, e) /\ Finished(i, e)
    <3>1. Plausible(Content(p)) /\ Content(p).type = "HANDSHAKE" /\ Content(p).dst = Server
          /\ Content(p).body = p.body
      BY <1>1, Arrived DEF IInv
    <3>2. \E i, e : Met(i, e) /\ (p.body = Exchanged(i, e) \/ (p.body = ClientMac(i, e) /\ Finished(i, e)))
      BY <3>1 DEF Plausible
    <3>3. \A i, e : p.body # Exchanged(i, e)
      BY <1>1 DEF Exchanged, ClientKeyExchange
    <3>4. QED
      BY <3>2, <3>3
  <2>2. /\ i = conn.peer /\ e = conn.eph
        /\ ApplicationKeys(conn.secret, conn.transcript) = SessionKeys(i, e)
        /\ conn.transcript = Transcript(i, e)
    BY <1>2, <1>4, <2>1, ServerDerives
  <2>3. PICK transcript, keys : /\ transcript = Append(conn.transcript, p.body)
                                /\ keys = SessionKeys(i, e)
    OBVIOUS
  <2>4. transcript[1] = ClientHello(i)
    BY <2>2, <2>3, AppendKeepsFirst DEF Transcript
  <2>5. conn' = [conn EXCEPT !.phase = "established", !.transcript = transcript, !.keys = keys]
    BY <1>4, <2>2, <2>3 DEF ReceiveClientFinished
  <2>6. /\ IsConnection(conn)' /\ conn'.sent = conn.sent /\ conn'.pn = conn.pn
        /\ conn'.peer = i /\ conn'.eph = e /\ conn'.phase = "established"
        /\ conn'.transcript = transcript /\ conn'.keys = keys
        /\ conn'.processed = conn.processed
    BY <1>1, <2>2, <2>5, PeerMet DEF IsConnection
  <2>7. Onward /\ NothingLost
    <3>1. conn.pn \in Nat /\ conn'.pn \in Nat
      BY <1>1, <2>6, PeerMet, QuicAssumption
    <3>2. QED
      BY <1>1, <2>2, <2>6, <3>1, QuicAssumption
         DEF IInv, ClientFine, ServerFine, Onward, NothingLost, SameConnection, Handshaking, InSession
  <2>8. ServerFine'
    <3>1. /\ conn'.eph = opened' /\ opened' >= 1 /\ conn'.peer \in 1..client'.incarnation
          /\ CommonMode = (conn'.phase # "await_initial")
          /\ conn'.pn \in 0..MaxServerPackets
          /\ \A y \in conn'.sent : y.dst = conn'.peer /\ y.pn \in Nat /\ y.pn < conn'.pn
      BY <1>1, <1>2, <2>2, <2>6 DEF ConnectionFine
    <3>2. Finished(i, e)'
      BY <2>1, <2>7, FinishedStays DEF IInv
    <3>3. Finished(conn.peer, conn.eph)'
      BY <2>6, <3>2 DEF Finished
    <3>4. ConnectionFine(conn)'
      BY <2>3, <2>4, <2>6, <3>1, <3>3 DEF ConnectionFine, IsConnection, ClientHello
    <3>5. QED
      BY <1>1, <3>4 DEF IInv, ServerFine
  <2>9. \A z \in Sending' : z \in Sending \/ \E dst, pn : z = Ack(dst, pn)
    BY <1>1, <2>6 DEF Sending, Out
  <2>10. QED
    BY <1>1, <2>7, <2>8, <2>9, ServerSilent
<1>5. QED
  BY <1>3, <1>4

-----------------------------------------------------------------------------
(* The server's application *)

\* What a request is that the server has not processed and can open.
LEMMA RequestIs ==
  ASSUME IInv, NEW p \in net, Arrives(p, "APP_DATA"), InPhase({"established"}),
         p.pn \notin conn.processed, Unprotects(p)
  PROVE  /\ Content(p) \in FromClient("APP_DATA")
         /\ Content(p).body = p.body /\ Content(p).pn = p.pn
         /\ conn # None /\ conn.phase = "established"
         /\ conn.keys = SessionKeys(conn.peer, conn.eph) /\ p.body.keys = conn.keys
         /\ Finished(conn.peer, conn.eph)
         /\ p.body.data \in Request /\ p.body.data \in Nat /\ p.body.data <= client.request
         /\ executed[p.body.data] = 0
         /\ executed \in [Request -> {0, 1}]
<1> DEFINE w == Content(p)
<1>1. w \in FromClient("APP_DATA") /\ w.body = p.body /\ w.pn = p.pn
  BY Arrived DEF Arrives, IInv, FromClient
<1> HIDE DEF w
<1>2. /\ conn # None /\ conn.phase = "established" /\ conn.keys = SessionKeys(conn.peer, conn.eph)
      /\ p.body.keys = conn.keys /\ Finished(conn.peer, conn.eph)
  BY DEF InPhase, Unprotects, IInv, ServerFine, ConnectionFine
<1>3. /\ w.body.data \in Request /\ w.body.data \in 1..client.request
      /\ client.request \in Nat
  BY <1>1, RequestRange, QuicAssumption DEF IInv, ClientFine, FromClient
<1>4. executed[w.body.data] # 1
  BY <1>1, <1>2 DEF IInv, ServedFine
<1>5. executed \in [Request -> {0, 1}]
  BY DEF IInv, CallersFine
<1>6. executed[w.body.data] = 0
  BY <1>3, <1>4, <1>5
<1>7. QED
  BY <1>1, <1>2, <1>3, <1>5, <1>6 DEF w

\* The server runs a request, or fails before it does, and remembers it.
Runs(p) ==
  /\ client' = client /\ caller' = caller /\ losses' = losses /\ ServerRests
  /\ conn'.processed = conn.processed \cup {p.pn}
  /\ executed' \in {executed, [executed EXCEPT ![p.body.data] = @ + 1]}
  /\ FromClient("APP_DATA")' \subseteq FromClient("APP_DATA")

LEMMA Running ==
  ASSUME IInv, NEW p \in net, Arrives(p, "APP_DATA"), InPhase({"established"}),
         p.pn \notin conn.processed, Unprotects(p), Runs(p)
  PROVE  /\ Onward /\ NothingLost /\ ExecutedStays
         /\ ClientFine' /\ ServerFine' /\ RequestsFine' /\ ServedFine' /\ CallersFine'
<1> PICK r : r = p.body.data
  OBVIOUS
<1> DEFINE w == Content(p)
           sk == SessionKeys(conn.peer, conn.eph)
<1>1. /\ w \in FromClient("APP_DATA") /\ w.body = p.body /\ w.pn = p.pn
      /\ conn # None /\ conn.phase = "established" /\ w.body.keys = sk /\ w.body.data = r
      /\ r \in Request /\ r \in Nat /\ r <= client.request /\ executed[r] = 0
      /\ executed \in [Request -> {0, 1}]
  BY RequestIs
<1> HIDE DEF w
<1>2. executed' = executed \/ executed' = [executed EXCEPT ![r] = 1]
  BY <1>1 DEF Runs
<1>3. /\ executed' \in [Request -> {0, 1}]
      /\ \A s \in Request : executed[s] = 1 => executed'[s] = 1
      /\ \A s \in Request : executed'[s] = 1 => executed[s] = 1 \/ (s = r /\ executed'[r] = 1)
  BY <1>1, <1>2
<1>4. ExecutedStays
  BY <1>3 DEF ExecutedStays
<1>5. Onward /\ NothingLost /\ ServerFine'
  BY StillOnward DEF Runs
<1>6. ClientRests
  BY DEF Runs, IInv, ClientFine, ClientRests, IsClient
<1>7. ClientFine'
  BY <1>5, <1>6, ClientRest DEF IInv
<1>8. RequestsFine'
  <2>1. RequestsCalm
    BY <1>6 DEF Runs, IInv, ClientFine, RequestsCalm, ClientRests, InSession, Handshaking
  <2>2. QED
    BY <1>4, <1>5, <2>1, RequestsKept DEF IInv, Onward
<1>9. CallersFine'
  <2>1. \A s \in Request : executed'[s] = 1 =>
                             s <= client.request /\ (Handshaking => s < client.request)
    <3>1. Handshaking => r < client.request
      BY <1>1 DEF IInv, RequestsFine
    <3>2. QED
      BY <1>1, <1>3, <3>1 DEF IInv, CallersFine
  <2>2. QED
    BY <1>4, <2>1, CallersRest DEF IInv, Runs
<1>10. ServedFine'
  <2>1. conn'.peer = conn.peer /\ conn'.eph = conn.eph /\ conn'.phase = "established"
    BY <1>1 DEF Runs, ServerRests
  <2>2. ASSUME NEW v \in FromClient("APP_DATA")',
               v.body.keys = SessionKeys(conn'.peer, conn'.eph)
        PROVE  /\ executed'[v.body.data] = 1 =>
                    conn'.phase = "established" /\ v.pn \in conn'.processed
               /\ \A later \in Request : later > v.body.data /\ executed'[later] = 1
                                           => executed'[v.body.data] = 1
    <3>1. v \in FromClient("APP_DATA") /\ v.body.keys = sk
      BY <2>1, <2>2 DEF Runs
    <3>2. v.body.data \in Request
      BY <3>1, RequestRange DEF IInv, FromClient
    <3>3. v.body.data = r => v.pn = p.pn
      BY <1>1, <3>1 DEF IInv, RequestsFine
    <3>4. executed[v.body.data] = 1 => v.pn \in conn.processed
      BY <1>1, <3>1 DEF IInv, ServedFine
    <3>5. ASSUME NEW later \in Request, later > v.body.data, executed'[later] = 1
          PROVE  executed[v.body.data] = 1
      <4>1. CASE executed[later] = 1
        BY <1>1, <3>1, <3>5, <4>1 DEF IInv, ServedFine
      <4>2. CASE later = r
        BY <1>1, <3>1, <3>5, <4>2 DEF IInv, RequestsFine
      <4>3. QED
        BY <1>3, <3>5, <4>1, <4>2
    <3>6. QED
      BY <1>3, <2>1, <3>2, <3>3, <3>4, <3>5 DEF Runs
  <2>3. QED
    BY <2>2 DEF ServedFine
<1>11. QED
  BY <1>4, <1>5, <1>7, <1>8, <1>9, <1>10

LEMMA StepServe ==
  ASSUME IInv, NEW p \in net, Serve(p)
  PROVE  IInv'
<1>1. /\ Arrives(p, "APP_DATA") /\ InPhase({"established"}) /\ MaySend(conn)
      /\ p.pn \notin conn.processed /\ Unprotects(p)
      /\ executed' = [executed EXCEPT ![p.body.data] = @ + 1]
      /\ UNCHANGED <<client, opened, losses, caller>>
  BY DEF Serve
<1> DEFINE w == Content(p)
<1>2. /\ w \in FromClient("APP_DATA") /\ w.body = p.body /\ w.pn = p.pn
      /\ conn # None /\ conn.phase = "established"
      /\ conn.keys = SessionKeys(conn.peer, conn.eph) /\ p.body.keys = conn.keys
      /\ Finished(conn.peer, conn.eph)
      /\ p.body.data \in Request /\ p.body.data \in Nat /\ p.body.data <= client.request
      /\ executed[p.body.data] = 0 /\ executed \in [Request -> {0, 1}]
  BY <1>1, RequestIs
<1> HIDE DEF w
<1> PICK i, e, n, r, keys, q : /\ i = conn.peer /\ e = conn.eph /\ r = p.body.data
                               /\ n = conn.pn /\ keys = conn.keys
                               /\ q = ToPeer(conn, "APP_DATA", [keys |-> conn.keys, data |-> p.body.data])
  OBVIOUS
<1> PICK d, y : d = Sent(conn, q) /\ y = Content(q)
  OBVIOUS
<1>3. /\ IsDatagram(q) /\ q.dst = conn.peer /\ q.pn = conn.pn
      /\ y.type = "APP_DATA" /\ y.dst = i /\ y.pn = n
      /\ y.body.keys = keys /\ y.body.data = r
  BY DEF ToPeer, Datagram, IsDatagram, Content
<1>4. /\ IsConnection(d) /\ d.sent = conn.sent \cup {q}
      /\ d.pn = n + 1 /\ d.pn \in 0..MaxServerPackets /\ d.pn >= conn.pn
      /\ \A z \in d.sent : z.dst = conn.peer /\ z.pn \in Nat /\ z.pn < d.pn
      /\ d.peer = conn.peer /\ d.eph = conn.eph /\ d.phase = conn.phase
      /\ d.transcript = conn.transcript /\ d.secret = conn.secret
      /\ d.keys = conn.keys /\ d.processed = conn.processed
  BY <1>1, <1>2, <1>3, SentIs
<1>5. /\ conn' = [d EXCEPT !.processed = conn.processed \cup {p.pn}]
      /\ net' \subseteq net \cup {Ack(conn.peer, p.pn), q}
  BY DEF Serve, Deliver, Processed
<1>6. /\ IsConnection(conn)' /\ conn'.sent = d.sent /\ conn'.pn = d.pn
      /\ conn'.peer = conn.peer /\ conn'.eph = conn.eph /\ conn'.phase = conn.phase
      /\ conn'.transcript = conn.transcript /\ conn'.secret = conn.secret
      /\ conn'.keys = conn.keys /\ conn'.processed = conn.processed \cup {p.pn}
  BY <1>4, <1>5 DEF IsConnection
<1>7. ServerRests
  BY <1>1, <1>2, <1>4, <1>6 DEF ServerRests
<1>8. Says({y})
  <2>1. \A z \in Sending' : \/ z \in Sending
                            \/ IsDatagram(z) /\ (z.type = "ACK" \/ Content(z) \in {y})
    BY <1>1, <1>2, <1>3, <1>4, <1>5, <1>6, Plain DEF Sending, Out
  <2>2. QED
    BY <2>1, SaysFrom DEF IInv
<1>9. /\ i # Server /\ i \in Nat /\ n \in Nat /\ Met(i, e)
  BY <1>2, PeerMet, QuicAssumption DEF IInv, ServerFine, ConnectionFine, ClientFine
<1>10. /\ \A v \in FromServer("APP_DATA")' : v \in FromServer("APP_DATA") \/ v = y
       /\ FromClient("APP_DATA")' \subseteq FromClient("APP_DATA")
  BY <1>3, <1>8, <1>9 DEF Says, FromClient, FromServer
<1>11. Runs(p)
  BY <1>1, <1>6, <1>7, <1>10 DEF Runs
<1>12. /\ Onward /\ NothingLost /\ ExecutedStays
       /\ ClientFine' /\ ServerFine' /\ RequestsFine' /\ ServedFine' /\ CallersFine'
  BY <1>1, <1>11, Running
<1>13. MessagesFine'
  <2>1. Met(i, e)' /\ Finished(i, e)'
    BY <1>2, <1>9, <1>12, MetStays, FinishedStays DEF IInv
  <2>2. r \in 1..client'.request
    BY <1>1, <1>2, RequestRange DEF IInv, FromClient
  <2>3. Plausible(y)'
    BY <1>2, <1>3, <1>9, <2>1, <2>2 DEF Plausible
  <2>4. QED
    BY <1>8, <1>12, <2>3, MessagesStay DEF IInv
<1>14. executed'[r] = 1 /\ executed[r] = 0
  BY <1>1, <1>2
<1>15. ResponsesFine'
  <2>1. ASSUME NEW v \in FromServer("APP_DATA")
        PROVE  /\ executed'[v.body.data] = 1 /\ v.body.data # r
               /\ v.body.keys = keys => v.pn < n /\ v.pn \in Nat
    <3>1. v.body.data \in Request /\ v.pn \in Nat /\ executed[v.body.data] = 1
      BY RequestRange DEF IInv, FromServer, ResponsesFine
    <3>2. v.body.keys = keys => v.pn < n
      BY <1>2 DEF IInv, ResponsesFine
    <3>3. QED
      BY <1>12, <1>14, <3>1, <3>2 DEF ExecutedStays
  <2>2. ASSUME NEW v \in FromServer("APP_DATA")'
        PROVE  /\ executed'[v.body.data] = 1
               /\ v.body.keys = SessionKeys(conn'.peer, conn'.eph) => v.pn < conn'.pn
               /\ InSession' /\ client'.keys = v.body.keys /\ Past(v.body.data)'
                    => v.pn \in client'.processed
    <3>1. CASE v = y
      <4>1. ~(InSession /\ client.keys = keys /\ Past(r))
        BY <1>2, <1>14 DEF IInv, RequestsFine
      <4>2. QED
        BY <1>1, <1>3, <1>4, <1>6, <1>9, <1>14, <3>1, <4>1 DEF InSession, Past
    <3>2. CASE v \in FromServer("APP_DATA")
      <4>1. v.body.keys = SessionKeys(conn'.peer, conn'.eph) => v.pn < conn'.pn
        BY <1>2, <1>4, <1>6, <1>9, <2>1, <3>2
      <4>2. InSession' /\ client'.keys = v.body.keys /\ Past(v.body.data)'
              => v.pn \in client'.processed
        BY <1>1, <3>2 DEF IInv, ResponsesFine, InSession, Past
      <4>3. QED
        BY <2>1, <3>2, <4>1, <4>2
    <3>3. QED
      BY <1>10, <3>1, <3>2
  <2>3. ASSUME NEW u \in FromServer("APP_DATA")', NEW v \in FromServer("APP_DATA")',
               u.body.keys = v.body.keys
        PROVE  /\ u.pn = v.pn => u.body = v.body
               /\ u.body.data = v.body.data => u.pn = v.pn
    <3>1. CASE u \in FromServer("APP_DATA") /\ v \in FromServer("APP_DATA")
      BY <2>3, <3>1 DEF IInv, ResponsesFine
    <3>2. CASE u = y /\ v = y
      BY <3>2
    <3>3. CASE u = y /\ v \in FromServer("APP_DATA")
      BY <1>3, <1>9, <2>1, <2>3, <3>3
    <3>4. CASE u \in FromServer("APP_DATA") /\ v = y
      BY <1>3, <1>9, <2>1, <2>3, <3>4
    <3>5. QED
      BY <1>10, <3>1, <3>2, <3>3, <3>4
  <2>4. QED
    BY <2>2, <2>3 DEF ResponsesFine
<1>16. QED
  BY <1>1, <1>12, <1>13, <1>15 DEF IInv

LEMMA StepServeRaises ==
  ASSUME IInv, NEW p \in net, ServeRaises(p)
  PROVE  IInv'
<1>1. /\ Arrives(p, "APP_DATA") /\ InPhase({"established"})
      /\ p.pn \notin conn.processed /\ Unprotects(p) /\ conn # None
      /\ conn' = [conn EXCEPT !.processed = conn.processed \cup {p.pn}]
      /\ net' \subseteq net \cup {Ack(conn.peer, p.pn)}
      /\ executed' \in {executed, [executed EXCEPT ![p.body.data] = @ + 1]}
      /\ UNCHANGED <<client, opened, losses, caller>>
  BY DEF ServeRaises, Processed, Deliver, InPhase
<1>2. /\ IsConnection(conn)' /\ conn'.sent = conn.sent /\ conn'.pn = conn.pn
      /\ conn'.peer = conn.peer /\ conn'.eph = conn.eph /\ conn'.phase = conn.phase
      /\ conn'.transcript = conn.transcript /\ conn'.secret = conn.secret
      /\ conn'.keys = conn.keys /\ conn'.processed = conn.processed \cup {p.pn}
  BY <1>1, PeerMet DEF IsConnection
<1>3. ServerRests
  <2>1. conn.pn \in Nat /\ (conn.phase = "await_initial" => conn.pn = 0)
    BY <1>1, PeerMet, QuicAssumption DEF IInv, ServerFine, ConnectionFine
  <2>2. QED
    BY <1>1, <1>2, <2>1, PeerMet DEF ServerRests
<1>4. Says({})
  <2>1. \A z \in Sending' : z \in Sending \/ (IsDatagram(z) /\ z.type = "ACK")
    BY <1>1, <1>2, Plain DEF Sending, Out
  <2>2. QED
    BY <2>1, SaysFrom DEF IInv
<1>5. /\ FromClient("APP_DATA")' \subseteq FromClient("APP_DATA")
      /\ FromServer("APP_DATA")' \subseteq FromServer("APP_DATA")
  BY <1>4 DEF Says, FromClient, FromServer
<1>6. Runs(p)
  BY <1>1, <1>2, <1>3, <1>5 DEF Runs
<1>7. /\ Onward /\ NothingLost /\ ExecutedStays
      /\ ClientFine' /\ ServerFine' /\ RequestsFine' /\ ServedFine' /\ CallersFine'
  BY <1>1, <1>6, Running
<1>8. ResponsesFine'
  <2>1. ResponsesCalm
    BY <1>1, <1>5 DEF ResponsesCalm, InSession, Past
  <2>2. QED
    BY <1>7, <2>1, ResponsesKept DEF IInv
<1>9. MessagesFine'
  BY <1>4, <1>7, MessagesStay DEF IInv
<1>10. QED
  BY <1>1, <1>7, <1>8, <1>9 DEF IInv

-----------------------------------------------------------------------------
(* Every step keeps the invariant *)

LEMMA Initially == Init => IInv
<1> SUFFICES ASSUME Init PROVE IInv
  OBVIOUS
<1>1. Sending = {} /\ Wire = {}
  BY DEF Init, ClientInit, Sending, Out, Wire
<1>2. /\ client.incarnation = 0 /\ client.request = 0 /\ client.pn = 0
      /\ client.phase = "closed" /\ client.transcript = <<>> /\ client.keys = None
      /\ IsClient(client) /\ conn = None /\ opened = 0 /\ losses = 0
      /\ caller = [r \in Request |-> <<"idle">>] /\ executed = [r \in Request |-> 0]
  BY DEF Init, ClientInit, IsClient
<1>3. ~InSession /\ ~Handshaking
  BY <1>2 DEF InSession, Handshaking
<1>4. ClientFine
  BY <1>2, <1>3, QuicAssumption DEF ClientFine
<1>5. ServerFine /\ ServedFine
  BY <1>2, QuicAssumption DEF ServerFine, ServedFine
<1>6. MessagesFine /\ RequestsFine /\ ResponsesFine
  BY <1>1 DEF MessagesFine, RequestsFine, ResponsesFine, FromClient, FromServer
<1>7. CallersFine
  <2>1. Request \subseteq Nat \ {0}
    BY QuicAssumption DEF Request
  <2>2. /\ \A r \in Request : caller[r] = <<"idle">> /\ executed[r] = 0 /\ r > 0
        /\ caller \in [Request -> {<<"idle">>}] /\ executed \in [Request -> {0}]
    BY <1>2, <2>1
  <2>3. <<"idle">>[1] # "answered"
    OBVIOUS
  <2>4. QED
    BY <1>2, <1>3, <2>2, <2>3 DEF CallersFine
<1>8. losses \in 0..MaxLoss
  BY <1>2, QuicAssumption
<1>9. QED
  BY <1>4, <1>5, <1>6, <1>7, <1>8 DEF IInv

LEMMA Inductive == IInv /\ [Next]_vars => IInv'
<1> SUFFICES ASSUME IInv, [Next]_vars PROVE IInv'
  OBVIOUS
<1>1. CASE NewRequest
  BY <1>1, StepReuse, StepCloseTransport, StepConnect DEF NewRequest
<1>2. ASSUME NEW p \in net, ClientReceive(p)
      PROVE  IInv'
  BY <1>2, StepServerHello, StepServerFinished, StepUnexpected, StepResponse, StepClientAck,
     NetSteps DEF ClientReceive
<1>3. ASSUME NEW p \in net, ServerReceive(p)
      PROVE  IInv'
  BY <1>3, StepInitial, StepResendHello, StepKeyExchange, StepPoison, StepResendFinished,
     StepClientFinished, StepServe, StepServeRaises, StepServerAck, StepClose, NetSteps
     DEF ServerReceive
<1>4. CASE ClientTimer \/ GiveUp \/ ServerRetransmit
  BY <1>4, StepHandshakeTimeout, StepResponseTimeout, StepGiveUp, StepRetransmit DEF ClientTimer
<1>5. CASE \E p \in net : Lose(p)
  BY <1>5, NetSteps
<1>6. CASE UNCHANGED vars
  BY <1>6, NetOnly DEF vars, IInv
<1>7. QED
  BY <1>1, <1>2, <1>3, <1>4, <1>5, <1>6 DEF Next, Receive

LEMMA Invariance == Spec => []IInv
BY Initially, Inductive, PTL DEF Spec

-----------------------------------------------------------------------------
(* The properties *)

LEMMA TypesFollow == IInv => TypeOK
<1> SUFFICES ASSUME IInv PROVE TypeOK
  OBVIOUS
<1>1. /\ client.incarnation \in 0..MaxRequests /\ client.request \in 0..MaxRequests
      /\ client.phase \in {"closed", "wait_sh", "wait_sf", "wait_response", "open"}
  BY QuicAssumption DEF IInv, ClientFine
<1>2. client.phase \in {"wait_sh", "wait_sf"} => Cardinality(client.pending) <= 1
  <2> SUFFICES ASSUME Handshaking PROVE Cardinality(client.pending) <= 1
    BY DEF Handshaking
  <2>1. \A p, q \in client.pending : p = q
    BY DEF IInv, ClientFine
  <2>2. CASE client.pending = {}
    BY <2>2, FS_EmptySet
  <2>3. CASE client.pending # {}
    <3>1. PICK p : client.pending = {p}
      BY <2>1, <2>3
    <3>2. QED
      BY <3>1, FS_Singleton
  <2>4. QED
    BY <2>2, <2>3
<1>3. client.phase \in {"wait_response", "open"} <=> client.keys # None
  <2>1. CASE InSession
    <3>1. PICK e \in 1..opened : client.keys = SessionKeys(client.incarnation, e)
      BY <2>1 DEF IInv, ClientFine
    <3>2. e \in 1..MaxConnections /\ client.incarnation \in Request
      BY <1>1, <2>1, <3>1, QuicAssumption DEF IInv, ClientFine, ServerFine, InSession, Request
    <3>3. client.keys # None
      BY <3>1, <3>2, AddressAssumption
    <3>4. QED
      BY <2>1, <3>3 DEF InSession
  <2>2. CASE ~InSession
    BY <2>2 DEF IInv, ClientFine, InSession
  <2>3. QED
    BY <2>1, <2>2
<1>4. Len(client.transcript) =
        CASE client.phase = "closed" -> 0
          [] client.phase = "wait_sh" -> 1
          [] client.phase = "wait_sf" -> 3
          [] OTHER -> 4
  <2>1. /\ Len(<<>>) = 0 /\ \A i : Len(<<ClientHello(i)>>) = 1
        /\ \A i, e : Len(Upto3(i, e)) = 3 /\ Len(Transcript(i, e)) = 4
    BY DEF Upto3, Transcript
  <2>2. /\ client.phase = "closed" => Len(client.transcript) = 0
        /\ client.phase = "wait_sh" => Len(client.transcript) = 1
        /\ client.phase = "wait_sf" => Len(client.transcript) = 3
        /\ InSession => Len(client.transcript) = 4
    BY <2>1 DEF IInv, ClientFine
  <2>3. QED
    BY <1>1, <2>2 DEF InSession
<1>5. conn # None =>
        /\ conn.phase \in {"await_initial", "await_cke", "await_cf", "established"}
        /\ conn.peer \in 1..client.incarnation
        /\ conn.eph \in 1..opened
        /\ conn.pn \in 0..MaxServerPackets
        /\ \A q \in conn.sent : q.dst = conn.peer /\ q.pn < conn.pn
        /\ conn.phase = "established" <=> conn.keys # None
  <2> SUFFICES ASSUME conn # None
               PROVE  /\ conn.phase \in {"await_initial", "await_cke", "await_cf", "established"}
                      /\ conn.peer \in 1..client.incarnation
                      /\ conn.eph \in 1..opened
                      /\ conn.pn \in 0..MaxServerPackets
                      /\ \A q \in conn.sent : q.dst = conn.peer /\ q.pn < conn.pn
                      /\ conn.phase = "established" <=> conn.keys # None
    OBVIOUS
  <2>1. ConnectionFine(conn) /\ opened \in 0..MaxConnections
    BY DEF IInv, ServerFine
  <2>2. conn.eph \in 1..opened /\ conn.eph \in 1..MaxConnections
    BY <2>1, QuicAssumption DEF ConnectionFine
  <2>3. conn.peer \in Request
    BY <1>1, <2>1, QuicAssumption DEF ConnectionFine, Request
  <2>4. conn.phase = "established" => conn.keys # None
    BY <2>1, <2>2, <2>3, AddressAssumption DEF ConnectionFine
  <2>5. QED
    BY <2>1, <2>2, <2>4 DEF ConnectionFine
<1>6. losses \in 0..MaxLoss
  BY DEF IInv
<1>7. /\ caller \in [Request -> {<<"idle">>, <<"waiting">>}
                                  \cup ({"answered"} \X Request) \cup ({"failed"} \X Reason)]
      /\ executed \in [Request -> Nat]
  BY DEF IInv, CallersFine
<1>8. QED
  BY <1>1, <1>2, <1>3, <1>4, <1>5, <1>6, <1>7 DEF TypeOK

\* The types of all that the two sides and the network keep (quic_client.py
\* KEMTLSQUICClientTransport, quic_server.py _ServerConnection).
THEOREM TypesHold == Spec => []TypeOK
BY Invariance, TypesFollow, PTL

\* Under one session's keys no packet number protects two different
\* plaintexts of one direction, whatever is sent again (quic_client.py
\* and quic_server.py _send_packet).
THEOREM NoncesUnique == Spec => []NonceUnique
<1>1. IInv => NonceUnique
  <2> SUFFICES ASSUME IInv, NEW p \in net, NEW q \in net, p.type = "APP_DATA",
                      q.type = "APP_DATA", p.pn = q.pn, p.body.keys = q.body.keys,
                      (p.dst = Server) = (q.dst = Server)
               PROVE  p.body = q.body
    BY DEF NonceUnique
  <2> PICK v, w : v = Content(p) /\ w = Content(q)
    OBVIOUS
  <2>1. /\ v \in Wire /\ v.type = "APP_DATA" /\ v.pn = p.pn /\ v.body = p.body /\ v.dst = p.dst
        /\ w \in Wire /\ w.type = "APP_DATA" /\ w.pn = q.pn /\ w.body = q.body /\ w.dst = q.dst
    BY Arrived DEF IInv
  <2>2. CASE p.dst = Server
    BY <2>1, <2>2 DEF IInv, RequestsFine, FromClient
  <2>3. CASE p.dst # Server
    BY <2>1, <2>3 DEF IInv, ResponsesFine, FromServer
  <2>4. QED
    BY <2>2, <2>3
<1>2. QED
  BY <1>1, Invariance, PTL

\* A connection the server holds established has the keys its client derived,
\* or would have if it had not given up since (handshake.py
\* process_server_finished, verify_client_finished).
THEOREM KeysAgree == Spec => []KeyAgreement
<1>1. IInv => KeyAgreement
  <2> SUFFICES ASSUME IInv, InPhase({"established"})
               PROVE  /\ conn.transcript[1].random = conn.peer
                      /\ client.incarnation = conn.peer /\ client.keys # None
                           => client.keys = conn.keys
                      /\ client.incarnation = conn.peer
                           => client.phase \notin {"wait_sh", "wait_sf"}
    BY DEF KeyAgreement
  <2>1. ConnectionFine(conn) /\ conn.phase = "established"
    BY DEF InPhase, IInv, ServerFine
  <2>2. /\ conn.keys = SessionKeys(conn.peer, conn.eph)
        /\ conn.transcript[1] = ClientHello(conn.peer)
        /\ Finished(conn.peer, conn.eph)
    BY <2>1 DEF ConnectionFine
  <2>3. client.keys # None => InSession
    BY DEF IInv, ClientFine
  <2>4. conn.transcript[1].random = conn.peer
    BY <2>2 DEF ClientHello
  <2>5. QED
    BY <2>2, <2>3, <2>4 DEF Finished, Handshaking
<1>2. QED
  BY <1>1, Invariance, PTL

-----------------------------------------------------------------------------
(* What callers see, and the executions *)

\* What a step makes of the callers and the executions.
Sends == /\ executed' = executed
         /\ \E r \in Request : /\ caller[r] = <<"idle">>
                               /\ caller' = [caller EXCEPT ![r] = <<"waiting">>]
Answers == /\ executed' = executed
           /\ \E r \in Request : /\ caller[r] = <<"waiting">> /\ executed[r] = 1
                                 /\ caller' = [caller EXCEPT ![r] = <<"answered", r>>]
Fails == /\ executed' = executed
         /\ \E r \in Request, x \in Reason :
              /\ caller[r] = <<"waiting">>
              /\ caller' = [caller EXCEPT ![r] = <<"failed", x>>]
Executes == /\ caller' = caller
            /\ \E r \in Request : /\ executed[r] = 0 /\ r <= client.request
                                  /\ executed' = [executed EXCEPT ![r] = 1]
                                  /\ \A later \in Request : later > r => executed[later] = 0

LEMMA Fresh ==
  ASSUME IInv, client.request < MaxRequests
  PROVE  client.request + 1 \in Request /\ caller[client.request + 1] = <<"idle">>
<1>1. client.request + 1 \in Request /\ client.request + 1 > client.request
  BY QuicAssumption DEF IInv, ClientFine, Request
<1>2. QED
  BY <1>1 DEF IInv, CallersFine

LEMMA Waiting ==
  ASSUME IInv, client.phase \notin {"closed", "open"}
  PROVE  client.request \in Request /\ caller[client.request] = <<"waiting">>
BY DEF IInv, CallersFine

LEMMA RunsInOrder ==
  ASSUME IInv, NEW p \in net, Serve(p) \/ ServeRaises(p)
  PROVE  Executes \/ UNCHANGED <<caller, executed>>
<1>1. /\ Arrives(p, "APP_DATA") /\ InPhase({"established"})
      /\ p.pn \notin conn.processed /\ Unprotects(p)
      /\ executed' \in {executed, [executed EXCEPT ![p.body.data] = @ + 1]}
      /\ caller' = caller
  BY DEF Serve, ServeRaises
<1> PICK r : r = p.body.data
  OBVIOUS
<1>2. /\ Content(p) \in FromClient("APP_DATA") /\ Content(p).body = p.body
      /\ conn # None /\ p.body.keys = SessionKeys(conn.peer, conn.eph)
      /\ r \in Request /\ r <= client.request /\ executed[r] = 0
      /\ executed \in [Request -> {0, 1}]
  BY <1>1, RequestIs
<1>3. \A later \in Request : later > r => executed[later] = 0
  <2>1. ASSUME NEW later \in Request, later > r, executed[later] = 1
        PROVE  executed[r] = 1
    BY <1>2, <2>1 DEF IInv, ServedFine
  <2>2. QED
    BY <1>2, <2>1
<1>4. executed' = executed \/ executed' = [executed EXCEPT ![r] = 1]
  BY <1>1, <1>2
<1>5. QED
  BY <1>1, <1>2, <1>3, <1>4 DEF Executes

LEMMA Kinds ==
  ASSUME IInv, [Next]_vars
  PROVE  Sends \/ Answers \/ Fails \/ Executes \/ UNCHANGED <<caller, executed>>
<1>1. ASSUME NewRequest
      PROVE  Sends \/ UNCHANGED <<caller, executed>>
  <2>1. ASSUME Reuse \/ \E keep \in BOOLEAN : Connect(keep)
        PROVE  Sends
    <3>1. /\ executed' = executed /\ client.request < MaxRequests
          /\ caller' = [caller EXCEPT ![client.request + 1] = <<"waiting">>]
      BY <2>1 DEF Reuse, Connect
    <3>2. QED
      BY <3>1, Fresh DEF Sends
  <2>2. CASE CloseTransport
    BY <2>2 DEF CloseTransport
  <2>3. QED
    BY <1>1, <2>1, <2>2 DEF NewRequest
<1>2. ASSUME NEW reason \in Reason, client.phase \notin {"closed", "open"}, executed' = executed,
             caller' = [caller EXCEPT ![client.request] = <<"failed", reason>>]
      PROVE  Fails
  BY <1>2, Waiting DEF Fails
<1>3. ASSUME NEW p \in net, ReceiveUnexpected(p)
      PROVE  Fails
  <2>1. client.phase \notin {"closed", "open"}
    BY <1>3 DEF ReceiveUnexpected, Handshakes
  <2>2. QED
    BY <1>2, <1>3, <2>1 DEF ReceiveUnexpected, Reason
<1>4. ASSUME NEW p \in net, ReceiveResponse(p)
      PROVE  Fails \/ Answers
  <2>1. /\ p.type = "APP_DATA" /\ p.dst = client.incarnation
        /\ client.phase = "wait_response" /\ p.pn \notin client.processed
        /\ executed' = executed
    BY <1>4 DEF ReceiveResponse, Addressed, SeenBefore
  <2>2. CASE p.body.keys = client.keys
    <3>1. caller' = [caller EXCEPT ![client.request] = <<"answered", client.request>>]
      BY <1>4, <2>1, <2>2, ResponseIs DEF ReceiveResponse
    <3>2. QED
      BY <2>1, <2>2, <3>1, ResponseIs, Waiting DEF Answers
  <2>3. CASE p.body.keys # client.keys
    <3>1. caller' = [caller EXCEPT ![client.request] = <<"failed", "protection error">>]
      BY <1>4, <2>3 DEF ReceiveResponse
    <3>2. "protection error" \in Reason /\ client.phase \notin {"closed", "open"}
      BY <2>1 DEF Reason
    <3>3. QED
      BY <1>2, <2>1, <3>1, <3>2
  <2>4. QED
    BY <2>2, <2>3
<1>5. ASSUME NEW p \in net, ClientReceive(p)
      PROVE  Fails \/ Answers \/ UNCHANGED <<caller, executed>>
  BY <1>3, <1>4, <1>5 DEF ClientReceive, ReceiveServerHello, ReceiveServerFinished,
     ReceiveResponseAgain, ClientReceiveAck, ClientIgnore
<1>6. ASSUME NEW p \in net, ServerReceive(p)
      PROVE  Executes \/ UNCHANGED <<caller, executed>>
  BY <1>6, RunsInOrder DEF ServerReceive, ReceiveInitial, ResendServerHello,
     ReceiveClientKeyExchange, PoisonTranscript, ResendServerFinished, ReceiveClientFinished,
     AcknowledgeOnly, ServerReceiveAck, ReceiveClose, ServerIgnore
<1>7. ASSUME HandshakeTimeout
      PROVE  Fails \/ UNCHANGED <<caller, executed>>
  <2>1. "budget exhausted" \in Reason /\ client.phase \notin {"closed", "open"}
        /\ executed' = executed
    BY <1>7 DEF HandshakeTimeout, Reason
  <2>2. \/ caller' = [caller EXCEPT ![client.request] = <<"failed", "budget exhausted">>]
        \/ caller' = caller
    BY <1>7 DEF HandshakeTimeout, Fail
  <2>3. QED
    BY <1>2, <2>1, <2>2
<1>8. ASSUME GiveUp
      PROVE  Fails
  <2>1. "timed out" \in Reason /\ client.phase \notin {"closed", "open"}
        /\ executed' = executed
        /\ caller' = [caller EXCEPT ![client.request] = <<"failed", "timed out">>]
    BY <1>8 DEF GiveUp, Fail, Reason
  <2>2. QED
    BY <1>2, <2>1
<1>9. ASSUME ResponseTimeout \/ ServerRetransmit \/ (\E p \in net : Lose(p)) \/ UNCHANGED vars
      PROVE  UNCHANGED <<caller, executed>>
  BY <1>9 DEF ResponseTimeout, ServerRetransmit, Lose, vars
<1>10. QED
  BY <1>1, <1>5, <1>6, <1>7, <1>8, <1>9 DEF Next, Receive, ClientTimer

\* A request that arrives late is not executed once a later one has been
\* (quic_server.py _handle_packet, processed_app_packets).
THEOREM NothingRunsLate == Spec => NoLateExecution
<1>1. ASSUME IInv, [Next]_vars, NEW r \in Request, executed'[r] > executed[r],
             NEW later \in Request, later > r
      PROVE  executed[later] = 0
  <2>1. executed \in [Request -> {0, 1}]
    BY <1>1 DEF IInv, CallersFine
  <2>2. executed' # executed
    BY <1>1, <2>1
  <2>3. Executes
    BY <1>1, <2>2, Kinds DEF Sends, Answers, Fails
  <2>4. PICK s \in Request : /\ executed' = [executed EXCEPT ![s] = 1]
                             /\ \A l \in Request : l > s => executed[l] = 0
    BY <2>3 DEF Executes
  <2>5. r = s
    BY <1>1, <2>1, <2>4
  <2>6. QED
    BY <1>1, <2>4, <2>5
<1>2. IInv /\ [Next]_vars => [\A r \in Request : executed'[r] > executed[r]
                                 => \A later \in Request : later > r => executed[later] = 0]_vars
  BY <1>1
<1>3. QED
  BY <1>2, Invariance, PTL DEF Spec, NoLateExecution

LEMMA ExchangeInit == Init => Exchange!Init
<1> SUFFICES ASSUME Init PROVE Exchange!Init
  OBVIOUS
<1>1. caller = [r \in Request |-> <<"idle">>] /\ executed = [r \in Request |-> 0]
  BY DEF Init
<1>2. \A r \in Request : caller[r] = <<"idle">> /\ caller[r][1] # "failed"
  BY <1>1
<1>3. QED
  BY <1>1, <1>2 DEF Exchange!Init

LEMMA ExchangeStep ==
  ASSUME IInv, [Next]_vars
  PROVE  [Exchange!Next]_Exchange!vars
<1> DEFINE seen == [r \in Request |-> IF caller[r][1] = "failed" THEN <<"failed">> ELSE caller[r]]
           CS == {<<"idle">>, <<"waiting">>} \cup ({"answered"} \X Request)
                   \cup ({"failed"} \X Reason)
<1>1. /\ caller \in [Request -> CS] /\ executed \in [Request -> {0, 1}]
      /\ \A r \in Request : caller[r] = <<"waiting">> => seen[r] = <<"waiting">>
      /\ \A r \in Request : caller[r] = <<"idle">> => seen[r] = <<"idle">>
  BY DEF IInv, CallersFine
<1>2. CASE UNCHANGED <<caller, executed>>
  BY <1>2 DEF Exchange!vars
<1>3. ASSUME Sends
      PROVE  Exchange!Next
  <2>1. PICK r \in Request : /\ caller[r] = <<"idle">>
                             /\ caller' = [caller EXCEPT ![r] = <<"waiting">>]
    BY <1>3 DEF Sends
  <2>2. seen' = [seen EXCEPT ![r] = <<"waiting">>]
    BY <1>1, <2>1
  <2>3. Exchange!Send(r)
    BY <1>1, <1>3, <2>1, <2>2 DEF Exchange!Send, Sends
  <2>4. QED
    BY <2>1, <2>3 DEF Exchange!Next
<1>4. ASSUME Fails
      PROVE  Exchange!Next
  <2>1. PICK r \in Request, x \in Reason : /\ caller[r] = <<"waiting">>
                                           /\ caller' = [caller EXCEPT ![r] = <<"failed", x>>]
    BY <1>4 DEF Fails
  <2>2. seen' = [seen EXCEPT ![r] = <<"failed">>]
    BY <1>1, <2>1
  <2>3. Exchange!Fail(r)
    BY <1>1, <1>4, <2>1, <2>2 DEF Exchange!Fail, Fails
  <2>4. QED
    BY <2>1, <2>3 DEF Exchange!Next
<1>5. ASSUME Answers
      PROVE  Exchange!Next
  <2>1. PICK r \in Request : /\ caller[r] = <<"waiting">> /\ executed[r] = 1
                             /\ caller' = [caller EXCEPT ![r] = <<"answered", r>>]
    BY <1>5 DEF Answers
  <2>2. seen' = [seen EXCEPT ![r] = <<"answered", r>>]
    BY <1>1, <2>1
  <2>3. Exchange!Respond(r)
    BY <1>1, <1>5, <2>1, <2>2 DEF Exchange!Respond, Answers
  <2>4. QED
    BY <2>1, <2>3 DEF Exchange!Next
<1>6. ASSUME Executes
      PROVE  Exchange!Next
  <2>1. PICK r \in Request : /\ executed[r] = 0 /\ r <= client.request
                             /\ executed' = [executed EXCEPT ![r] = 1] /\ caller' = caller
    BY <1>6 DEF Executes
  <2>2. caller[r] # <<"idle">>
    <3>1. r \in Nat /\ client.request \in Nat
      BY <2>1, QuicAssumption DEF Request, IInv, ClientFine
    <3>2. QED
      BY <2>1, <3>1 DEF IInv, CallersFine
  <2>3. caller[r][1] # "answered"
    BY <2>1 DEF IInv, CallersFine
  <2>4. seen[r] \in {<<"waiting">>, <<"failed">>}
    BY <1>1, <2>1, <2>2, <2>3
  <2>5. Exchange!Execute(r)
    BY <2>1, <2>4 DEF Exchange!Execute
  <2>6. QED
    BY <2>1, <2>5 DEF Exchange!Next
<1>7. QED
  BY <1>2, <1>3, <1>4, <1>5, <1>6, Kinds

\* Whatever is lost, duplicated, delayed or sent again, a request runs at most
\* once and is answered with its own response (quic_client.py
\* recv_application, quic_server.py _handle_packet).
THEOREM ExchangeImplemented == Spec => ImplementsExchange
<1>1. Init => Exchange!Init
  BY ExchangeInit
<1>2. IInv /\ [Next]_vars => [Exchange!Next]_Exchange!vars
  BY ExchangeStep
<1>3. QED
  BY <1>1, <1>2, Invariance, PTL DEF Spec, ImplementsExchange, Exchange!Spec
=============================================================================
