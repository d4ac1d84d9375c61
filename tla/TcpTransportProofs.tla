------------------------- MODULE TcpTransportProofs -------------------------
(***************************************************************************)
(* Proofs about TcpTransport, for any number of servers, requests,         *)
(* connections and faults and any width of the sequence numbers: the types, *)
(* that every request goes to the right connection and is bound to its      *)
(* session, that no nonce is used twice, and that the transport implements  *)
(* RequestExchange.  The argument rests on the record numbers of a          *)
(* connection alone: which frames of a stream have been read, and how much  *)
(* of the last one has arrived, does not matter to it.                      *)
(***************************************************************************)
EXTENDS TcpTransport, TLAPS, SequenceTheorems

(* Types *)

ClientSending == {"send_hello", "send_cke", "send_finished", "send_request"}
Connecting == {"send_hello", "wait_sh", "send_cke", "wait_sf", "send_finished"}
InSession == {"send_request", "wait_response"}
ClientPhase == {"idle", "dial"} \cup Connecting \cup InSession

ServerReading == {"await_hello", "await_cke", "await_finished"}
ServerSending == {"send_sh", "send_sf", "send_response"}
ThreadPhase == {"backlog", "await_request", "run", "closed"} \cup ServerReading \cup ServerSending

RequestBody == [request : Request, session : Nat, close : BOOLEAN]
Handshake == [type : {"ClientHello", "ClientKeyExchange", "ClientFinished",
                      "ServerHello", "ServerFinished"},
              seq : {0}, key : {None}, body : {None}, whole : BOOLEAN]
RecordOf(Body) == [type : {"record"}, seq : 0..(SeqLimit - 1), key : Nat, body : Body,
                   whole : BOOLEAN]
StreamOf(Body) == [sent : Seq(Handshake \cup RecordOf(Body)), read : Nat]

Connection ==
  [endpoint : Endpoint, client_open : BOOLEAN, reset : BOOLEAN, thread : ThreadPhase,
   to_server : StreamOf(RequestBody), to_client : StreamOf(Request),
   send_seq : Nat, recv_seq : Nat, request : RequestBody \cup {None}]

Socket == Nat \cup {None}

Transport == [sock : Socket, session : Socket, endpoint : Endpoint \cup {None},
              send_seq : Nat, recv_seq : Nat]

Call == [phase : ClientPhase, request : 0..MaxRequests, keep_alive : BOOLEAN,
         sock : Socket, session : Socket]

CallerState == {<<"idle">>, <<"waiting">>}
  \cup ({"failed"} \X {"refused", "send", "overflow", "handshake", "receive", "protection"})
  \cup ({"answered"} \X Request \X Nat)

Shape ==
  /\ conn \in Seq(Connection)
  /\ transport \in Transport
  /\ call \in Call
  /\ caller \in [Request -> CallerState]
  /\ meant \in [Request -> Endpoint \cup {None}]
  /\ listening \in [Endpoint -> BOOLEAN]
  /\ executed \in [Request -> Nat]

\* No number is beyond what a record header can hold.
NumbersFit ==
  /\ transport.send_seq <= SeqLimit /\ transport.recv_seq <= SeqLimit
  /\ \A c \in DOMAIN conn : conn[c].send_seq <= SeqLimit /\ conn[c].recv_seq <= SeqLimit

-----------------------------------------------------------------------------
(* The client *)

SocketsExist ==
  /\ {transport.sock, transport.session} \subseteq DOMAIN conn \cup {None}
  /\ call.phase \notin {"idle", "dial"} => call.sock \in DOMAIN conn

\* The transport's endpoint and session are those of its connection, and a call
\* that is under way uses that connection or is making one.
RightSocket ==
  /\ transport.sock # None =>
       /\ transport.session = transport.sock
       /\ transport.endpoint = conn[transport.sock].endpoint
  /\ call.phase \in Connecting \cup {"dial"} => transport.sock = None
  /\ call.phase \in InSession =>
       call.sock = transport.sock /\ call.session = transport.sock
  /\ call.phase \in Connecting \cup InSession =>
       conn[call.sock].endpoint = meant[call.request]

\* Requests are made one at a time, in the order of their numbers.
OneAtATime ==
  /\ call.phase # "idle" =>
       /\ call.request \in Request /\ caller[call.request] = <<"waiting">>
       /\ meant[call.request] \in Endpoint
  /\ \A r \in Request : caller[r] = <<"idle">> <=> r > call.request

-----------------------------------------------------------------------------
(* What has been written *)

Sent(c) == conn[c].to_server.sent
Requests(c) == Records(conn[c].to_server)
Answers(c) == conn[c].to_client.sent
Responses(c) == Records(conn[c].to_client)

\* A request is written to the connection of the server it is made to, under
\* that connection's key and with a proof for its session.
WrittenRight ==
  \A c \in DOMAIN conn : \A i \in Requests(c) :
    LET f == Sent(c)[i]
    IN  /\ f.key = c /\ f.body.session = c
        /\ meant[f.body.request] = conn[c].endpoint
        /\ f.body.request <= call.request
        /\ f.body.request = call.request => call.phase \in {"wait_response", "idle"}

\* A request is written at most once, to whatever connection.
WrittenOnce ==
  \A c, d \in DOMAIN conn : \A i \in Requests(c), j \in Requests(d) :
    Sent(c)[i].body.request = Sent(d)[j].body.request => c = d /\ i = j

RequestNumbers ==
  \A c \in DOMAIN conn : \A i, j \in Requests(c) :
    Sent(c)[i].seq = Sent(c)[j].seq => i = j

\* The numbers the client has used up on the connection it holds.
ClientNumbers ==
  /\ call.phase \in Connecting => Requests(call.sock) = {}
  /\ transport.sock # None =>
       /\ \A i \in Requests(transport.sock) : Sent(transport.sock)[i].seq < transport.send_seq
       /\ call.phase # "wait_response" => transport.send_seq = transport.recv_seq
  /\ call.phase = "wait_response" =>
       /\ transport.send_seq = transport.recv_seq + 1
       /\ \E i \in Requests(transport.sock) :
            /\ Sent(transport.sock)[i].seq = transport.recv_seq
            /\ Sent(transport.sock)[i].body.request = call.request

\* A thread has answered every request it has read, or is about to.
ThreadNumbers ==
  \A c \in DOMAIN conn :
    /\ conn[c].thread \in {"run", "send_response"} =>
         /\ conn[c].recv_seq = conn[c].send_seq + 1
         /\ \E i \in Requests(c) :
              Sent(c)[i].seq = conn[c].send_seq /\ Sent(c)[i].body = conn[c].request
    /\ conn[c].thread \notin {"run", "send_response", "closed"} =>
         conn[c].recv_seq = conn[c].send_seq

\* The response with a number answers the request with that number, which has
\* been executed.
AnswersMatch ==
  \A c \in DOMAIN conn : \A i \in Responses(c) :
    LET f == Answers(c)[i]
    IN  /\ f.key = c
        /\ conn[c].thread # "closed" => f.seq < conn[c].send_seq
        /\ executed[f.body] = 1
        /\ \E j \in Requests(c) : Sent(c)[j].seq = f.seq /\ Sent(c)[j].body.request = f.body

ResponseNumbers ==
  \A c \in DOMAIN conn : \A i, j \in Responses(c) :
    Answers(c)[i].seq = Answers(c)[j].seq => i = j

-----------------------------------------------------------------------------
(* What has been executed *)

\* A request that was executed had been accepted on its connection.
ExecutedAccepted ==
  \A r \in Request : executed[r] # 0 =>
    /\ executed[r] = 1
    /\ \E c \in DOMAIN conn : \E i \in Requests(c) :
         Sent(c)[i].body.request = r /\ Sent(c)[i].seq < conn[c].recv_seq

ThreadExecutes ==
  \A c \in DOMAIN conn :
    /\ conn[c].thread = "run" => executed[conn[c].request.request] = 0
    /\ conn[c].thread = "send_response" => executed[conn[c].request.request] = 1

AnsweredRight ==
  \A r \in Request : caller[r][1] = "answered" =>
    /\ caller[r][2] = r /\ executed[r] = 1
    /\ caller[r][3] \in DOMAIN conn
    /\ \E i \in Requests(caller[r][3]) : Sent(caller[r][3])[i].body.request = r

ClientInv ==
  /\ SocketsExist /\ RightSocket /\ OneAtATime
  /\ WrittenRight /\ ClientNumbers /\ AnsweredRight

ConnInv ==
  /\ WrittenOnce /\ RequestNumbers
  /\ ThreadNumbers /\ AnswersMatch /\ ResponseNumbers
  /\ ExecutedAccepted /\ ThreadExecutes

IInv == Shape /\ NumbersFit /\ ClientInv /\ ConnInv

USE TcpAssumption, NoneAssumption
-----------------------------------------------------------------------------
(* Streams *)

LEMMA WrittenStream ==
  ASSUME NEW B, NEW s \in StreamOf(B), NEW f \in Handshake \cup RecordOf(B)
  PROVE  /\ Written(s, f) \in StreamOf(B)
         /\ Written(s, f).sent = Append(s.sent, f)
BY DEF StreamOf, Written

LEMMA ConsumedStream ==
  ASSUME NEW B, NEW s \in StreamOf(B)
  PROVE  /\ Consumed(s) \in StreamOf(B)
         /\ Consumed(s).sent = s.sent
BY DEF StreamOf, Consumed

LEMMA CutFrame ==
  ASSUME NEW B, NEW f \in Handshake \cup RecordOf(B)
  PROVE  /\ CutShort(f) \in Handshake \cup RecordOf(B)
         /\ CutShort(f).type = f.type /\ CutShort(f).seq = f.seq
         /\ CutShort(f).key = f.key /\ CutShort(f).body = f.body
BY DEF CutShort, Handshake, RecordOf

LEMMA RecordFrame ==
  ASSUME NEW B, NEW key \in Nat, NEW seq \in Nat, NEW body \in B, SequenceFits(seq)
  PROVE  /\ Record(key, seq, body) \in RecordOf(B)
         /\ Record(key, seq, body).type = "record"
         /\ Record(key, seq, body).seq = seq
         /\ Record(key, seq, body).key = key
         /\ Record(key, seq, body).body = body
<1>1. seq % SeqLimit = seq /\ seq \in 0..(SeqLimit - 1)
  BY DEF SequenceFits
<1>2. QED
  BY <1>1 DEF Record, RecordOf

LEMMA MessageFrame ==
  ASSUME NEW type \in {"ClientHello", "ClientKeyExchange", "ClientFinished",
                       "ServerHello", "ServerFinished"}
  PROVE  Message(type) \in Handshake /\ Message(type).type # "record"
BY DEF Message, Handshake

\* The records of t are those of s.
SameRecords(s, t) ==
  /\ Records(t) = Records(s)
  /\ \A i \in Records(s) : t.sent[i] = s.sent[i]

\* t is s and one more record, f.
OneMore(s, t, f) ==
  \E n \in Nat :
    /\ n \notin Records(s)
    /\ Records(t) = Records(s) \cup {n}
    /\ t.sent[n] = f
    /\ \A i \in Records(s) : t.sent[i] = s.sent[i]

LEMMA AppendedRecords ==
  ASSUME NEW B, NEW s \in StreamOf(B), NEW f \in Handshake \cup RecordOf(B)
  PROVE  /\ f.type # "record" => SameRecords(s, Written(s, f))
         /\ f.type = "record" => OneMore(s, Written(s, f), f)
<1> DEFINE t == Written(s, f)
           n == Len(s.sent) + 1
<1>1. /\ t.sent = Append(s.sent, f)
      /\ s.sent \in Seq(Handshake \cup RecordOf(B))
  BY WrittenStream DEF StreamOf
<1>2. /\ DOMAIN s.sent = 1..Len(s.sent) /\ Len(s.sent) \in Nat
      /\ DOMAIN t.sent = DOMAIN s.sent \cup {n}
      /\ n \notin DOMAIN s.sent
      /\ t.sent[n] = f
      /\ \A i \in DOMAIN s.sent : t.sent[i] = s.sent[i]
  BY <1>1
<1>3. ASSUME f.type # "record"
      PROVE  SameRecords(s, t)
  <2> HIDE DEF t
  <2>1. QED
    BY <1>2, <1>3 DEF SameRecords, Records
<1>4. ASSUME f.type = "record"
      PROVE  OneMore(s, t, f)
  <2>1. Records(t) = Records(s) \cup {n} /\ n \notin Records(s)
    <3> HIDE DEF t
    <3>1. QED
      BY <1>2, <1>4 DEF Records
  <2>2. \A i \in Records(s) : t.sent[i] = s.sent[i]
    BY <1>2 DEF Records
  <2>3. n \in Nat
    BY <1>2
  <2>4. QED
    BY <1>2, <2>1, <2>2, <2>3 DEF OneMore
<1>5. QED
  BY <1>3, <1>4

LEMMA SameRecordsReflexive ==
  ASSUME NEW s, NEW t, t.sent = s.sent
  PROVE  SameRecords(s, t)
BY DEF SameRecords, Records

\* A frame of a stream that is a record has the type of one.
LEMMA RecordType ==
  ASSUME NEW B, NEW s \in StreamOf(B), NEW i \in Records(s)
  PROVE  s.sent[i] \in RecordOf(B)
BY DEF Records, StreamOf, Handshake

-----------------------------------------------------------------------------
(* Connections *)

LEMMA IsSequence ==
  ASSUME NEW S, NEW n \in Nat, NEW f \in [1..n -> S]
  PROVE  f \in Seq(S)
BY SeqDef

LEMMA OneChanged ==
  ASSUME conn \in Seq(Connection), NEW c \in DOMAIN conn, NEW x \in Connection,
         conn' = [conn EXCEPT ![c] = x]
  PROVE  /\ conn' \in Seq(Connection) /\ DOMAIN conn' = DOMAIN conn
         /\ conn'[c] = x
         /\ \A d \in DOMAIN conn : d # c => conn'[d] = conn[d]
OBVIOUS

LEMMA ConnectionType ==
  ASSUME Shape, NEW c \in DOMAIN conn
  PROVE  /\ conn[c] \in Connection
         /\ conn[c].to_server \in StreamOf(RequestBody)
         /\ conn[c].to_client \in StreamOf(Request)
<1>1. conn[c] \in Connection
  BY DEF Shape
<1>2. QED
  BY <1>1 DEF Connection

LEMMA RequestType ==
  ASSUME Shape, NEW c \in DOMAIN conn, NEW i \in Requests(c)
  PROVE  Sent(c)[i] \in RecordOf(RequestBody)
BY ConnectionType, RecordType DEF Requests, Sent

LEMMA ResponseType ==
  ASSUME Shape, NEW c \in DOMAIN conn, NEW i \in Responses(c)
  PROVE  Answers(c)[i] \in RecordOf(Request)
BY ConnectionType, RecordType DEF Responses, Answers

\* What the client sees of a connection is as it was.
SameForClient(c) ==
  /\ conn'[c].endpoint = conn[c].endpoint
  /\ SameRecords(conn[c].to_server, conn'[c].to_server)

\* Nothing was written to the connection but handshake messages, and its thread
\* has ended or not come to a request.
Unaffected(c) ==
  /\ SameForClient(c)
  /\ SameRecords(conn[c].to_client, conn'[c].to_client)
  /\ conn'[c].send_seq = conn[c].send_seq /\ conn'[c].recv_seq = conn[c].recv_seq
  /\ \/ conn'[c].thread = conn[c].thread /\ conn'[c].request = conn[c].request
     \/ conn'[c].thread = "closed"
     \/ /\ conn[c].thread \notin {"run", "send_response", "closed"}
        /\ conn'[c].thread \notin {"run", "send_response", "closed"}

AllUnaffected ==
  /\ conn' \in Seq(Connection) /\ DOMAIN conn' = DOMAIN conn
  /\ \A c \in DOMAIN conn : Unaffected(c)

LEMMA SameIsUnaffected ==
  ASSUME NEW c, conn'[c] = conn[c]
  PROVE  Unaffected(c)
BY SameRecordsReflexive DEF Unaffected, SameForClient

LEMMA OneUnaffected ==
  ASSUME Shape, NEW c \in DOMAIN conn, NEW x \in Connection,
         conn' = [conn EXCEPT ![c] = x], Unaffected(c)
  PROVE  AllUnaffected
BY OneChanged, SameIsUnaffected DEF AllUnaffected, Shape

LEMMA UnchangedIsUnaffected ==
  ASSUME Shape, UNCHANGED conn
  PROVE  AllUnaffected
BY SameIsUnaffected DEF AllUnaffected, Shape

\* Connections of which only the client's socket, or the thread's end, differs.
LEMMA SocketClosedShape ==
  ASSUME NEW cs \in Seq(Connection)
  PROVE  /\ SocketClosed(cs) \in Seq(Connection) /\ DOMAIN SocketClosed(cs) = DOMAIN cs
         /\ \A c \in DOMAIN cs :
              LET x == SocketClosed(cs)[c]
              IN  /\ x.endpoint = cs[c].endpoint /\ x.thread = cs[c].thread
                  /\ x.to_server = cs[c].to_server /\ x.to_client = cs[c].to_client
                  /\ x.send_seq = cs[c].send_seq /\ x.recv_seq = cs[c].recv_seq
                  /\ x.request = cs[c].request
<1> DEFINE ds == SocketClosed(cs)
<1>1. \A c \in DOMAIN cs : cs[c] \in Connection
  OBVIOUS
<1>2. \A k \in Connection : [k EXCEPT !.client_open = FALSE] \in Connection
  BY DEF Connection
<1>3. ds \in [1..Len(cs) -> Connection] /\ DOMAIN ds = DOMAIN cs /\ Len(cs) \in Nat
  BY <1>1, <1>2 DEF SocketClosed
<1>4. ds \in Seq(Connection)
  BY <1>3, IsSequence
<1>5. QED
  BY <1>1, <1>3, <1>4 DEF SocketClosed, Connection

LEMMA ThreadEndsShape ==
  ASSUME NEW k \in Connection
  PROVE  /\ ThreadEnds(k) \in Connection
         /\ ThreadEnds(k).thread = "closed"
         /\ ThreadEnds(k).endpoint = k.endpoint
         /\ ThreadEnds(k).to_server = k.to_server /\ ThreadEnds(k).to_client = k.to_client
         /\ ThreadEnds(k).send_seq = k.send_seq /\ ThreadEnds(k).recv_seq = k.recv_seq
BY DEF ThreadEnds, Connection, ThreadPhase

LEMMA ThreadEndsUnaffected ==
  ASSUME Shape, NEW c \in DOMAIN conn, conn'[c] = ThreadEnds(conn[c])
  PROVE  Unaffected(c)
BY ConnectionType, ThreadEndsShape, SameRecordsReflexive DEF Unaffected, SameForClient

LEMMA ThreadEndsAll ==
  ASSUME Shape, conn' = [c \in DOMAIN conn |-> conn'[c]],
         \A c \in DOMAIN conn : conn'[c] \in {conn[c], ThreadEnds(conn[c])}
  PROVE  AllUnaffected
<1>1. \A c \in DOMAIN conn : conn'[c] \in Connection
  BY ConnectionType, ThreadEndsShape
<1>2. /\ conn' \in [1..Len(conn) -> Connection] /\ DOMAIN conn' = DOMAIN conn
      /\ Len(conn) \in Nat
  BY <1>1 DEF Shape
<1>3. conn' \in Seq(Connection)
  BY <1>2, IsSequence
<1>4. \A c \in DOMAIN conn : Unaffected(c)
  BY ThreadEndsUnaffected, SameIsUnaffected
<1>5. QED
  BY <1>2, <1>3, <1>4 DEF AllUnaffected

-----------------------------------------------------------------------------
(* What the steps of the threads preserve *)

SameRequests ==
  /\ DOMAIN conn' = DOMAIN conn
  /\ \A c \in DOMAIN conn : SameForClient(c)

SameResponses(c) == SameRecords(conn[c].to_client, conn'[c].to_client)

LEMMA RequestsKept ==
  ASSUME SameRequests, NEW c \in DOMAIN conn
  PROVE  /\ Requests(c)' = Requests(c)
         /\ \A i \in Requests(c) : Sent(c)'[i] = Sent(c)[i]
BY DEF SameRequests, SameForClient, SameRecords, Requests, Sent

LEMMA ResponsesKept ==
  ASSUME NEW c, SameResponses(c)
  PROVE  /\ Responses(c)' = Responses(c)
         /\ \A i \in Responses(c) : Answers(c)'[i] = Answers(c)[i]
BY DEF SameResponses, SameRecords, Responses, Answers

LEMMA AllUnaffectedKeeps ==
  ASSUME AllUnaffected
  PROVE  SameRequests /\ \A c \in DOMAIN conn : SameResponses(c)
BY DEF AllUnaffected, Unaffected, SameRequests, SameResponses

LEMMA WrittenOnceKept ==
  ASSUME SameRequests, WrittenOnce, RequestNumbers
  PROVE  WrittenOnce' /\ RequestNumbers'
<1>1. DOMAIN conn' = DOMAIN conn
  BY DEF SameRequests
<1>2. WrittenOnce'
  BY <1>1, RequestsKept DEF WrittenOnce
<1>3. RequestNumbers'
  BY <1>1, RequestsKept DEF RequestNumbers
<1>4. QED
  BY <1>2, <1>3

\* No record written, no request taken, none executed.
LEMMA ConnInvUnaffected ==
  ASSUME ConnInv, AllUnaffected, UNCHANGED executed
  PROVE  ConnInv'
<1> USE AllUnaffectedKeeps, RequestsKept, ResponsesKept
<1>1. /\ DOMAIN conn' = DOMAIN conn
      /\ \A c \in DOMAIN conn : Unaffected(c)
  BY DEF AllUnaffected
<1>2. WrittenOnce' /\ RequestNumbers'
  BY WrittenOnceKept DEF ConnInv
<1>3. ThreadNumbers'
  <2> SUFFICES ASSUME NEW c \in DOMAIN conn
               PROVE  /\ conn'[c].thread \in {"run", "send_response"} =>
                           /\ conn'[c].recv_seq = conn'[c].send_seq + 1
                           /\ \E i \in Requests(c) : /\ Sent(c)[i].seq = conn'[c].send_seq
                                                    /\ Sent(c)[i].body = conn'[c].request
                      /\ conn'[c].thread \notin {"run", "send_response", "closed"} =>
                           conn'[c].recv_seq = conn'[c].send_seq
    BY <1>1 DEF ThreadNumbers
  <2>1. QED
    BY <1>1 DEF ConnInv, ThreadNumbers, Unaffected
<1>4. AnswersMatch'
  <2>1. \A c \in DOMAIN conn : conn'[c].thread # "closed" =>
          conn[c].thread # "closed" /\ conn'[c].send_seq = conn[c].send_seq
    BY <1>1 DEF Unaffected
  <2>2. QED
    BY <1>1, <2>1 DEF ConnInv, AnswersMatch
<1>5. ResponseNumbers'
  BY <1>1 DEF ConnInv, ResponseNumbers
<1>6. ExecutedAccepted'
  BY <1>1 DEF ConnInv, ExecutedAccepted, Unaffected
<1>7. ThreadExecutes'
  BY <1>1 DEF ConnInv, ThreadExecutes, Unaffected
<1>8. QED
  BY <1>2, <1>3, <1>4, <1>5, <1>6, <1>7 DEF ConnInv

\* A thread takes the request in record k: the one with the number it expects,
\* which is why it cannot be one that was taken before.
LEMMA ConnInvTaken ==
  ASSUME Shape, ConnInv, SameRequests, UNCHANGED executed,
         NEW c \in DOMAIN conn, NEW k \in Requests(c),
         \A d \in DOMAIN conn : SameResponses(d),
         \A d \in DOMAIN conn : d # c => conn'[d] = conn[d],
         conn[c].thread = "await_request", Sent(c)[k].seq = conn[c].recv_seq,
         conn'[c].thread = "run", conn'[c].request = Sent(c)[k].body,
         conn'[c].recv_seq = conn[c].recv_seq + 1, conn'[c].send_seq = conn[c].send_seq
  PROVE  ConnInv'
<1> USE RequestsKept, ResponsesKept
<1>1. /\ DOMAIN conn' = DOMAIN conn
      /\ \A d \in DOMAIN conn : conn[d].recv_seq \in Nat /\ conn[d].send_seq \in Nat
      /\ Sent(c)[k].body.request \in Request
      /\ conn[c].recv_seq = conn[c].send_seq
  <2>1. Sent(c)[k].body \in RequestBody
    BY RequestType DEF RecordOf
  <2>2. QED
    BY <2>1, ConnectionType DEF SameRequests, Connection, RequestBody, ConnInv, ThreadNumbers
<1>2. WrittenOnce' /\ RequestNumbers'
  BY WrittenOnceKept DEF ConnInv
<1>3. ThreadNumbers'
  BY <1>1 DEF ConnInv, ThreadNumbers
<1>4. AnswersMatch'
  BY <1>1 DEF ConnInv, AnswersMatch
<1>5. ResponseNumbers'
  BY <1>1 DEF ConnInv, ResponseNumbers
<1>6. ExecutedAccepted'
  <2> SUFFICES ASSUME NEW r \in Request, executed[r] # 0
               PROVE  /\ executed[r] = 1
                      /\ \E d \in DOMAIN conn : \E i \in Requests(d)' :
                           /\ Sent(d)'[i].body.request = r
                           /\ Sent(d)'[i].seq < conn'[d].recv_seq
    BY <1>1 DEF ExecutedAccepted
  <2>0. PICK d \in DOMAIN conn :
          \E i \in Requests(d) :
            Sent(d)[i].body.request = r /\ Sent(d)[i].seq < conn[d].recv_seq
    BY DEF ConnInv, ExecutedAccepted
  <2>1. PICK i \in Requests(d) :
          Sent(d)[i].body.request = r /\ Sent(d)[i].seq < conn[d].recv_seq
    BY <2>0
  <2>2. Sent(d)[i].seq \in Nat
    BY RequestType DEF RecordOf
  <2>3. Sent(d)[i].seq < conn'[d].recv_seq
    BY <1>1, <2>1, <2>2
  <2>4. QED
    BY <2>1, <2>3 DEF ConnInv, ExecutedAccepted
<1>7. executed[Sent(c)[k].body.request] = 0
  <2>1. SUFFICES ASSUME executed[Sent(c)[k].body.request] # 0
                 PROVE  FALSE
    OBVIOUS
  <2>0. PICK d \in DOMAIN conn :
          \E i \in Requests(d) :
            /\ Sent(d)[i].body.request = Sent(c)[k].body.request
            /\ Sent(d)[i].seq < conn[d].recv_seq
    BY <1>1, <2>1 DEF ConnInv, ExecutedAccepted
  <2>2. PICK i \in Requests(d) :
          /\ Sent(d)[i].body.request = Sent(c)[k].body.request
          /\ Sent(d)[i].seq < conn[d].recv_seq
    BY <2>0
  <2>3. d = c /\ i = k
    BY <2>2 DEF ConnInv, WrittenOnce
  <2>4. QED
    BY <1>1, <2>2, <2>3
<1>8. ThreadExecutes'
  BY <1>1, <1>7 DEF ConnInv, ThreadExecutes
<1>9. QED
  BY <1>2, <1>3, <1>4, <1>5, <1>6, <1>8 DEF ConnInv

\* The application runs the request of a thread; no other thread has it.
LEMMA ConnInvExecuted ==
  ASSUME Shape, ConnInv, SameRequests,
         NEW c \in DOMAIN conn, Ran(c),
         \A d \in DOMAIN conn : SameResponses(d),
         \A d \in DOMAIN conn : d # c => conn'[d] = conn[d],
         conn[c].thread = "run", conn'[c].thread \in {"send_response", "closed"},
         conn'[c].request = conn[c].request,
         conn'[c].recv_seq = conn[c].recv_seq, conn'[c].send_seq = conn[c].send_seq
  PROVE  ConnInv' /\ \A r \in Request : executed[r] = 1 => executed'[r] = 1
<1> USE RequestsKept, ResponsesKept
<1> DEFINE q == conn[c].request.request
<1>1. PICK k \in Requests(c) :
        Sent(c)[k].seq = conn[c].send_seq /\ Sent(c)[k].body = conn[c].request
  BY DEF ConnInv, ThreadNumbers
<1>2. /\ DOMAIN conn' = DOMAIN conn
      /\ conn[c].recv_seq = conn[c].send_seq + 1 /\ conn[c].send_seq \in Nat
      /\ q \in Request
      /\ executed[q] = 0
  <2>1. Sent(c)[k].body \in RequestBody
    BY RequestType DEF RecordOf
  <2>2. QED
    BY <1>1, <2>1, ConnectionType
    DEF SameRequests, RequestBody, Connection, ConnInv, ThreadNumbers, ThreadExecutes
<1>3. /\ executed'[q] = 1
      /\ \A r \in Request : r # q => executed'[r] = executed[r]
  BY <1>2 DEF Ran, Shape
<1>4. WrittenOnce' /\ RequestNumbers'
  BY WrittenOnceKept DEF ConnInv
<1>5. ThreadNumbers'
  BY <1>2 DEF ConnInv, ThreadNumbers
<1>6. AnswersMatch'
  <2> SUFFICES ASSUME NEW d \in DOMAIN conn, NEW i \in Responses(d)
               PROVE  /\ Answers(d)[i].key = d
                      /\ conn'[d].thread # "closed" => Answers(d)[i].seq < conn[d].send_seq
                      /\ executed'[Answers(d)[i].body] = 1
                      /\ \E j \in Requests(d) :
                           /\ Sent(d)[j].seq = Answers(d)[i].seq
                           /\ Sent(d)[j].body.request = Answers(d)[i].body
    BY <1>2 DEF AnswersMatch
  <2>1. Answers(d)[i].body \in Request
    BY ResponseType DEF RecordOf
  <2>2. executed[Answers(d)[i].body] = 1
    BY DEF ConnInv, AnswersMatch
  <2>3. executed'[Answers(d)[i].body] = 1
    BY <1>2, <1>3, <2>1, <2>2
  <2>4. QED
    BY <2>3 DEF ConnInv, AnswersMatch
<1>7. ResponseNumbers'
  BY <1>2 DEF ConnInv, ResponseNumbers
<1>8. ExecutedAccepted'
  <2> SUFFICES ASSUME NEW r \in Request, executed'[r] # 0
               PROVE  /\ executed'[r] = 1
                      /\ \E d \in DOMAIN conn : \E i \in Requests(d) :
                           Sent(d)[i].body.request = r /\ Sent(d)[i].seq < conn[d].recv_seq
    BY <1>2 DEF ExecutedAccepted
  <2>1. CASE r = q
    BY <1>1, <1>2, <1>3, <2>1
  <2>2. CASE r # q
    BY <1>3, <2>2 DEF ConnInv, ExecutedAccepted
  <2>3. QED
    BY <2>1, <2>2
<1>9. ThreadExecutes'
  <2> SUFFICES ASSUME NEW d \in DOMAIN conn, d # c, conn[d].thread \in {"run", "send_response"}
               PROVE  executed'[conn[d].request.request] = executed[conn[d].request.request]
    BY <1>2, <1>3 DEF ConnInv, ThreadExecutes
  <2>1. PICK i \in Requests(d) : Sent(d)[i].body = conn[d].request
    BY DEF ConnInv, ThreadNumbers
  <2>2. conn[d].request.request # q
    BY <1>1, <2>1 DEF ConnInv, WrittenOnce
  <2>3. conn[d].request.request \in Request
    BY <2>1, RequestType DEF RecordOf, RequestBody
  <2>4. QED
    BY <1>3, <2>2, <2>3
<1>10. ConnInv'
  BY <1>4, <1>5, <1>6, <1>7, <1>8, <1>9 DEF ConnInv
<1>11. QED
  BY <1>2, <1>3, <1>10

\* A thread writes its response, in a record with its next number; when the
\* write fails the number stays and the thread ends.
LEMMA ConnInvAnswered ==
  ASSUME Shape, ConnInv, SameRequests, UNCHANGED executed,
         NEW c \in DOMAIN conn, NEW f,
         OneMore(conn[c].to_client, conn'[c].to_client, f),
         f.seq = conn[c].send_seq, f.key = c, f.body = conn[c].request.request,
         \A d \in DOMAIN conn : d # c => conn'[d] = conn[d],
         conn[c].thread = "send_response",
         conn'[c].recv_seq = conn[c].recv_seq,
         \/ conn'[c].thread \in {"closed", "await_request"} /\ conn'[c].send_seq = conn[c].send_seq + 1
         \/ conn'[c].thread = "closed" /\ conn'[c].send_seq = conn[c].send_seq
  PROVE  ConnInv'
<1> USE RequestsKept
<1>1. PICK n \in Nat :
        /\ n \notin Responses(c)
        /\ Responses(c)' = Responses(c) \cup {n}
        /\ Answers(c)'[n] = f
        /\ \A i \in Responses(c) : Answers(c)'[i] = Answers(c)[i]
  BY DEF OneMore, Responses, Answers
<1>2. \A d \in DOMAIN conn : d # c =>
        Responses(d)' = Responses(d) /\ Answers(d)' = Answers(d)
  BY DEF Responses, Answers
<1>3. /\ DOMAIN conn' = DOMAIN conn
      /\ conn[c].recv_seq = conn[c].send_seq + 1 /\ conn[c].send_seq \in Nat
      /\ executed[f.body] = 1
  BY ConnectionType DEF SameRequests, Connection, ConnInv, ThreadNumbers, ThreadExecutes
<1>4. PICK k \in Requests(c) : Sent(c)[k].seq = f.seq /\ Sent(c)[k].body.request = f.body
  BY DEF ConnInv, ThreadNumbers
<1>5. \A i \in Responses(c) : Answers(c)[i].seq \in Nat /\ Answers(c)[i].seq < f.seq
  <2> SUFFICES ASSUME NEW i \in Responses(c)
               PROVE  Answers(c)[i].seq \in Nat /\ Answers(c)[i].seq < f.seq
    OBVIOUS
  <2>1. Answers(c)[i].seq \in Nat
    BY ResponseType DEF RecordOf
  <2>2. QED
    BY <2>1 DEF ConnInv, AnswersMatch
<1>6. WrittenOnce' /\ RequestNumbers'
  BY WrittenOnceKept DEF ConnInv
<1>7. ThreadNumbers'
  BY <1>3 DEF ConnInv, ThreadNumbers
<1>8. AnswersMatch'
  <2> SUFFICES ASSUME NEW d \in DOMAIN conn, NEW i \in Responses(d)'
               PROVE  /\ Answers(d)'[i].key = d
                      /\ conn'[d].thread # "closed" => Answers(d)'[i].seq < conn'[d].send_seq
                      /\ executed[Answers(d)'[i].body] = 1
                      /\ \E j \in Requests(d) : /\ Sent(d)[j].seq = Answers(d)'[i].seq
                                               /\ Sent(d)[j].body.request = Answers(d)'[i].body
    BY <1>3 DEF AnswersMatch
  <2>1. CASE d # c
    BY <1>2, <2>1 DEF ConnInv, AnswersMatch
  <2>2. CASE d = c /\ i = n
    BY <1>1, <1>3, <1>4, <2>2
  <2>3. CASE d = c /\ i \in Responses(c)
    BY <1>1, <1>3, <1>5, <2>3 DEF ConnInv, AnswersMatch
  <2>4. QED
    BY <1>1, <2>1, <2>2, <2>3
<1>9. ResponseNumbers'
  <2> SUFFICES ASSUME NEW d \in DOMAIN conn, NEW i \in Responses(d)', NEW j \in Responses(d)',
                      Answers(d)'[i].seq = Answers(d)'[j].seq
               PROVE  i = j
    BY <1>3 DEF ResponseNumbers
  <2>1. CASE d # c
    BY <1>2, <2>1 DEF ConnInv, ResponseNumbers
  <2>2. CASE d = c
    BY <1>1, <1>3, <1>5, <2>2 DEF ConnInv, ResponseNumbers
  <2>3. QED
    BY <2>1, <2>2
<1>10. ExecutedAccepted'
  BY <1>3 DEF ConnInv, ExecutedAccepted
<1>11. ThreadExecutes'
  BY <1>3 DEF ConnInv, ThreadExecutes
<1>12. QED
  BY <1>6, <1>7, <1>8, <1>9, <1>10, <1>11 DEF ConnInv

\* The client's part of the invariant does not depend on the threads.
LEMMA ClientInvKept ==
  ASSUME Shape, ClientInv, SameRequests, UNCHANGED Client,
         \A r \in Request : executed[r] = 1 => executed'[r] = 1
  PROVE  ClientInv'
<1> USE RequestsKept
<1>1. /\ DOMAIN conn' = DOMAIN conn
      /\ \A c \in DOMAIN conn : conn'[c].endpoint = conn[c].endpoint
      /\ transport' = transport /\ call' = call /\ caller' = caller /\ meant' = meant
  BY DEF SameRequests, SameForClient, Client
<1>2. SocketsExist' /\ OneAtATime'
  BY <1>1 DEF ClientInv, SocketsExist, OneAtATime
<1>3. transport.sock # None => transport.sock \in DOMAIN conn
  BY DEF ClientInv, SocketsExist
<1>4. call.phase \in Connecting \cup InSession => call.sock \in DOMAIN conn
  BY DEF ClientInv, SocketsExist, Connecting, InSession
<1>5. RightSocket'
  BY <1>1, <1>3, <1>4 DEF ClientInv, RightSocket
<1>6. WrittenRight'
  BY <1>1 DEF ClientInv, WrittenRight
<1>7. ClientNumbers'
  <2>1. call.phase = "wait_response" => transport.sock \in DOMAIN conn
    BY <1>4 DEF ClientInv, RightSocket, InSession
  <2>2. call.phase \in Connecting => call.sock \in DOMAIN conn
    BY <1>4
  <2>3. QED
    BY <1>1, <1>3, <2>1, <2>2 DEF ClientInv, ClientNumbers
<1>8. AnsweredRight'
  BY <1>1 DEF ClientInv, AnsweredRight
<1>9. QED
  BY <1>2, <1>5, <1>6, <1>7, <1>8 DEF ClientInv

-----------------------------------------------------------------------------
(* The steps of the threads *)

LEMMA PhaseSets ==
  /\ DOMAIN ServerReceives = ServerReading
  /\ \A c : DOMAIN ServerSends(c) = ServerSending
  /\ DOMAIN ClientSends = ClientSending
BY DEF ServerReceives, ServerReading, ServerSends, ServerSending, ClientSends, ClientSending

LEMMA RunningRequest ==
  ASSUME IInv, NEW c \in DOMAIN conn, conn[c].thread \in {"run", "send_response"}
  PROVE  conn[c].request \in RequestBody
<1>1. PICK i \in Requests(c) : Sent(c)[i].body = conn[c].request
  BY DEF IInv, ConnInv, ThreadNumbers
<1>2. QED
  BY <1>1, RequestType DEF IInv, RecordOf

LEMMA StepUnaffected ==
  ASSUME IInv, AllUnaffected, UNCHANGED <<Client, executed>>,
         listening' \in [Endpoint -> BOOLEAN]
  PROVE  IInv'
<1>1. Shape'
  BY DEF IInv, AllUnaffected, Shape, Client
<1>2. NumbersFit'
  BY DEF IInv, AllUnaffected, Unaffected, NumbersFit, Client
<1>3. ClientInv'
  BY AllUnaffectedKeeps, ClientInvKept DEF IInv
<1>4. ConnInv'
  BY ConnInvUnaffected DEF IInv
<1>5. QED
  BY <1>1, <1>2, <1>3, <1>4 DEF IInv

LEMMA AcceptKeeps ==
  ASSUME IInv, NEW c \in DOMAIN conn, Accept(c)
  PROVE  IInv'
<1> DEFINE x == [conn[c] EXCEPT !.thread = "await_hello"]
<1>1. conn[c] \in Connection
  BY ConnectionType DEF IInv
<1>2. /\ x \in Connection /\ x.thread = "await_hello"
      /\ x.endpoint = conn[c].endpoint
      /\ x.to_server = conn[c].to_server /\ x.to_client = conn[c].to_client
      /\ x.send_seq = conn[c].send_seq /\ x.recv_seq = conn[c].recv_seq
  BY <1>1 DEF Connection, ThreadPhase, ServerReading
<1>3. conn' = [conn EXCEPT ![c] = x]
  BY DEF Accept
<1>4. conn'[c] = x
  BY <1>2, <1>3, OneChanged DEF IInv, Shape
<1>5. Unaffected(c)
  BY <1>2, <1>4, SameRecordsReflexive DEF Accept, Thread, Unaffected, SameForClient
<1>6. AllUnaffected
  BY <1>2, <1>3, <1>5, OneUnaffected DEF IInv
<1>7. QED
  BY <1>6, StepUnaffected DEF Accept, IInv, Shape, Client

LEMMA ServerHandshakesKeeps ==
  ASSUME IInv, NEW c \in DOMAIN conn, ServerHandshakes(c)
  PROVE  IInv'
<1> DEFINE next == ServerReceives[conn[c].thread]
           in == Consumed(conn[c].to_server)
           x == [conn[c] EXCEPT !.thread = next, !.to_server = in]
<1>1. conn[c] \in Connection
  BY ConnectionType DEF IInv
<1>2. /\ conn[c].thread \in ServerReading
      /\ next \in {"send_sh", "send_sf", "await_request"}
  BY DEF ServerHandshakes, ServerReceives, ServerReading
<1>3. in \in StreamOf(RequestBody) /\ in.sent = conn[c].to_server.sent
  BY <1>1, ConsumedStream DEF Connection
<1>4. conn' = [conn EXCEPT ![c] = x]
  BY DEF ServerHandshakes
<1> HIDE DEF next, in
<1>5. /\ x \in Connection /\ x.thread = next
      /\ x.endpoint = conn[c].endpoint
      /\ x.to_server = in /\ x.to_client = conn[c].to_client
      /\ x.send_seq = conn[c].send_seq /\ x.recv_seq = conn[c].recv_seq
  BY <1>1, <1>2, <1>3 DEF Connection, ThreadPhase, ServerSending
<1>6. conn'[c] = x
  BY <1>4, <1>5, OneChanged DEF IInv, Shape
<1>7. Unaffected(c)
  BY <1>2, <1>3, <1>5, <1>6, SameRecordsReflexive DEF Unaffected, SameForClient, ServerReading
<1>8. AllUnaffected
  BY <1>4, <1>5, <1>7, OneUnaffected DEF IInv
<1>9. QED
  BY <1>8, StepUnaffected DEF ServerHandshakes, IInv, Shape, Client

\* A thread that only ends.
LEMMA OneThreadEndsKeeps ==
  ASSUME IInv, NEW c \in DOMAIN conn, conn' = [conn EXCEPT ![c] = ThreadEnds(conn[c])],
         UNCHANGED <<Client, listening, executed>>
  PROVE  IInv'
<1>1. ThreadEnds(conn[c]) \in Connection
  BY ConnectionType, ThreadEndsShape DEF IInv
<1>2. conn'[c] = ThreadEnds(conn[c])
  BY <1>1, OneChanged DEF IInv, Shape
<1>3. AllUnaffected
  BY <1>1, <1>2, ThreadEndsUnaffected, OneUnaffected DEF IInv
<1>4. QED
  BY <1>3, StepUnaffected DEF IInv, Shape

LEMMA ServerRefusesKeeps ==
  ASSUME IInv, NEW c \in DOMAIN conn, ServerRefuses(c)
  PROVE  IInv'
BY OneThreadEndsKeeps DEF ServerRefuses, Client

LEMMA ServerReceiveFailsKeeps ==
  ASSUME IInv, NEW c \in DOMAIN conn, ServerReceiveFails(c)
  PROVE  IInv'
BY OneThreadEndsKeeps DEF ServerReceiveFails, Client

LEMMA ServerReceivesRequestKeeps ==
  ASSUME IInv, NEW c \in DOMAIN conn, ServerReceivesRequest(c)
  PROVE  IInv'
<1> DEFINE s == conn[c].to_server
           frame == NextFrame(s)
           in == Consumed(s)
           seq == conn[c].recv_seq + 1
           x == [conn[c] EXCEPT !.thread = "run", !.request = frame.body,
                                !.recv_seq = seq, !.to_server = in]
<1>1. CASE ~Accepted(frame, c, conn[c].recv_seq)
  <2>1. conn' = [conn EXCEPT ![c] = ThreadEnds(conn[c])]
    BY <1>1 DEF ServerReceivesRequest
  <2>2. QED
    BY <2>1, OneThreadEndsKeeps DEF ServerReceivesRequest, Client
<1>2. CASE Accepted(frame, c, conn[c].recv_seq)
  <2> DEFINE k == s.read + 1
  <2>1. /\ conn[c] \in Connection
        /\ s \in StreamOf(RequestBody)
    BY ConnectionType DEF IInv
  <2>2. /\ k \in DOMAIN s.sent
        /\ frame = s.sent[k]
    BY <2>1 DEF ServerReceivesRequest, Readable, Pending, NextFrame, StreamOf
  <2>3. k \in Requests(c) /\ frame = Sent(c)[k]
    BY <2>2, <1>2 DEF Accepted, Requests, Records, Sent
  <2>4. /\ frame \in RecordOf(RequestBody)
        /\ frame.seq = conn[c].recv_seq
    BY <2>3, <1>2, RequestType DEF IInv, Accepted
  <2>5. in \in StreamOf(RequestBody) /\ in.sent = s.sent
    BY <2>1, ConsumedStream
  <2>6. frame.body \in RequestBody /\ seq \in Nat /\ seq <= SeqLimit
    BY <2>1, <2>4 DEF RecordOf, Connection
  <2>7. conn' = [conn EXCEPT ![c] = x] /\ conn[c].thread = "await_request"
    BY <1>2 DEF ServerReceivesRequest, Thread
  <2>8. seq = conn[c].recv_seq + 1
    OBVIOUS
  <2> HIDE DEF frame, in, seq, k
  <2>9. /\ x \in Connection /\ x.thread = "run" /\ x.request = frame.body
        /\ x.endpoint = conn[c].endpoint
        /\ x.to_server = in /\ x.to_client = conn[c].to_client
        /\ x.send_seq = conn[c].send_seq /\ x.recv_seq = seq
    BY <2>1, <2>5, <2>6 DEF Connection, ThreadPhase
  <2>10. /\ conn' \in Seq(Connection) /\ DOMAIN conn' = DOMAIN conn
         /\ conn'[c] = x
         /\ \A d \in DOMAIN conn : d # c => conn'[d] = conn[d]
    BY <2>7, <2>9, OneChanged DEF IInv, Shape
  <2> HIDE DEF x
  <2>11. SameRequests /\ \A d \in DOMAIN conn : SameResponses(d)
    BY <2>5, <2>9, <2>10, SameRecordsReflexive DEF SameRequests, SameForClient, SameResponses
  <2>12. Shape'
    BY <2>10 DEF IInv, Shape, ServerReceivesRequest, Client
  <2>13. NumbersFit'
    BY <2>6, <2>9, <2>10 DEF IInv, NumbersFit, ServerReceivesRequest, Client
  <2>14. ClientInv'
    BY <2>11, ClientInvKept DEF IInv, ServerReceivesRequest, Client
  <2>15. ConnInv'
    BY <2>3, <2>4, <2>7, <2>8, <2>9, <2>10, <2>11, ConnInvTaken DEF IInv, ServerReceivesRequest
  <2>16. QED
    BY <2>12, <2>13, <2>14, <2>15 DEF IInv
<1>3. QED
  BY <1>1, <1>2

\* The application has run; the thread goes on to its response, or ends.
LEMMA RanKeeps ==
  ASSUME IInv, NEW c \in DOMAIN conn, Thread(c, "run"), Ran(c),
         NEW next \in {"send_response", "closed"},
         conn' = [conn EXCEPT ![c].thread = next], UNCHANGED <<Client, listening>>
  PROVE  IInv'
<1> DEFINE x == [conn[c] EXCEPT !.thread = next]
<1>1. conn[c] \in Connection
  BY ConnectionType DEF IInv
<1>2. /\ x \in Connection /\ x.thread = next /\ x.request = conn[c].request
      /\ x.endpoint = conn[c].endpoint
      /\ x.to_server = conn[c].to_server /\ x.to_client = conn[c].to_client
      /\ x.send_seq = conn[c].send_seq /\ x.recv_seq = conn[c].recv_seq
  BY <1>1 DEF Connection, ThreadPhase, ServerSending
<1>3. conn' = [conn EXCEPT ![c] = x]
  OBVIOUS
<1>4. /\ conn' \in Seq(Connection) /\ DOMAIN conn' = DOMAIN conn
      /\ conn'[c] = x
      /\ \A d \in DOMAIN conn : d # c => conn'[d] = conn[d]
  BY <1>2, <1>3, OneChanged DEF IInv, Shape
<1> HIDE DEF x
<1>5. SameRequests /\ \A d \in DOMAIN conn : SameResponses(d)
  BY <1>2, <1>4, SameRecordsReflexive DEF SameRequests, SameForClient, SameResponses
<1>6. conn[c].thread = "run"
  BY DEF Thread
<1>7. ConnInv' /\ \A r \in Request : executed[r] = 1 => executed'[r] = 1
  BY <1>2, <1>4, <1>5, <1>6, ConnInvExecuted DEF IInv
<1>8. ClientInv'
  BY <1>5, <1>7, ClientInvKept DEF IInv
<1>9. Shape'
  <2>1. conn[c].request.request \in Request
    BY <1>6, RunningRequest DEF RequestBody
  <2>2. executed' \in [Request -> Nat]
    BY <2>1 DEF Ran, IInv, Shape
  <2>3. QED
    BY <1>4, <2>2 DEF IInv, Shape, Client
<1>10. NumbersFit'
  BY <1>2, <1>4 DEF IInv, NumbersFit, Client
<1>11. QED
  BY <1>7, <1>8, <1>9, <1>10 DEF IInv

LEMMA ExecuteKeeps ==
  ASSUME IInv, NEW c \in DOMAIN conn, Execute(c)
  PROVE  IInv'
BY RanKeeps DEF Execute, Client

LEMMA ExecuteRaisesKeeps ==
  ASSUME IInv, NEW c \in DOMAIN conn, ExecuteRaises(c)
  PROVE  IInv'
<1>1. CASE Ran(c)
  BY <1>1, RanKeeps DEF ExecuteRaises, ThreadEnds, Client
<1>2. CASE UNCHANGED executed
  <2>1. conn' = [conn EXCEPT ![c] = ThreadEnds(conn[c])]
    BY DEF ExecuteRaises
  <2>2. QED
    BY <1>2, <2>1, OneThreadEndsKeeps DEF ExecuteRaises, Client
<1>3. QED
  BY <1>1, <1>2 DEF ExecuteRaises

\* What a thread sends.
LEMMA ServerFrameType ==
  ASSUME IInv, NEW c \in DOMAIN conn, conn[c].thread \in ServerSending,
         Thread(c, "send_response") => SequenceFits(conn[c].send_seq)
  PROVE  LET f == ServerFrame(c)
         IN  /\ f \in Handshake \cup RecordOf(Request)
             /\ conn[c].thread # "send_response" => f.type # "record"
             /\ conn[c].thread = "send_response" =>
                  /\ f.type = "record" /\ f.seq = conn[c].send_seq
                  /\ f.key = c /\ f.body = conn[c].request.request
<1> DEFINE f == ServerFrame(c)
<1>1. CASE conn[c].thread \in {"send_sh", "send_sf"}
  <2>1. PICK type \in {"ServerHello", "ServerFinished"} : f = Message(type)
    BY <1>1 DEF ServerFrame
  <2>2. Message(type) \in Handshake /\ Message(type).type # "record"
    BY MessageFrame
  <2>3. QED
    BY <1>1, <2>1, <2>2
<1>2. CASE conn[c].thread = "send_response"
  <2>1. f = Record(c, conn[c].send_seq, conn[c].request.request)
    BY <1>2 DEF ServerFrame
  <2>2. /\ conn[c].request.request \in Request
        /\ conn[c].send_seq \in Nat /\ SequenceFits(conn[c].send_seq)
        /\ c \in Nat
    BY <1>2, RunningRequest, ConnectionType DEF RequestBody, Connection, Thread, IInv, Shape
  <2> DEFINE seq == conn[c].send_seq
             body == conn[c].request.request
  <2> HIDE DEF seq, body
  <2>3. ASSUME c \in Nat, body \in Request, seq \in Nat, SequenceFits(seq), f = Record(c, seq, body)
        PROVE  /\ f \in RecordOf(Request) /\ f.type = "record"
               /\ f.seq = seq /\ f.key = c /\ f.body = body
    BY <2>3, RecordFrame
  <2>4. QED
    BY <1>2, <2>1, <2>2, <2>3 DEF seq, body
<1>3. QED
  BY <1>1, <1>2 DEF ServerSending

LEMMA ServerSendKeeps ==
  ASSUME IInv, NEW c \in DOMAIN conn, ServerSend(c)
  PROVE  IInv'
<1> DEFINE f == ServerFrame(c)
           out == Written(conn[c].to_client, f)
           next == ServerSends(c)[conn[c].thread]
           seq == IF Thread(c, "send_response") THEN conn[c].send_seq + 1 ELSE conn[c].send_seq
           x == [conn[c] EXCEPT !.thread = next, !.to_client = out, !.send_seq = seq,
                                !.request = None]
<1>1. /\ conn[c] \in Connection
      /\ conn[c].to_client \in StreamOf(Request)
      /\ conn[c].thread \in ServerSending
      /\ Thread(c, "send_response") => SequenceFits(conn[c].send_seq)
  BY ConnectionType, PhaseSets DEF ServerSend, IInv
<1>2. /\ f \in Handshake \cup RecordOf(Request)
      /\ conn[c].thread # "send_response" => f.type # "record"
      /\ conn[c].thread = "send_response" =>
           /\ f.type = "record" /\ f.seq = conn[c].send_seq
           /\ f.key = c /\ f.body = conn[c].request.request
  BY <1>1, ServerFrameType
<1>3. conn' = [conn EXCEPT ![c] = x]
  BY DEF ServerSend
<1> HIDE DEF f
<1>4. /\ out \in StreamOf(Request)
      /\ f.type # "record" => SameRecords(conn[c].to_client, out)
      /\ f.type = "record" => OneMore(conn[c].to_client, out, f)
  BY <1>1, <1>2, WrittenStream, AppendedRecords
<1>5. /\ conn[c].thread # "send_response" => next \in {"await_cke", "await_finished"}
      /\ conn[c].thread = "send_response" => next \in {"closed", "await_request"}
  BY <1>1 DEF ServerSends, ServerSending
<1>6. /\ seq \in Nat /\ seq <= SeqLimit
      /\ conn[c].thread # "send_response" => seq = conn[c].send_seq
      /\ conn[c].thread = "send_response" => seq = conn[c].send_seq + 1
  BY <1>1 DEF Connection, IInv, NumbersFit, SequenceFits, Thread
<1> HIDE DEF out, next, seq
<1>7. /\ x \in Connection /\ x.thread = next
      /\ x.endpoint = conn[c].endpoint
      /\ x.to_server = conn[c].to_server /\ x.to_client = out
      /\ x.send_seq = seq /\ x.recv_seq = conn[c].recv_seq
  BY <1>1, <1>4, <1>5, <1>6 DEF Connection, ThreadPhase, ServerReading
<1>8. /\ conn' \in Seq(Connection) /\ DOMAIN conn' = DOMAIN conn
      /\ conn'[c] = x
      /\ \A d \in DOMAIN conn : d # c => conn'[d] = conn[d]
  BY <1>3, <1>7, OneChanged DEF IInv, Shape
<1> HIDE DEF x
<1>9. CASE conn[c].thread # "send_response"
  <2>1. Unaffected(c)
    BY <1>1, <1>2, <1>4, <1>5, <1>6, <1>7, <1>8, <1>9, SameRecordsReflexive
    DEF Unaffected, SameForClient, ServerSending
  <2>2. AllUnaffected
    BY <1>3, <1>7, <2>1, OneUnaffected DEF IInv
  <2>3. QED
    BY <2>2, StepUnaffected DEF ServerSend, IInv, Shape, Client
<1>10. CASE conn[c].thread = "send_response"
  <2>1. SameRequests
    BY <1>7, <1>8, SameRecordsReflexive DEF SameRequests, SameForClient
  <2>2. ConnInv'
    BY <1>2, <1>4, <1>5, <1>6, <1>7, <1>8, <1>10, <2>1, ConnInvAnswered DEF IInv, ServerSend
  <2>3. ClientInv'
    BY <2>1, ClientInvKept DEF IInv, ServerSend, Client
  <2>4. Shape'
    BY <1>8 DEF IInv, Shape, ServerSend, Client
  <2>5. NumbersFit'
    BY <1>6, <1>7, <1>8 DEF IInv, NumbersFit, ServerSend, Client
  <2>6. QED
    BY <2>2, <2>3, <2>4, <2>5 DEF IInv
<1>11. QED
  BY <1>9, <1>10

LEMMA ServerSendFailsKeeps ==
  ASSUME IInv, NEW c \in DOMAIN conn, ServerSendFails(c)
  PROVE  IInv'
<1> DEFINE f == CutShort(ServerFrame(c))
<1>1. /\ conn[c] \in Connection
      /\ conn[c].to_client \in StreamOf(Request)
      /\ conn[c].thread \in ServerSending
      /\ Thread(c, "send_response") => SequenceFits(conn[c].send_seq)
  BY ConnectionType, PhaseSets DEF ServerSendFails, IInv
<1>2. /\ f \in Handshake \cup RecordOf(Request)
      /\ conn[c].thread # "send_response" => f.type # "record"
      /\ conn[c].thread = "send_response" =>
           /\ f.type = "record" /\ f.seq = conn[c].send_seq
           /\ f.key = c /\ f.body = conn[c].request.request
  BY <1>1, ServerFrameType, CutFrame
<1>3. PICK out \in Attempts(conn[c].to_client, ServerFrame(c)) :
        conn' = [conn EXCEPT ![c] = ThreadEnds([conn[c] EXCEPT !.to_client = out])]
  BY DEF ServerSendFails
<1> HIDE DEF f
<1>4. out \in {conn[c].to_client, Written(conn[c].to_client, f)}
  BY <1>3 DEF Attempts, f
<1>5. out \in StreamOf(Request)
  BY <1>1, <1>2, <1>4, WrittenStream
<1> DEFINE y == [conn[c] EXCEPT !.to_client = out]
           x == ThreadEnds(y)
<1>6. /\ y \in Connection
      /\ y.endpoint = conn[c].endpoint
      /\ y.to_server = conn[c].to_server /\ y.to_client = out
      /\ y.send_seq = conn[c].send_seq /\ y.recv_seq = conn[c].recv_seq
  BY <1>1, <1>5 DEF Connection
<1> HIDE DEF y
<1>7. /\ x \in Connection /\ x.thread = "closed"
      /\ x.endpoint = conn[c].endpoint
      /\ x.to_server = conn[c].to_server /\ x.to_client = out
      /\ x.send_seq = conn[c].send_seq /\ x.recv_seq = conn[c].recv_seq
  BY <1>6, ThreadEndsShape
<1>8. conn' = [conn EXCEPT ![c] = x]
  BY <1>3 DEF y
<1>9. /\ conn' \in Seq(Connection) /\ DOMAIN conn' = DOMAIN conn
      /\ conn'[c] = x
      /\ \A d \in DOMAIN conn : d # c => conn'[d] = conn[d]
  BY <1>7, <1>8, OneChanged DEF IInv, Shape
<1> HIDE DEF x
<1>10. CASE SameRecords(conn[c].to_client, out)
  <2>1. Unaffected(c)
    BY <1>7, <1>9, <1>10, SameRecordsReflexive DEF Unaffected, SameForClient
  <2>2. AllUnaffected
    BY <1>7, <1>8, <2>1, OneUnaffected DEF IInv
  <2>3. QED
    BY <2>2, StepUnaffected DEF ServerSendFails, IInv, Shape, Client
<1>11. CASE conn[c].thread = "send_response" /\ OneMore(conn[c].to_client, out, f)
  <2>1. SameRequests
    BY <1>7, <1>9, SameRecordsReflexive DEF SameRequests, SameForClient
  <2>2. ConnInv'
    BY <1>2, <1>7, <1>9, <1>11, <2>1, ConnInvAnswered DEF IInv, ServerSendFails
  <2>3. ClientInv'
    BY <2>1, ClientInvKept DEF IInv, ServerSendFails, Client
  <2>4. Shape'
    BY <1>9 DEF IInv, Shape, ServerSendFails, Client
  <2>5. NumbersFit'
    BY <1>7, <1>9 DEF IInv, NumbersFit, ServerSendFails, Client
  <2>6. QED
    BY <2>2, <2>3, <2>4, <2>5 DEF IInv
<1>12. \/ SameRecords(conn[c].to_client, out)
       \/ /\ conn[c].thread = "send_response"
          /\ OneMore(conn[c].to_client, out, f)
  <2> DEFINE s == conn[c].to_client
             t == Written(s, f)
  <2>1. SameRecords(s, s)
    BY SameRecordsReflexive
  <2>2. \/ SameRecords(s, t)
        \/ conn[c].thread = "send_response" /\ OneMore(s, t, f)
    BY <1>1, <1>2, AppendedRecords
  <2>3. QED
    BY <1>4, <2>1, <2>2
<1>13. QED
  BY <1>10, <1>11, <1>12

LEMMA StopKeeps ==
  ASSUME IInv, NEW e \in Endpoint, Stop(e) \/ Exit(e) \/ Restart(e)
  PROVE  IInv'
<1>1. AllUnaffected
  <2>1. CASE Stop(e)
    BY <2>1, ThreadEndsAll DEF IInv, Stop
  <2>2. CASE Exit(e)
    BY <2>2, ThreadEndsAll DEF IInv, Exit
  <2>3. CASE Restart(e)
    BY <2>3, UnchangedIsUnaffected DEF IInv, Restart
  <2>4. QED
    BY <2>1, <2>2, <2>3
<1>2. UNCHANGED <<Client, executed>> /\ listening' \in [Endpoint -> BOOLEAN]
  BY DEF Stop, Exit, Restart, IInv, Shape, Client
<1>3. QED
  BY <1>1, <1>2, StepUnaffected

\* The network and the collector of sockets touch nothing else.
LEMMA ResetKeeps ==
  ASSUME IInv, NEW c \in DOMAIN conn, Reset(c) \/ CollectSocket(c)
  PROVE  IInv'
<1>1. conn[c] \in Connection
  BY ConnectionType DEF IInv
<1>2. PICK x \in {[conn[c] EXCEPT !.reset = TRUE], [conn[c] EXCEPT !.client_open = FALSE]} :
        conn' = [conn EXCEPT ![c] = x]
  BY DEF Reset, CollectSocket
<1>3. /\ x \in Connection /\ x.thread = conn[c].thread /\ x.request = conn[c].request
      /\ x.endpoint = conn[c].endpoint
      /\ x.to_server = conn[c].to_server /\ x.to_client = conn[c].to_client
      /\ x.send_seq = conn[c].send_seq /\ x.recv_seq = conn[c].recv_seq
  BY <1>1, <1>2 DEF Connection
<1>4. conn'[c] = x
  BY <1>2, <1>3, OneChanged DEF IInv, Shape
<1>5. Unaffected(c)
  BY <1>3, <1>4, SameRecordsReflexive DEF Unaffected, SameForClient
<1>6. AllUnaffected
  BY <1>2, <1>3, <1>5, OneUnaffected DEF IInv
<1>7. QED
  BY <1>6, StepUnaffected DEF Reset, CollectSocket, IInv, Shape, Client

-----------------------------------------------------------------------------
(* What the steps of the client preserve *)

\* The client has read something, or closed the socket it holds.
LEMMA ClientOnly ==
  ASSUME NEW cs \in Seq(Connection), DOMAIN cs = DOMAIN conn,
         \A d \in DOMAIN conn :
           /\ cs[d].endpoint = conn[d].endpoint /\ cs[d].thread = conn[d].thread
           /\ cs[d].to_server = conn[d].to_server /\ cs[d].request = conn[d].request
           /\ cs[d].to_client.sent = conn[d].to_client.sent
           /\ cs[d].send_seq = conn[d].send_seq /\ cs[d].recv_seq = conn[d].recv_seq,
         conn' \in {cs, SocketClosed(cs)}
  PROVE  AllUnaffected
<1>1. conn' \in Seq(Connection) /\ DOMAIN conn' = DOMAIN conn
  BY SocketClosedShape
<1>2. \A d \in DOMAIN conn :
        /\ conn'[d].endpoint = conn[d].endpoint /\ conn'[d].thread = conn[d].thread
        /\ conn'[d].to_server = conn[d].to_server /\ conn'[d].request = conn[d].request
        /\ conn'[d].to_client.sent = conn[d].to_client.sent
        /\ conn'[d].send_seq = conn[d].send_seq /\ conn'[d].recv_seq = conn[d].recv_seq
  BY SocketClosedShape
<1>3. \A d \in DOMAIN conn : Unaffected(d)
  BY <1>2, SameRecordsReflexive DEF Unaffected, SameForClient
<1>4. QED
  BY <1>1, <1>3 DEF AllUnaffected

LEMMA ClosedUnaffected ==
  ASSUME Shape, conn' \in {conn, SocketClosed(conn)}
  PROVE  AllUnaffected
BY ClientOnly DEF Shape

LEMMA ConsumedUnaffected ==
  ASSUME Shape, NEW c \in DOMAIN conn,
         LET cs == [conn EXCEPT ![c].to_client = Consumed(conn[c].to_client)]
         IN  conn' \in {cs, SocketClosed(cs)}
  PROVE  AllUnaffected
<1> DEFINE in == Consumed(conn[c].to_client)
           x == [conn[c] EXCEPT !.to_client = in]
           cs == [conn EXCEPT ![c] = x]
<1>1. /\ conn[c] \in Connection
      /\ in \in StreamOf(Request) /\ in.sent = conn[c].to_client.sent
  BY ConnectionType, ConsumedStream
<1>2. conn' \in {cs, SocketClosed(cs)}
  OBVIOUS
<1> HIDE DEF in
<1>3. /\ x \in Connection
      /\ x.endpoint = conn[c].endpoint /\ x.thread = conn[c].thread
      /\ x.to_server = conn[c].to_server /\ x.request = conn[c].request
      /\ x.to_client = in
      /\ x.send_seq = conn[c].send_seq /\ x.recv_seq = conn[c].recv_seq
  BY <1>1 DEF Connection
<1> HIDE DEF x
<1>4. /\ cs \in Seq(Connection) /\ DOMAIN cs = DOMAIN conn
      /\ cs[c] = x /\ \A d \in DOMAIN conn : d # c => cs[d] = conn[d]
  BY <1>3 DEF Shape
<1> HIDE DEF cs
<1>5. QED
  BY <1>1, <1>2, <1>3, <1>4, ClientOnly

\* The client has written s to connection c, and may then have closed it.
OnlyWritten(c, s) ==
  /\ conn' \in Seq(Connection) /\ DOMAIN conn' = DOMAIN conn
  /\ conn'[c].to_server = s
  /\ \A d \in DOMAIN conn :
       /\ d # c => conn'[d].to_server = conn[d].to_server
       /\ conn'[d].endpoint = conn[d].endpoint /\ conn'[d].thread = conn[d].thread
       /\ conn'[d].request = conn[d].request /\ conn'[d].to_client = conn[d].to_client
       /\ conn'[d].send_seq = conn[d].send_seq /\ conn'[d].recv_seq = conn[d].recv_seq

LEMMA WrittenConnection ==
  ASSUME Shape, NEW c \in DOMAIN conn, NEW s \in StreamOf(RequestBody),
         LET cs == [conn EXCEPT ![c].to_server = s] IN conn' \in {cs, SocketClosed(cs)}
  PROVE  OnlyWritten(c, s)
<1> DEFINE x == [conn[c] EXCEPT !.to_server = s]
           cs == [conn EXCEPT ![c] = x]
<1>1. conn' \in {cs, SocketClosed(cs)}
  OBVIOUS
<1>2. /\ x \in Connection
      /\ x.endpoint = conn[c].endpoint /\ x.thread = conn[c].thread
      /\ x.to_server = s /\ x.request = conn[c].request
      /\ x.to_client = conn[c].to_client
      /\ x.send_seq = conn[c].send_seq /\ x.recv_seq = conn[c].recv_seq
  BY ConnectionType DEF Connection
<1> HIDE DEF x
<1>3. /\ cs \in Seq(Connection) /\ DOMAIN cs = DOMAIN conn
      /\ cs[c] = x /\ \A d \in DOMAIN conn : d # c => cs[d] = conn[d]
  BY <1>2 DEF Shape
<1> HIDE DEF cs
<1>4. QED
  BY <1>1, <1>2, <1>3, SocketClosedShape DEF OnlyWritten

LEMMA WrittenUnaffected ==
  ASSUME NEW c \in DOMAIN conn, NEW s, OnlyWritten(c, s), SameRecords(conn[c].to_server, s)
  PROVE  AllUnaffected
BY SameRecordsReflexive DEF OnlyWritten, AllUnaffected, Unaffected, SameForClient

\* The client has written s to connection c: one more record, f, that carries
\* the request under way, with the next number.
WritesRequest(c, s, f) ==
  /\ call.phase = "send_request" /\ c = call.sock
  /\ OnlyWritten(c, s)
  /\ OneMore(conn[c].to_server, s, f)
  /\ f.seq = transport.send_seq /\ f.key = c
  /\ f.body.request = call.request /\ f.body.session = c

LEMMA RequestAdded ==
  ASSUME IInv, NEW c, NEW s, NEW f, WritesRequest(c, s, f)
  PROVE  /\ c \in DOMAIN conn /\ c = transport.sock
         /\ \E n \in Nat :
              /\ n \notin Requests(c)
              /\ Requests(c)' = Requests(c) \cup {n}
              /\ Sent(c)'[n] = f
              /\ \A i \in Requests(c) : Sent(c)'[i] = Sent(c)[i]
         /\ \A d \in DOMAIN conn : d # c =>
              Requests(d)' = Requests(d) /\ Sent(d)' = Sent(d)
<1>1. c \in DOMAIN conn /\ c = transport.sock
  BY DEF WritesRequest, IInv, ClientInv, SocketsExist, RightSocket, InSession
<1>2. conn'[c].to_server = s
  BY DEF WritesRequest, OnlyWritten
<1>3. PICK n \in Nat :
        /\ n \notin Records(conn[c].to_server)
        /\ Records(s) = Records(conn[c].to_server) \cup {n}
        /\ s.sent[n] = f
        /\ \A i \in Records(conn[c].to_server) : s.sent[i] = conn[c].to_server.sent[i]
  BY DEF WritesRequest, OneMore
<1>4. \A d \in DOMAIN conn : d # c => conn'[d].to_server = conn[d].to_server
  BY DEF WritesRequest, OnlyWritten
<1>5. /\ Records(conn[c].to_server)' = Records(s)
      /\ \A d \in DOMAIN conn : d # c =>
           Records(conn[d].to_server)' = Records(conn[d].to_server)
  BY <1>2, <1>4 DEF Records
<1>6. QED
  BY <1>1, <1>2, <1>3, <1>4, <1>5 DEF Requests, Sent

\* What a record that carries a new request does to the connections.
LEMMA ConnInvWritten ==
  ASSUME IInv, NEW c, NEW s, NEW f, WritesRequest(c, s, f), UNCHANGED executed
  PROVE  ConnInv'
<1>1. /\ c \in DOMAIN conn /\ c = transport.sock
      /\ \A d \in DOMAIN conn : d # c => Requests(d)' = Requests(d) /\ Sent(d)' = Sent(d)
  BY RequestAdded
<1>2. PICK n \in Nat :
        /\ n \notin Requests(c)
        /\ Requests(c)' = Requests(c) \cup {n}
        /\ Sent(c)'[n] = f
        /\ \A i \in Requests(c) : Sent(c)'[i] = Sent(c)[i]
  BY RequestAdded
<1>3. /\ DOMAIN conn' = DOMAIN conn
      /\ \A d \in DOMAIN conn :
           /\ conn'[d].thread = conn[d].thread /\ conn'[d].request = conn[d].request
           /\ conn'[d].send_seq = conn[d].send_seq /\ conn'[d].recv_seq = conn[d].recv_seq
           /\ Responses(d)' = Responses(d) /\ Answers(d)' = Answers(d)
  BY DEF WritesRequest, OnlyWritten, Responses, Answers, Records
<1>4. \A d \in DOMAIN conn : \A i \in Requests(d) :
        /\ i \in Requests(d)' /\ Sent(d)'[i] = Sent(d)[i]
        /\ Sent(d)[i].body.request # f.body.request
  BY <1>1, <1>2, c = call.sock
  DEF WritesRequest, IInv, ClientInv, WrittenRight
<1>5. \A i \in Requests(c) : Sent(c)[i].seq # f.seq
  <2> SUFFICES ASSUME NEW i \in Requests(c)
               PROVE  Sent(c)[i].seq # f.seq
    OBVIOUS
  <2>1. transport.sock # None /\ transport.send_seq \in Nat
    BY <1>1 DEF IInv, Shape, Transport
  <2>2. Sent(c)[i].seq \in Nat
    BY <1>1, RequestType DEF RecordOf, IInv
  <2>3. Sent(c)[i].seq < transport.send_seq
    BY <1>1, <2>1 DEF IInv, ClientInv, ClientNumbers
  <2>4. QED
    BY <2>1, <2>2, <2>3 DEF WritesRequest
<1>6. WrittenOnce'
  <2> SUFFICES ASSUME NEW a \in DOMAIN conn, NEW b \in DOMAIN conn,
                      NEW i \in Requests(a)', NEW j \in Requests(b)',
                      Sent(a)'[i].body.request = Sent(b)'[j].body.request
               PROVE  a = b /\ i = j
    BY <1>3 DEF WrittenOnce
  <2>1. i \in Requests(a) \/ (a = c /\ i = n)
    BY <1>1, <1>2
  <2>2. j \in Requests(b) \/ (b = c /\ j = n)
    BY <1>1, <1>2
  <2>3. CASE i \in Requests(a) /\ j \in Requests(b)
    BY <1>4, <2>3 DEF IInv, ConnInv, WrittenOnce
  <2>4. QED
    BY <1>2, <1>4, <2>1, <2>2, <2>3
<1>7. RequestNumbers'
  <2> SUFFICES ASSUME NEW d \in DOMAIN conn, NEW i \in Requests(d)', NEW j \in Requests(d)',
                      Sent(d)'[i].seq = Sent(d)'[j].seq
               PROVE  i = j
    BY <1>3 DEF RequestNumbers
  <2>1. CASE d # c
    BY <1>1, <2>1 DEF IInv, ConnInv, RequestNumbers
  <2>2. CASE d = c
    BY <1>1, <1>2, <1>5, <2>2 DEF IInv, ConnInv, RequestNumbers
  <2>3. QED
    BY <2>1, <2>2
<1>8. ThreadNumbers'
  BY <1>3, <1>4 DEF IInv, ConnInv, ThreadNumbers
<1>9. AnswersMatch'
  BY <1>3, <1>4 DEF IInv, ConnInv, AnswersMatch
<1>10. ResponseNumbers'
  BY <1>3 DEF IInv, ConnInv, ResponseNumbers
<1>11. ExecutedAccepted'
  BY <1>3, <1>4 DEF IInv, ConnInv, ExecutedAccepted
<1>12. ThreadExecutes'
  BY <1>3 DEF IInv, ConnInv, ThreadExecutes
<1>13. QED
  BY <1>6, <1>7, <1>8, <1>9, <1>10, <1>11, <1>12 DEF ConnInv


\* The requests written are those of before, and the one under way.
LEMMA WrittenRightAdded ==
  ASSUME IInv, NEW c, NEW s, NEW f, WritesRequest(c, s, f),
         UNCHANGED meant, call'.request = call.request,
         call'.phase \in {"wait_response", "idle"}
  PROVE  WrittenRight'
<1>1. /\ c \in DOMAIN conn /\ c = transport.sock
      /\ \A d \in DOMAIN conn : d # c => Requests(d)' = Requests(d) /\ Sent(d)' = Sent(d)
  BY RequestAdded
<1>2. PICK n \in Nat :
        /\ n \notin Requests(c)
        /\ Requests(c)' = Requests(c) \cup {n}
        /\ Sent(c)'[n] = f
        /\ \A i \in Requests(c) : Sent(c)'[i] = Sent(c)[i]
  BY RequestAdded
<1>3. /\ DOMAIN conn' = DOMAIN conn
      /\ \A d \in DOMAIN conn : conn'[d].endpoint = conn[d].endpoint
  BY DEF WritesRequest, OnlyWritten
<1>4. /\ f.key = c /\ f.body.session = c /\ f.body.request = call.request
      /\ meant[call.request] = conn[c].endpoint
      /\ call.request \in Nat
  BY DEF WritesRequest, IInv, Shape, Call, ClientInv, RightSocket, InSession
<1> SUFFICES ASSUME NEW d \in DOMAIN conn, NEW i \in Requests(d)'
             PROVE  LET g == Sent(d)'[i]
                    IN  /\ g.key = d /\ g.body.session = d
                        /\ meant[g.body.request] = conn[d].endpoint
                        /\ g.body.request <= call.request
  BY <1>3 DEF WrittenRight
<1>5. CASE i \in Requests(d)
  <2>1. Sent(d)'[i] = Sent(d)[i]
    BY <1>1, <1>2, <1>5
  <2>2. QED
    BY <1>5, <2>1 DEF IInv, ClientInv, WrittenRight
<1>6. CASE d = c /\ i = n
  BY <1>2, <1>4, <1>6
<1>7. QED
  BY <1>1, <1>2, <1>5, <1>6

\* A response that has been returned stays the right one.
LEMMA AnsweredRightKept ==
  ASSUME IInv, UNCHANGED executed, DOMAIN conn \subseteq DOMAIN conn',
         \A d \in DOMAIN conn : \A i \in Requests(d) :
           i \in Requests(d)' /\ Sent(d)'[i] = Sent(d)[i],
         \A r \in Request : caller'[r] = caller[r] \/ caller'[r][1] # "answered"
  PROVE  AnsweredRight'
BY DEF IInv, ClientInv, AnsweredRight

LEMMA RequestsStay ==
  ASSUME IInv,
         \/ SameRequests
         \/ \E c : \E s, f : WritesRequest(c, s, f)
  PROVE  /\ DOMAIN conn' = DOMAIN conn
         /\ \A d \in DOMAIN conn :
              /\ conn'[d].endpoint = conn[d].endpoint
              /\ \A i \in Requests(d) : i \in Requests(d)' /\ Sent(d)'[i] = Sent(d)[i]
<1>1. CASE SameRequests
  BY <1>1, RequestsKept DEF SameRequests, SameForClient
<1>2. ASSUME NEW c, NEW s, NEW f, WritesRequest(c, s, f)
      PROVE  /\ DOMAIN conn' = DOMAIN conn
             /\ \A d \in DOMAIN conn :
                  /\ conn'[d].endpoint = conn[d].endpoint
                  /\ \A i \in Requests(d) : i \in Requests(d)' /\ Sent(d)'[i] = Sent(d)[i]
  BY <1>2, RequestAdded DEF WritesRequest, OnlyWritten
<1>3. QED
  BY <1>1, <1>2

\* An exception: whatever the client has written, it has no connection left.
LEMMA FailClient ==
  ASSUME IInv, NEW reason, NEW cs, Fail(reason, cs), call.phase # "idle",
         UNCHANGED <<meant, executed>>,
         \/ SameRequests
         \/ \E c : \E s, f : WritesRequest(c, s, f)
  PROVE  ClientInv'
<1>1. /\ transport.session \in DOMAIN conn \cup {None}
      /\ call \in Call /\ caller \in [Request -> CallerState] /\ transport \in Transport
      /\ call.request \in Request
  BY DEF IInv, Shape, ClientInv, SocketsExist, OneAtATime
<1>2. /\ transport'.sock = None /\ transport'.session = transport.session
      /\ call'.phase = "idle" /\ call'.request = call.request
      /\ caller'[call.request] = <<"failed", reason>>
      /\ \A r \in Request : r # call.request => caller'[r] = caller[r]
  BY <1>1 DEF Fail, Closed, Idle, Transport, Call
<1>3. /\ DOMAIN conn' = DOMAIN conn
      /\ \A d \in DOMAIN conn :
           \A i \in Requests(d) : i \in Requests(d)' /\ Sent(d)'[i] = Sent(d)[i]
  BY RequestsStay
<1>4. SocketsExist' /\ RightSocket' /\ ClientNumbers'
  BY <1>1, <1>2, <1>3
  DEF SocketsExist, RightSocket, ClientNumbers, Connecting, InSession
<1>5. OneAtATime'
  <2>1. caller'[call.request] # <<"idle">>
    <3>1. <<"failed", reason>>[1] # <<"idle">>[1]
      OBVIOUS
    <3>2. QED
      BY <1>2, <3>1
  <2>2. ~(call.request > call.request)
    BY <1>1 DEF Request
  <2>3. QED
    BY <1>2, <2>1, <2>2 DEF OneAtATime, IInv, ClientInv
<1>6. WrittenRight'
  <2>1. CASE SameRequests
    BY <1>2, <1>3, <2>1, RequestsKept DEF SameRequests, SameForClient, IInv, ClientInv, WrittenRight
  <2>2. CASE \E c : \E s, f : WritesRequest(c, s, f)
    BY <1>2, <2>2, WrittenRightAdded
  <2>3. QED
    BY <2>1, <2>2
<1>7. AnsweredRight'
  <2>1. \A r \in Request : caller'[r] = caller[r] \/ caller'[r][1] # "answered"
    BY <1>2
  <2>2. QED
    BY <1>3, <2>1, AnsweredRightKept
<1>8. QED
  BY <1>4, <1>5, <1>6, <1>7 DEF ClientInv

-----------------------------------------------------------------------------
(* The steps of the client *)

\* Facts about the client that most of its steps need.
LEMMA ClientTypes ==
  ASSUME IInv
  PROVE  /\ transport \in Transport /\ call \in Call /\ caller \in [Request -> CallerState]
         /\ transport.sock # None =>
              /\ transport.sock \in DOMAIN conn /\ transport.session = transport.sock
              /\ transport.endpoint = conn[transport.sock].endpoint
         /\ call.phase # "idle" => call.request \in Request
         /\ call.phase \in Connecting \cup InSession => call.sock \in DOMAIN conn
         /\ call.phase \in InSession => call.sock = transport.sock /\ call.session = call.sock
         /\ \A d \in DOMAIN conn : d \in Nat /\ d # None
BY DEF IInv, Shape, ClientInv, SocketsExist, RightSocket, OneAtATime, Connecting, InSession

LEMMA FailShape ==
  ASSUME IInv, call.phase # "idle",
         NEW reason \in {"refused", "send", "overflow", "handshake", "receive", "protection"},
         NEW cs, Fail(reason, cs), conn' \in Seq(Connection),
         UNCHANGED <<meant, listening, executed>>
  PROVE  Shape'
<1>1. call' \in Call /\ transport' \in Transport
  BY ClientTypes DEF Fail, Idle, Closed, Call, Transport, ClientPhase, Socket
<1>2. caller' \in [Request -> CallerState]
  BY ClientTypes DEF Fail, CallerState
<1>3. QED
  BY <1>1, <1>2 DEF IInv, Shape

LEMMA FailKeeps ==
  ASSUME IInv, call.phase # "idle",
         NEW reason \in {"refused", "send", "overflow", "handshake", "receive", "protection"},
         NEW cs, Fail(reason, cs), AllUnaffected,
         UNCHANGED <<meant, listening, executed>>
  PROVE  IInv'
<1>1. Shape'
  BY FailShape DEF AllUnaffected
<1>2. NumbersFit'
  BY ClientTypes DEF IInv, NumbersFit, AllUnaffected, Unaffected, Fail, Closed, Transport
<1>3. ClientInv'
  BY AllUnaffectedKeeps, FailClient
<1>4. ConnInv'
  BY ConnInvUnaffected DEF IInv
<1>5. QED
  BY <1>1, <1>2, <1>3, <1>4 DEF IInv

LEMMA FailPlainKeeps ==
  ASSUME IInv, ClientOverflows \/ ClientRefuses \/ ClientReceiveFails
  PROVE  IInv'
<1>1. PICK reason \in {"overflow", "handshake", "receive"} : Fail(reason, conn)
  BY DEF ClientOverflows, ClientRefuses, ClientReceiveFails
<1>2. call.phase # "idle" /\ UNCHANGED <<meant, listening, executed>>
  BY DEF ClientOverflows, ClientRefuses, ClientReceiveFails
<1>3. AllUnaffected
  BY <1>1, ClosedUnaffected DEF Fail, IInv
<1>4. QED
  BY <1>1, <1>2, <1>3, FailKeeps

LEMMA CloseKeeps ==
  ASSUME IInv, Close
  PROVE  IInv'
<1>1. AllUnaffected
  BY ClosedUnaffected DEF Close, IInv
<1>2. /\ transport' \in Transport /\ transport'.sock = None
      /\ transport'.session = transport.session
      /\ transport'.send_seq = transport.send_seq /\ transport'.recv_seq = transport.recv_seq
  BY ClientTypes DEF Close, Closed, Transport, Socket
<1>3. SameRequests /\ DOMAIN conn' = DOMAIN conn
  BY <1>1, AllUnaffectedKeeps DEF AllUnaffected
<1>4. Shape'
  BY <1>1, <1>2 DEF IInv, Shape, AllUnaffected, Close
<1>5. NumbersFit'
  BY <1>1, <1>2 DEF IInv, NumbersFit, AllUnaffected, Unaffected
<1>6. SocketsExist' /\ RightSocket' /\ OneAtATime' /\ ClientNumbers'
  BY <1>2, <1>3
  DEF Close, IInv, ClientInv, SocketsExist, RightSocket, OneAtATime, ClientNumbers,
      Connecting, InSession
<1>7. WrittenRight'
  BY <1>3, RequestsKept DEF Close, IInv, ClientInv, WrittenRight, SameRequests, SameForClient
<1>8. AnsweredRight'
  BY <1>3, RequestsStay, AnsweredRightKept DEF Close
<1>9. ConnInv'
  BY <1>1, ConnInvUnaffected DEF IInv, Close
<1>10. QED
  BY <1>4, <1>5, <1>6, <1>7, <1>8, <1>9 DEF IInv, ClientInv

\* A new request: on the connection there is, or for one to be made.
LEMMA NewRequestKeeps ==
  ASSUME IInv, NEW e \in Endpoint, Reuse(e) \/ \E keep \in BOOLEAN : Connect(e, keep)
  PROVE  IInv'
<1> DEFINE r == call.request + 1
<1>1. /\ call.phase = "idle" /\ call.request \in Nat /\ r \in Request
      /\ r > call.request /\ r \in Nat
      /\ caller' = [caller EXCEPT ![r] = <<"waiting">>]
      /\ meant' = [meant EXCEPT ![r] = e]
      /\ UNCHANGED <<listening, executed>>
  <2>1. call.phase = "idle" /\ call.request < MaxRequests
    BY DEF Reuse, Connect
  <2>2. call.request \in Nat /\ MaxRequests \in Nat
    BY ClientTypes DEF Call
  <2>3. r \in Request /\ r > call.request /\ r \in Nat
    BY <2>1, <2>2 DEF Request
  <2>4. QED
    BY <2>1, <2>2, <2>3 DEF Reuse, Connect
<1>2. AllUnaffected
  BY ClosedUnaffected DEF Reuse, Connect, IInv
<1>3. /\ \/ /\ transport' = transport /\ call'.phase = "send_request" /\ transport.sock # None
            /\ call'.sock = transport.sock /\ call'.session = transport.session
            /\ transport.endpoint = e
         \/ /\ transport'.sock = None /\ transport'.session = transport.session
            /\ transport'.send_seq = transport.send_seq
            /\ transport'.recv_seq = transport.recv_seq
            /\ call'.phase = "dial"
      /\ call'.request = r /\ call' \in Call /\ transport' \in Transport
  <2>1. CASE Reuse(e)
    <3>1. /\ transport' = transport /\ transport.sock # None /\ transport.endpoint = e
          /\ call' = [call EXCEPT !.phase = "send_request", !.request = r, !.keep_alive = TRUE,
                                  !.sock = transport.sock, !.session = transport.session]
      BY <2>1 DEF Reuse, MatchesEndpoint, HeaderSession
    <3>2. transport.sock \in Socket /\ transport.session \in Socket /\ r \in 0..MaxRequests
      BY <1>1, ClientTypes DEF Transport, Request
    <3>3. QED
      BY <3>1, <3>2, ClientTypes DEF Call, ClientPhase, InSession
  <2>2. ASSUME NEW keep \in BOOLEAN, Connect(e, keep)
        PROVE  /\ transport'.sock = None /\ transport'.session = transport.session
               /\ transport'.send_seq = transport.send_seq
               /\ transport'.recv_seq = transport.recv_seq
               /\ call'.phase = "dial"
               /\ call'.request = r /\ call' \in Call /\ transport' \in Transport
    <3>1. /\ transport' = Closed(transport)
          /\ call' = [call EXCEPT !.phase = "dial", !.request = r, !.keep_alive = keep,
                                  !.session = transport.session]
      BY <2>2 DEF Connect
    <3>2. transport.session \in Socket /\ r \in 0..MaxRequests
      BY <1>1, ClientTypes DEF Transport, Request
    <3>3. QED
      BY <3>1, <3>2, ClientTypes DEF Call, ClientPhase, Closed, Transport, Socket
  <2>3. QED
    BY <2>1, <2>2
<1>4. call'.request = r /\ call' \in Call /\ transport' \in Transport
  BY <1>3
<1>5. caller' \in [Request -> CallerState] /\ meant' \in [Request -> Endpoint \cup {None}]
  BY <1>1 DEF IInv, Shape, CallerState
<1>6. SameRequests /\ DOMAIN conn' = DOMAIN conn
  BY <1>2, AllUnaffectedKeeps DEF AllUnaffected
<1>7. \A d \in DOMAIN conn : conn'[d].endpoint = conn[d].endpoint
  BY <1>6 DEF SameRequests, SameForClient
<1>8. /\ meant'[r] = e /\ caller'[r] = <<"waiting">>
      /\ \A q \in Request : q # r => meant'[q] = meant[q] /\ caller'[q] = caller[q]
  BY <1>1 DEF IInv, Shape
<1> HIDE DEF r
<1>9. Shape'
  BY <1>1, <1>2, <1>4, <1>5 DEF IInv, Shape, AllUnaffected
<1>10. NumbersFit'
  BY <1>2, <1>3 DEF IInv, NumbersFit, AllUnaffected, Unaffected
<1>11. SocketsExist'
  BY <1>1, <1>3, <1>6, ClientTypes DEF IInv, ClientInv, SocketsExist
<1>12. RightSocket'
  BY <1>1, <1>3, <1>4, <1>6, <1>7, <1>8, ClientTypes DEF RightSocket, Connecting, InSession
<1>13. OneAtATime'
  <2>1. \A q \in Request : q > r <=> (q # r /\ q > call.request)
    BY <1>1 DEF r, Request
  <2>2. <<"waiting">> # <<"idle">>
    OBVIOUS
  <2>3. \A q \in Request : caller'[q] = <<"idle">> <=> q > r
    BY <1>1, <1>8, <2>1, <2>2 DEF IInv, ClientInv, OneAtATime
  <2>4. QED
    BY <1>1, <1>3, <1>4, <1>8, <2>3 DEF OneAtATime
<1>14. WrittenRight'
  <2> SUFFICES ASSUME NEW d \in DOMAIN conn, NEW i \in Requests(d)
               PROVE  LET f == Sent(d)[i]
                      IN  /\ f.key = d /\ f.body.session = d
                          /\ meant'[f.body.request] = conn[d].endpoint
                          /\ f.body.request <= r
                          /\ f.body.request # r
    BY <1>4, <1>6, <1>7, RequestsKept DEF WrittenRight
  <2>1. Sent(d)[i].body.request \in Request
    BY RequestType DEF IInv, RecordOf, RequestBody
  <2>2. Sent(d)[i].body.request <= call.request
    BY DEF IInv, ClientInv, WrittenRight
  <2>3. Sent(d)[i].body.request <= r /\ Sent(d)[i].body.request # r
    BY <1>1, <2>1, <2>2 DEF r, Request
  <2>4. QED
    BY <1>8, <2>1, <2>3 DEF IInv, ClientInv, WrittenRight
<1>15. ClientNumbers'
  <2>1. CASE transport'.sock = None /\ call'.phase = "dial"
    BY <2>1 DEF ClientNumbers, Connecting
  <2>2. CASE transport' = transport /\ call'.phase = "send_request" /\ transport.sock # None
    BY <1>1, <1>6, <2>2, RequestsKept, ClientTypes
    DEF IInv, ClientInv, ClientNumbers, Connecting
  <2>3. QED
    BY <1>3, <2>1, <2>2
<1>16. AnsweredRight'
  <2>1. <<"waiting">>[1] # "answered"
    OBVIOUS
  <2>2. \A q \in Request : caller'[q] = caller[q] \/ caller'[q][1] # "answered"
    BY <1>8, <2>1
  <2>3. QED
    BY <1>1, <1>6, <2>2, RequestsStay, AnsweredRightKept
<1>17. ConnInv'
  BY <1>1, <1>2, ConnInvUnaffected DEF IInv
<1>18. QED
  BY <1>9, <1>10, <1>11, <1>12, <1>13, <1>14, <1>15, <1>16, <1>17 DEF IInv, ClientInv

\* A step of the handshake that the client takes on its own.
LEMMA PhaseKeeps ==
  ASSUME IInv, call.phase \in Connecting, NEW next \in Connecting,
         call' = [call EXCEPT !.phase = next], AllUnaffected,
         UNCHANGED <<transport, caller, meant, listening, executed>>
  PROVE  IInv'
<1>1. /\ call' \in Call /\ call'.phase = next /\ call'.request = call.request
      /\ call'.sock = call.sock
  BY ClientTypes DEF Call, ClientPhase
<1>2. /\ next \notin {"idle", "dial", "wait_response"} /\ next \notin InSession
      /\ call.phase \notin {"idle", "dial", "wait_response"} /\ call.phase \notin InSession
  BY DEF Connecting, InSession
<1>3. SameRequests /\ DOMAIN conn' = DOMAIN conn
  BY AllUnaffectedKeeps DEF AllUnaffected
<1>4. \A d \in DOMAIN conn : conn'[d].endpoint = conn[d].endpoint
  BY <1>3 DEF SameRequests, SameForClient
<1>5. Shape'
  BY <1>1 DEF IInv, Shape, AllUnaffected
<1>6. NumbersFit'
  BY DEF IInv, NumbersFit, AllUnaffected, Unaffected
<1>7. SocketsExist' /\ OneAtATime'
  BY <1>1, <1>2, <1>3 DEF IInv, ClientInv, SocketsExist, OneAtATime
<1>8. RightSocket'
  BY <1>1, <1>2, <1>3, <1>4, ClientTypes DEF IInv, ClientInv, RightSocket
<1>9. WrittenRight'
  <2> SUFFICES ASSUME NEW d \in DOMAIN conn, NEW i \in Requests(d)
               PROVE  LET f == Sent(d)[i]
                      IN  /\ f.key = d /\ f.body.session = d
                          /\ meant[f.body.request] = conn[d].endpoint
                          /\ f.body.request <= call.request
                          /\ f.body.request # call.request
    BY <1>1, <1>3, <1>4, RequestsKept DEF WrittenRight
  <2>1. QED
    BY <1>2 DEF IInv, ClientInv, WrittenRight
<1>10. ClientNumbers'
  <2>1. transport.sock = None
    BY DEF IInv, ClientInv, RightSocket
  <2>2. Requests(call.sock)' = {}
    BY <1>1, <1>3, RequestsKept, ClientTypes DEF IInv, ClientInv, ClientNumbers
  <2>3. QED
    BY <1>1, <1>2, <2>1, <2>2 DEF ClientNumbers
<1>11. AnsweredRight'
  BY <1>3, RequestsStay, AnsweredRightKept
<1>12. ConnInv'
  BY ConnInvUnaffected DEF IInv
<1>13. QED
  BY <1>5, <1>6, <1>7, <1>8, <1>9, <1>10, <1>11, <1>12 DEF IInv, ClientInv

LEMMA ClientHandshakesKeeps ==
  ASSUME IInv, ClientHandshakes
  PROVE  IInv'
<1>1. /\ call.phase \in Connecting
      /\ \E next \in Connecting : call' = [call EXCEPT !.phase = next]
  BY DEF ClientHandshakes, Connecting
<1>2. conn' = [conn EXCEPT ![call.sock].to_client = Consumed(conn[call.sock].to_client)]
  BY DEF ClientHandshakes
<1>3. AllUnaffected
  BY <1>1, <1>2, ConsumedUnaffected, ClientTypes DEF IInv
<1>4. QED
  BY <1>1, <1>3, PhaseKeeps DEF ClientHandshakes

\* A new connection: nothing has been written to it.
LEMMA DialKeeps ==
  ASSUME IInv, Dial
  PROVE  IInv'
<1> DEFINE e == meant[call.request]
           k == NewConnection(e)
<1>1. CASE ~listening[e]
  <2>1. Fail("refused", conn) /\ call.phase # "idle" /\ UNCHANGED <<meant, listening, executed>>
    BY <1>1 DEF Dial
  <2>2. AllUnaffected
    BY <2>1, ClosedUnaffected DEF Fail, IInv
  <2>3. QED
    BY <2>1, <2>2, FailKeeps
<1>2. CASE listening[e]
  <2>0. PICK n \in Nat : n = Len(conn) + 1
    BY DEF IInv, Shape
  <2>1. /\ call.phase = "dial"
        /\ conn' = Append(conn, k)
        /\ call' = [call EXCEPT !.phase = "send_hello", !.sock = n]
        /\ UNCHANGED <<transport, caller, meant, listening, executed>>
    BY <1>2, <2>0 DEF Dial
  <2>2. call.request \in Request
    BY <2>1, ClientTypes
  <2>3. e \in Endpoint
    BY <2>1 DEF IInv, ClientInv, OneAtATime
  <2>4. /\ k \in Connection /\ k.endpoint = e /\ k.thread = "backlog"
        /\ Records(k.to_server) = {} /\ Records(k.to_client) = {}
        /\ k.send_seq = 0 /\ k.recv_seq = 0
    <3>1. \A B : Stream \in StreamOf(B)
      BY EmptySeq DEF Stream, StreamOf
    <3>2. Records(Stream) = {}
      BY DEF Records, Stream
    <3>3. QED
      BY <2>3, <3>1, <3>2 DEF NewConnection, Connection, ThreadPhase
  <2> HIDE DEF e, k
  <2>5. /\ conn' \in Seq(Connection) /\ n # None
        /\ DOMAIN conn' = DOMAIN conn \cup {n} /\ n \notin DOMAIN conn
        /\ conn'[n] = k
        /\ \A d \in DOMAIN conn : conn'[d] = conn[d]
    BY <2>0, <2>1, <2>4 DEF IInv, Shape
  <2>6. /\ call' \in Call /\ call'.phase = "send_hello" /\ call'.sock = n
        /\ call'.request = call.request
    BY <2>1, <2>5, ClientTypes DEF Call, ClientPhase, Connecting, Socket
  <2>7. transport.sock = None
    BY <2>1 DEF IInv, ClientInv, RightSocket
  <2>8. /\ Requests(n)' = {} /\ Responses(n)' = {}
        /\ \A d \in DOMAIN conn :
             /\ Requests(d)' = Requests(d) /\ Sent(d)' = Sent(d)
             /\ Responses(d)' = Responses(d) /\ Answers(d)' = Answers(d)
    BY <2>4, <2>5 DEF Requests, Responses, Sent, Answers, Records
  <2>9. Shape'
    BY <2>1, <2>5, <2>6 DEF IInv, Shape
  <2>10. NumbersFit'
    BY <2>1, <2>4, <2>5 DEF IInv, NumbersFit
  <2>11. SocketsExist' /\ OneAtATime'
    BY <2>1, <2>5, <2>6 DEF IInv, ClientInv, SocketsExist, OneAtATime
  <2>12. RightSocket'
    BY <2>1, <2>4, <2>5, <2>6, <2>7 DEF RightSocket, Connecting, InSession, e
  <2>13. WrittenRight'
    <3>1. \A d \in DOMAIN conn : \A i \in Requests(d) :
            Sent(d)[i].body.request # call.request
      BY <2>1 DEF IInv, ClientInv, WrittenRight
    <3>2. QED
      BY <2>1, <2>5, <2>6, <2>8, <3>1 DEF IInv, ClientInv, WrittenRight
  <2>14. ClientNumbers'
    BY <2>1, <2>6, <2>7, <2>8 DEF ClientNumbers
  <2>15. AnsweredRight'
    BY <2>1, <2>5, <2>8, AnsweredRightKept
  <2>16. ConnInv'
    <3>1. WrittenOnce' /\ RequestNumbers' /\ ResponseNumbers'
      BY <2>5, <2>8
      DEF IInv, ConnInv, WrittenOnce, RequestNumbers, ResponseNumbers
    <3>2. ThreadNumbers' /\ ThreadExecutes'
      BY <2>1, <2>4, <2>5, <2>8 DEF IInv, ConnInv, ThreadNumbers, ThreadExecutes
    <3>3. AnswersMatch' /\ ExecutedAccepted'
      BY <2>1, <2>5, <2>8 DEF IInv, ConnInv, AnswersMatch, ExecutedAccepted
    <3>4. QED
      BY <3>1, <3>2, <3>3 DEF ConnInv
  <2>17. QED
    BY <2>9, <2>10, <2>11, <2>12, <2>13, <2>14, <2>15, <2>16 DEF IInv, ClientInv
<1>3. QED
  BY <1>1, <1>2

\* What the client sends.
LEMMA ClientFrameType ==
  ASSUME IInv, call.phase \in ClientSending,
         call.phase = "send_request" => SequenceFits(transport.send_seq)
  PROVE  LET f == ClientFrame
         IN  /\ f \in Handshake \cup RecordOf(RequestBody)
             /\ call.phase # "send_request" => f.type # "record"
             /\ call.phase = "send_request" =>
                  /\ f.type = "record" /\ f.seq = transport.send_seq
                  /\ f.key = call.sock /\ f.body.request = call.request
                  /\ f.body.session = call.sock
<1> DEFINE f == ClientFrame
<1>1. CASE call.phase # "send_request"
  <2>1. PICK type \in {"ClientHello", "ClientKeyExchange", "ClientFinished"} : f = Message(type)
    BY <1>1 DEF ClientFrame, ClientSending
  <2>2. Message(type) \in Handshake /\ Message(type).type # "record"
    BY MessageFrame
  <2>3. QED
    BY <1>1, <2>1, <2>2
<1>2. CASE call.phase = "send_request"
  <2> DEFINE key == transport.session
             seq == transport.send_seq
             body == [request |-> call.request, session |-> call.session,
                      close |-> ~call.keep_alive]
  <2>1. f = Record(key, seq, body)
    BY <1>2 DEF ClientFrame
  <2>2. call.sock \in Nat /\ call.session = call.sock /\ key = call.sock
    BY <1>2, ClientTypes DEF InSession
  <2>3. /\ body \in RequestBody /\ body.request = call.request /\ body.session = call.sock
        /\ key \in Nat /\ seq \in Nat /\ SequenceFits(seq)
    BY <1>2, <2>2, ClientTypes DEF RequestBody, Transport, Call
  <2> HIDE DEF f, key, seq, body
  <2>4. ASSUME key \in Nat, body \in RequestBody, seq \in Nat, SequenceFits(seq),
               f = Record(key, seq, body)
        PROVE  /\ f \in RecordOf(RequestBody) /\ f.type = "record"
               /\ f.seq = seq /\ f.key = key /\ f.body = body
    BY <2>4, RecordFrame
  <2>5. QED
    BY <1>2, <2>1, <2>2, <2>3, <2>4 DEF f, seq
<1>3. QED
  BY <1>1, <1>2

\* The connections after a frame of the client was written, whole or not.
LEMMA ClientWrites ==
  ASSUME IInv, call.phase \in ClientSending,
         call.phase = "send_request" => SequenceFits(transport.send_seq),
         NEW g \in {ClientFrame, CutShort(ClientFrame)},
         NEW s \in {Mine.to_server, Written(Mine.to_server, g)},
         LET cs == [conn EXCEPT ![call.sock].to_server = s]
         IN  conn' \in {cs, SocketClosed(cs)}
  PROVE  /\ OnlyWritten(call.sock, s)
         /\ \/ AllUnaffected
            \/ WritesRequest(call.sock, s, g)
         /\ (s = Written(Mine.to_server, g) /\ call.phase = "send_request")
              => WritesRequest(call.sock, s, g)
<1> DEFINE c == call.sock
           t == conn[c].to_server
<1>1. c \in DOMAIN conn
  BY ClientTypes DEF ClientSending, Connecting, InSession
<1>2. /\ g \in Handshake \cup RecordOf(RequestBody)
      /\ call.phase # "send_request" => g.type # "record"
      /\ call.phase = "send_request" =>
           /\ g.type = "record" /\ g.seq = transport.send_seq
           /\ g.key = c /\ g.body.request = call.request /\ g.body.session = c
  BY ClientFrameType, CutFrame
<1>3. t \in StreamOf(RequestBody) /\ s \in {t, Written(t, g)}
  BY <1>1, ConnectionType DEF IInv, Mine
<1>4. s \in StreamOf(RequestBody)
  BY <1>2, <1>3, WrittenStream
<1>5. OnlyWritten(c, s)
  BY <1>1, <1>4, WrittenConnection DEF IInv
<1>6. CASE s = t
  <2>1. SameRecords(t, s)
    BY <1>6, SameRecordsReflexive
  <2>2. AllUnaffected
    BY <1>1, <1>5, <2>1, WrittenUnaffected
  <2>3. t # Written(t, g)
    <3>1. Written(t, g).sent = Append(t.sent, g)
      BY <1>2, <1>3, WrittenStream
    <3>2. Append(t.sent, g) # t.sent
      <4>1. t.sent \in Seq(Handshake \cup RecordOf(RequestBody))
        BY <1>3 DEF StreamOf
      <4>2. Len(Append(t.sent, g)) = Len(t.sent) + 1 /\ Len(t.sent) \in Nat
        BY <1>2, <4>1
      <4>3. QED
        BY <4>2
    <3>3. QED
      BY <3>1, <3>2
  <2>4. QED
    BY <1>5, <1>6, <2>2, <2>3 DEF Mine
<1>7. CASE s = Written(t, g) /\ call.phase # "send_request"
  <2>1. SameRecords(t, Written(t, g))
    BY <1>2, <1>3, <1>7, AppendedRecords
  <2>2. AllUnaffected
    BY <1>1, <1>5, <1>7, <2>1, WrittenUnaffected
  <2>3. QED
    BY <1>5, <1>7, <2>2
<1>8. CASE s = Written(t, g) /\ call.phase = "send_request"
  <2>1. OneMore(t, Written(t, g), g)
    BY <1>2, <1>3, <1>8, AppendedRecords
  <2>2. WritesRequest(c, s, g)
    BY <1>2, <1>5, <1>8, <2>1 DEF WritesRequest
  <2>3. QED
    BY <1>5, <2>2
<1>9. QED
  BY <1>3, <1>6, <1>7, <1>8

LEMMA ClientSendFailsKeeps ==
  ASSUME IInv, ClientSendFails
  PROVE  IInv'
<1>1. /\ call.phase \in ClientSending /\ call.phase # "idle"
      /\ call.phase = "send_request" => SequenceFits(transport.send_seq)
      /\ UNCHANGED <<meant, listening, executed>>
  BY PhaseSets DEF ClientSendFails, ClientSending
<1>2. PICK s \in Attempts(Mine.to_server, ClientFrame) :
        Fail("send", [conn EXCEPT ![call.sock].to_server = s])
  BY DEF ClientSendFails
<1> DEFINE cs == [conn EXCEPT ![call.sock].to_server = s]
           g == CutShort(ClientFrame)
<1>3. s \in {Mine.to_server, Written(Mine.to_server, g)} /\ conn' = SocketClosed(cs)
  BY <1>2 DEF Attempts, Fail
<1>4. /\ OnlyWritten(call.sock, s)
      /\ AllUnaffected \/ WritesRequest(call.sock, s, g)
  BY <1>1, <1>3, ClientWrites
<1> HIDE DEF g
<1>5. CASE AllUnaffected
  BY <1>1, <1>2, <1>5, FailKeeps
<1>6. CASE WritesRequest(call.sock, s, g)
  <2>1. Shape'
    BY <1>1, <1>2, <1>4, FailShape DEF OnlyWritten
  <2>2. NumbersFit'
    BY <1>2, <1>4, ClientTypes DEF IInv, NumbersFit, OnlyWritten, Fail, Closed, Transport
  <2>3. ClientInv'
    BY <1>1, <1>2, <1>6, FailClient
  <2>4. ConnInv'
    BY <1>1, <1>6, ConnInvWritten
  <2>5. QED
    BY <2>1, <2>2, <2>3, <2>4 DEF IInv
<1>7. QED
  BY <1>4, <1>5, <1>6

\* The request is written, with the number that follows.
LEMMA RequestSentKeeps ==
  ASSUME IInv, call.phase = "send_request", ClientSend
  PROVE  IInv'
<1> DEFINE f == ClientFrame
           s == Written(Mine.to_server, f)
<1>1. /\ SequenceFits(transport.send_seq)
      /\ conn' = [conn EXCEPT ![call.sock].to_server = s]
      /\ transport' = [transport EXCEPT !.send_seq = transport.send_seq + 1]
      /\ UNCHANGED <<caller, meant, listening, executed>>
      /\ call' = [call EXCEPT !.phase = "wait_response", !.session = call.session]
  BY DEF ClientSend, ClientSends, Mine
<1>2. WritesRequest(call.sock, s, f)
  BY <1>1, ClientWrites DEF ClientSending
<1> HIDE DEF f, s
<1>3. /\ call' \in Call /\ call'.phase = "wait_response" /\ call'.request = call.request
      /\ call'.sock = call.sock /\ call'.session = call.session
      /\ transport' \in Transport /\ transport'.sock = transport.sock
      /\ transport'.session = transport.session /\ transport'.endpoint = transport.endpoint
      /\ transport'.recv_seq = transport.recv_seq
      /\ transport'.send_seq = transport.send_seq + 1
  <2>1. /\ call \in Call /\ transport \in Transport
        /\ transport.send_seq + 1 \in Nat
    BY ClientTypes DEF Transport
  <2>2. /\ call' \in Call /\ call'.phase = "wait_response" /\ call'.request = call.request
        /\ call'.sock = call.sock /\ call'.session = call.session
    BY <1>1, <2>1 DEF Call, ClientPhase, InSession
  <2>3. QED
    BY <1>1, <2>1, <2>2 DEF Transport
<1>4. /\ call.sock \in DOMAIN conn /\ call.sock = transport.sock /\ transport.sock # None
      /\ call.session = call.sock
      /\ transport.send_seq = transport.recv_seq
      /\ transport.send_seq \in Nat /\ transport.send_seq < SeqLimit
  <2>1. /\ call.sock \in DOMAIN conn /\ call.sock = transport.sock /\ transport.sock # None
        /\ call.session = call.sock /\ transport.send_seq \in Nat
    BY ClientTypes DEF InSession, Transport
  <2>2. transport.send_seq = transport.recv_seq
    BY <2>1 DEF IInv, ClientInv, ClientNumbers
  <2>3. QED
    BY <1>1, <2>1, <2>2 DEF SequenceFits
<1>5. PICK c \in DOMAIN conn : c = call.sock
  BY <1>4
<1>6. WritesRequest(c, s, f)
  BY <1>2, <1>5
<1>7. PICK n \in Nat :
        /\ n \notin Requests(c)
        /\ Requests(c)' = Requests(c) \cup {n}
        /\ Sent(c)'[n] = f
        /\ \A i \in Requests(c) : Sent(c)'[i] = Sent(c)[i]
  BY <1>6, RequestAdded
<1>8. /\ conn' \in Seq(Connection) /\ DOMAIN conn' = DOMAIN conn
      /\ \A d \in DOMAIN conn :
           /\ conn'[d].endpoint = conn[d].endpoint
           /\ conn'[d].send_seq = conn[d].send_seq /\ conn'[d].recv_seq = conn[d].recv_seq
      /\ f.seq = transport.send_seq /\ f.body.request = call.request
  BY <1>6 DEF WritesRequest, OnlyWritten
<1>9. Shape'
  BY <1>1, <1>3, <1>8 DEF IInv, Shape
<1>10. NumbersFit'
  BY <1>3, <1>4, <1>8 DEF IInv, NumbersFit
<1>11. SocketsExist' /\ OneAtATime'
  BY <1>1, <1>3, <1>4, <1>8 DEF IInv, ClientInv, SocketsExist, OneAtATime
<1>12. RightSocket'
  BY <1>1, <1>3, <1>4, <1>8, ClientTypes
  DEF IInv, ClientInv, RightSocket, Connecting, InSession
<1>13. WrittenRight'
  BY <1>1, <1>3, <1>6, WrittenRightAdded
<1>14. ClientNumbers'
  <2>1. \A i \in Requests(c) : Sent(c)[i].seq \in Nat /\ Sent(c)[i].seq < transport.send_seq
    BY <1>4, <1>5, RequestType DEF IInv, ClientInv, ClientNumbers, RecordOf
  <2>2. \A i \in Requests(c)' : Sent(c)'[i].seq < transport.send_seq + 1
    BY <1>4, <1>7, <1>8, <2>1
  <2>3. \E i \in Requests(c)' :
          Sent(c)'[i].seq = transport.recv_seq /\ Sent(c)'[i].body.request = call.request
    BY <1>4, <1>7, <1>8
  <2>4. transport'.sock = c /\ call'.phase = "wait_response" /\ call'.request = call.request
    BY <1>3, <1>4, <1>5
  <2>5. QED
    BY <1>3, <1>4, <2>2, <2>3, <2>4 DEF ClientNumbers, Connecting
<1>15. AnsweredRight'
  BY <1>1, <1>6, RequestsStay, AnsweredRightKept
<1>16. ConnInv'
  BY <1>1, <1>6, ConnInvWritten
<1>17. QED
  BY <1>9, <1>10, <1>11, <1>12, <1>13, <1>14, <1>15, <1>16 DEF IInv, ClientInv

\* The end of the handshake: connect() leaves the connection in the transport,
\* with numbers from zero, and nothing has been written under its key.
LEMMA ConnectedKeeps ==
  ASSUME IInv, call.phase = "send_finished", ClientSend
  PROVE  IInv'
<1> DEFINE s == Written(Mine.to_server, ClientFrame)
<1>1. PICK c \in DOMAIN conn : c = call.sock
  BY ClientTypes DEF Connecting
<1>2. /\ conn' = [conn EXCEPT ![call.sock].to_server = s]
      /\ transport' = Established
      /\ UNCHANGED <<caller, meant, listening, executed>>
      /\ call' = [call EXCEPT !.phase = "send_request",
                              !.session = HeaderSession([session |-> call.session], Established)]
  BY DEF ClientSend, ClientSends, Mine
<1>3. OnlyWritten(call.sock, s) /\ AllUnaffected
  <2>1. /\ OnlyWritten(call.sock, s)
        /\ AllUnaffected \/ WritesRequest(call.sock, s, ClientFrame)
    BY <1>2, ClientWrites DEF ClientSending
  <2>2. QED
    BY <2>1 DEF WritesRequest
<1> HIDE DEF s
<1>4. /\ transport' \in Transport /\ transport'.sock = c /\ transport'.session = c
      /\ transport'.endpoint = conn[c].endpoint
      /\ transport'.send_seq = 0 /\ transport'.recv_seq = 0
  <2>1. /\ transport \in Transport /\ c \in Socket /\ conn[c].endpoint \in Endpoint
    BY ClientTypes, ConnectionType DEF Socket, Connection, IInv
  <2>2. transport' = [[transport EXCEPT !.send_seq = 0, !.recv_seq = 0]
                        EXCEPT !.sock = c, !.session = c, !.endpoint = conn[c].endpoint]
    BY <1>1, <1>2 DEF Established, RecordLayerNew, Mine
  <2>3. QED
    BY <2>1, <2>2 DEF Transport
<1>5. /\ call' \in Call /\ call'.phase = "send_request" /\ call'.request = call.request
      /\ call'.sock = c /\ call'.session = c
  <2>1. call \in Call /\ c \in Socket
    BY ClientTypes DEF Socket
  <2>2. call' = [call EXCEPT !.phase = "send_request", !.session = c]
    BY <1>2, <1>4 DEF HeaderSession
  <2>3. QED
    BY <1>1, <2>1, <2>2 DEF Call, ClientPhase, InSession
<1>6. SameRequests /\ DOMAIN conn' = DOMAIN conn
  BY <1>3, AllUnaffectedKeeps DEF AllUnaffected
<1>7. \A d \in DOMAIN conn : conn'[d].endpoint = conn[d].endpoint
  BY <1>6 DEF SameRequests, SameForClient
<1>8. /\ conn[c].endpoint = meant[call.request] /\ Requests(c) = {}
      /\ c \in Nat /\ c # None
  BY <1>1, ClientTypes DEF IInv, ClientInv, RightSocket, ClientNumbers, Connecting
<1>9. Shape'
  BY <1>2, <1>3, <1>4, <1>5 DEF IInv, Shape, AllUnaffected
<1>10. NumbersFit'
  BY <1>3, <1>4 DEF IInv, NumbersFit, AllUnaffected, Unaffected
<1>11. SocketsExist' /\ OneAtATime'
  BY <1>2, <1>4, <1>5, <1>6 DEF IInv, ClientInv, SocketsExist, OneAtATime
<1>12. RightSocket'
  BY <1>2, <1>4, <1>5, <1>7, <1>8 DEF RightSocket, Connecting, InSession
<1>13. WrittenRight'
  <2> SUFFICES ASSUME NEW d \in DOMAIN conn, NEW i \in Requests(d)
               PROVE  LET f == Sent(d)[i]
                      IN  /\ f.key = d /\ f.body.session = d
                          /\ meant[f.body.request] = conn[d].endpoint
                          /\ f.body.request <= call.request
                          /\ f.body.request # call.request
    BY <1>2, <1>5, <1>6, <1>7, RequestsKept DEF WrittenRight
  <2>1. QED
    BY DEF IInv, ClientInv, WrittenRight
<1>14. ClientNumbers'
  <2>1. Requests(c)' = {}
    BY <1>6, <1>8, RequestsKept
  <2>2. QED
    BY <1>4, <1>5, <2>1 DEF ClientNumbers, Connecting
<1>15. AnsweredRight'
  BY <1>2, <1>6, RequestsStay, AnsweredRightKept
<1>16. ConnInv'
  BY <1>2, <1>3, ConnInvUnaffected DEF IInv
<1>17. QED
  BY <1>9, <1>10, <1>11, <1>12, <1>13, <1>14, <1>15, <1>16 DEF IInv, ClientInv

LEMMA ClientSendKeeps ==
  ASSUME IInv, ClientSend
  PROVE  IInv'
<1>1. call.phase \in ClientSending
  BY PhaseSets DEF ClientSend
<1>2. CASE call.phase \in {"send_hello", "send_cke"}
  <2> DEFINE s == Written(Mine.to_server, ClientFrame)
  <2>1. /\ call.phase \in Connecting
        /\ ClientSends[call.phase] \in Connecting
    BY <1>2 DEF Connecting, ClientSends
  <2>2. /\ conn' = [conn EXCEPT ![call.sock].to_server = s]
        /\ UNCHANGED <<transport, caller, meant, listening, executed>>
        /\ call' = [call EXCEPT !.phase = ClientSends[call.phase], !.session = call.session]
    BY <1>2 DEF ClientSend, Mine
  <2>3. call' = [call EXCEPT !.phase = ClientSends[call.phase]]
    BY <2>2, ClientTypes DEF Call
  <2>4. AllUnaffected \/ WritesRequest(call.sock, s, ClientFrame)
    BY <1>1, <1>2, <2>2, ClientWrites
  <2>5. AllUnaffected
    BY <1>2, <2>4 DEF WritesRequest
  <2>6. QED
    BY <2>1, <2>2, <2>3, <2>5, PhaseKeeps
<1>3. QED
  BY <1>1, <1>2, ConnectedKeeps, RequestSentKeeps DEF ClientSending

\* The answer the client takes is the one with the number of its last request,
\* and so the answer to the request under way.
LEMMA AcceptedAnswer ==
  ASSUME IInv, call.phase = "wait_response", Readable(Mine.to_client),
         Accepted(NextFrame(Mine.to_client), transport.session, transport.recv_seq)
  PROVE  /\ NextFrame(Mine.to_client).body = call.request
         /\ executed[call.request] = 1
         /\ call.sock \in DOMAIN conn /\ transport.session = call.sock
         /\ \E i \in Requests(call.sock) : Sent(call.sock)[i].body.request = call.request
         /\ transport.recv_seq + 1 <= SeqLimit
<1> DEFINE c == call.sock
           s == conn[c].to_client
           k == s.read + 1
           frame == NextFrame(s)
<1>1. /\ c \in DOMAIN conn /\ c = transport.sock /\ transport.session = c
      /\ transport.recv_seq \in Nat
  BY ClientTypes DEF InSession, Transport
<1>2. s \in StreamOf(Request)
  BY <1>1, ConnectionType DEF IInv
<1>3. /\ k \in DOMAIN s.sent
      /\ frame = s.sent[k]
  BY <1>2 DEF Readable, Pending, NextFrame, StreamOf, Mine
<1>4. k \in Responses(c) /\ frame = Answers(c)[k]
  BY <1>3 DEF Accepted, Responses, Records, Answers, Mine
<1>5. frame.seq = transport.recv_seq
  BY DEF Accepted, Mine
<1>6. frame \in RecordOf(Request)
  BY <1>1, <1>4, ResponseType DEF IInv
<1> HIDE DEF frame, k, s
<1>7. executed[frame.body] = 1
  BY <1>1, <1>4 DEF IInv, ConnInv, AnswersMatch
<1>8. PICK j \in Requests(c) : Sent(c)[j].seq = frame.seq /\ Sent(c)[j].body.request = frame.body
  BY <1>1, <1>4 DEF IInv, ConnInv, AnswersMatch
<1>9. PICK i \in Requests(c) :
        Sent(c)[i].seq = transport.recv_seq /\ Sent(c)[i].body.request = call.request
  BY <1>1 DEF IInv, ClientInv, ClientNumbers
<1>10. i = j
  BY <1>1, <1>5, <1>8, <1>9 DEF IInv, ConnInv, RequestNumbers
<1>11. transport.recv_seq + 1 <= SeqLimit
  BY <1>1, <1>5, <1>6 DEF RecordOf
<1>12. QED
  BY <1>1, <1>7, <1>8, <1>9, <1>10, <1>11 DEF frame, s, Mine

LEMMA AnswerTakenKeeps ==
  ASSUME IInv, ClientReceives,
         Accepted(NextFrame(Mine.to_client), transport.session, transport.recv_seq)
  PROVE  IInv'
<1> DEFINE r == call.request
           c == call.sock
           in == Consumed(conn[c].to_client)
           cs == [conn EXCEPT ![c].to_client = in]
<1>1. /\ call.phase = "wait_response"
      /\ caller' = [caller EXCEPT ![r] = <<"answered", NextFrame(Mine.to_client).body, transport.session>>]
      /\ call' = Idle(call)
      /\ UNCHANGED <<meant, listening, executed>>
      /\ \/ transport' = [transport EXCEPT !.recv_seq = transport.recv_seq + 1] /\ conn' = cs
         \/ transport' = Closed(transport) /\ conn' = SocketClosed(cs)
  BY DEF ClientReceives, Mine
<1>2. /\ NextFrame(Mine.to_client).body = r /\ executed[r] = 1
      /\ c \in DOMAIN conn /\ transport.session = c /\ transport.sock = c /\ c \in Nat
      /\ r \in Request
      /\ transport.recv_seq + 1 <= SeqLimit
  BY <1>1, AcceptedAnswer, ClientTypes DEF ClientReceives, InSession
<1>3. /\ caller' = [caller EXCEPT ![r] = <<"answered", r, c>>]
      /\ \E i \in Requests(c) : Sent(c)[i].body.request = r
  BY <1>1, <1>2, AcceptedAnswer DEF ClientReceives
<1>4. AllUnaffected
  BY <1>1, <1>2, ConsumedUnaffected DEF IInv
<1> HIDE DEF cs
<1>5. /\ call' \in Call /\ call'.phase = "idle" /\ call'.request = r
  BY <1>1, ClientTypes DEF Idle, Call, ClientPhase, Socket
<1>6. /\ transport' \in Transport /\ transport'.session = c
      /\ transport'.send_seq = transport.send_seq
      /\ \/ transport'.sock = None /\ transport'.recv_seq = transport.recv_seq
         \/ /\ transport'.sock = c /\ transport'.endpoint = transport.endpoint
            /\ transport'.recv_seq = transport.recv_seq + 1
  <2>1. transport \in Transport /\ transport.recv_seq + 1 \in Nat
    BY ClientTypes DEF Transport
  <2>2. CASE transport' = [transport EXCEPT !.recv_seq = transport.recv_seq + 1]
    BY <1>2, <2>1, <2>2 DEF Transport
  <2>3. CASE transport' = Closed(transport)
    BY <1>2, <2>1, <2>3 DEF Transport, Closed, Socket
  <2>4. QED
    BY <1>1, <2>2, <2>3
<1>7. /\ caller' \in [Request -> CallerState]
      /\ caller'[r] = <<"answered", r, c>>
      /\ \A q \in Request : q # r => caller'[q] = caller[q]
  <2>1. <<"answered", r, c>> \in CallerState
    BY <1>2 DEF CallerState
  <2>2. QED
    BY <1>2, <1>3, <2>1, ClientTypes
<1>8. SameRequests /\ DOMAIN conn' = DOMAIN conn
  BY <1>4, AllUnaffectedKeeps DEF AllUnaffected
<1>9. \A d \in DOMAIN conn :
        /\ conn'[d].endpoint = conn[d].endpoint
        /\ Requests(d)' = Requests(d)
        /\ \A i \in Requests(d) : Sent(d)'[i] = Sent(d)[i]
  BY <1>8, RequestsKept DEF SameRequests, SameForClient
<1>10. PICK b \in DOMAIN conn : b = c
  BY <1>2
<1>11. Shape'
  BY <1>1, <1>4, <1>5, <1>6, <1>7 DEF IInv, Shape, AllUnaffected
<1>12. NumbersFit'
  BY <1>2, <1>4, <1>6 DEF IInv, NumbersFit, AllUnaffected, Unaffected
<1>13. SocketsExist'
  BY <1>2, <1>5, <1>6, <1>8 DEF SocketsExist
<1>14. OneAtATime'
  <2>1. <<"answered", r, c>>[1] # <<"idle">>[1]
    OBVIOUS
  <2>2. caller'[r] # <<"idle">> /\ ~(r > r)
    BY <1>2, <1>7, <2>1 DEF Request
  <2>3. QED
    BY <1>5, <1>7, <2>2 DEF IInv, ClientInv, OneAtATime
<1>15. RightSocket'
  BY <1>2, <1>5, <1>6, <1>9, ClientTypes DEF RightSocket, Connecting, InSession
<1>16. WrittenRight'
  BY <1>1, <1>5, <1>8, <1>9 DEF IInv, ClientInv, WrittenRight
<1>17. ClientNumbers'
  <2>1. transport.send_seq = transport.recv_seq + 1
    BY <1>1 DEF IInv, ClientInv, ClientNumbers
  <2>2. \A i \in Requests(b) : Sent(b)[i].seq < transport.send_seq
    BY <1>2, <1>10, ClientTypes DEF IInv, ClientInv, ClientNumbers
  <2>3. QED
    BY <1>5, <1>6, <1>9, <1>10, <2>1, <2>2 DEF ClientNumbers, Connecting
<1>18. AnsweredRight'
  <2>1. ASSUME NEW q \in Request, NEW d, d = caller'[q][3], caller'[q][1] = "answered"
        PROVE  /\ caller'[q][2] = q /\ executed[q] = 1 /\ d \in DOMAIN conn
               /\ \E i \in Requests(d)' : Sent(d)'[i].body.request = q
    <3>1. /\ caller'[q][2] = q /\ executed[q] = 1 /\ d \in DOMAIN conn
          /\ \E i \in Requests(d) : Sent(d)[i].body.request = q
      <4>1. CASE q = r
        BY <1>2, <1>3, <1>7, <2>1, <4>1
      <4>2. CASE q # r
        BY <1>7, <2>1, <4>2 DEF IInv, ClientInv, AnsweredRight
      <4>3. QED
        BY <4>1, <4>2
    <3>2. QED
      BY <1>9, <3>1
  <2>2. QED
    BY <1>1, <1>8, <2>1 DEF AnsweredRight, Requests, Sent
<1>19. ConnInv'
  BY <1>1, <1>4, ConnInvUnaffected DEF IInv
<1>20. QED
  BY <1>11, <1>12, <1>13, <1>14, <1>15, <1>16, <1>17, <1>18, <1>19 DEF IInv, ClientInv

LEMMA ClientReceivesKeeps ==
  ASSUME IInv, ClientReceives
  PROVE  IInv'
<1>1. CASE Accepted(NextFrame(Mine.to_client), transport.session, transport.recv_seq)
  BY <1>1, AnswerTakenKeeps
<1>2. CASE ~Accepted(NextFrame(Mine.to_client), transport.session, transport.recv_seq)
  <2>1. /\ Fail("protection", conn) /\ call.phase # "idle"
        /\ UNCHANGED <<meant, listening, executed>>
    BY <1>2 DEF ClientReceives
  <2>2. AllUnaffected
    BY <2>1, ClosedUnaffected DEF Fail, IInv
  <2>3. QED
    BY <2>1, <2>2, FailKeeps
<1>3. QED
  BY <1>1, <1>2


-----------------------------------------------------------------------------
(* The invariant *)

LEMMA IInvInit == Init => IInv
<1> SUFFICES ASSUME Init PROVE IInv
  OBVIOUS
<1>1. /\ conn = <<>> /\ DOMAIN conn = {} /\ conn \in Seq(Connection)
      /\ transport.sock = None /\ transport.session = None
      /\ transport.send_seq = 0 /\ transport.recv_seq = 0
      /\ call.phase = "idle" /\ call.request = 0
      /\ \A r \in Request : caller[r] = <<"idle">> /\ executed[r] = 0
  BY DEF Init, TransportInit
<1>2. Shape
  <2>1. transport \in Transport /\ call \in Call
    BY DEF Init, TransportInit, Transport, Call, ClientPhase, Socket
  <2>2. caller \in [Request -> CallerState] /\ executed \in [Request -> Nat]
    BY DEF Init, CallerState
  <2>3. QED
    BY <1>1, <2>1, <2>2 DEF Init, Shape
<1>3. NumbersFit
  BY <1>1 DEF NumbersFit
<1>4. ClientInv
  <2>1. \A r \in Request : caller[r][1] # "answered" /\ r > call.request
    BY <1>1 DEF Request
  <2>2. QED
    BY <1>1, <2>1 DEF ClientInv, SocketsExist, RightSocket, OneAtATime, WrittenRight,
                      ClientNumbers, AnsweredRight, Connecting, InSession
<1>5. ConnInv
  BY <1>1 DEF ConnInv, WrittenOnce, RequestNumbers, ThreadNumbers, AnswersMatch,
              ResponseNumbers, ExecutedAccepted, ThreadExecutes
<1>6. QED
  BY <1>2, <1>3, <1>4, <1>5 DEF IInv

LEMMA ThreadStepKeeps ==
  ASSUME IInv, NEW c \in DOMAIN conn, ThreadSteps(c)
  PROVE  IInv'
BY AcceptKeeps, ServerHandshakesKeeps, ServerRefusesKeeps, ServerSendKeeps,
   ServerSendFailsKeeps, ServerReceivesRequestKeeps, ExecuteKeeps, ExecuteRaisesKeeps,
   ServerReceiveFailsKeeps
DEF ThreadSteps

LEMMA ClientStepKeeps ==
  ASSUME IInv, ClientSteps
  PROVE  IInv'
BY DialKeeps, ClientSendKeeps, ClientSendFailsKeeps, FailPlainKeeps,
   ClientHandshakesKeeps, ClientReceivesKeeps
DEF ClientSteps

LEMMA StutterKeeps ==
  ASSUME IInv, UNCHANGED vars
  PROVE  IInv'
BY UnchangedIsUnaffected, StepUnaffected DEF vars, Client, IInv, Shape

LEMMA IInvStep == IInv /\ [Next]_vars => IInv'
<1> SUFFICES ASSUME IInv, [Next]_vars PROVE IInv'
  OBVIOUS
<1>1. ASSUME NEW e \in Endpoint, Reuse(e) \/ \E keep \in BOOLEAN : Connect(e, keep)
      PROVE  IInv'
  BY <1>1, NewRequestKeeps
<1>2. CASE ClientSteps
  BY <1>2, ClientStepKeeps
<1>3. CASE Close
  BY <1>3, CloseKeeps
<1>4. ASSUME NEW c \in DOMAIN conn, CollectSocket(c) \/ ThreadSteps(c) \/ Reset(c)
      PROVE  IInv'
  BY <1>4, ResetKeeps, ThreadStepKeeps
<1>5. ASSUME NEW e \in Endpoint, Stop(e) \/ Exit(e) \/ Restart(e)
      PROVE  IInv'
  BY <1>5, StopKeeps
<1>6. CASE UNCHANGED vars
  BY <1>6, StutterKeeps
<1>7. QED
  BY <1>1, <1>2, <1>3, <1>4, <1>5, <1>6 DEF Next

LEMMA IInvAlways == Spec => []IInv
BY IInvInit, IInvStep, PTL DEF Spec

-----------------------------------------------------------------------------
(* What follows from it *)

\* The variables of client, transport, record layers and threads stay within
\* their types, and no sequence number goes beyond what a record header holds
\* (client.py, tcp_transport.py, record_layer.py).
THEOREM TypesHold == Spec => []TypeOK
<1>1. IInv => TypeOK
  <2> SUFFICES ASSUME IInv PROVE TypeOK
    OBVIOUS
  <2>1. /\ call.phase \in ClientPhase /\ call.request \in 0..MaxRequests
        /\ call.keep_alive \in BOOLEAN
        /\ transport.endpoint \in Endpoint \cup {None}
        /\ transport.send_seq \in Nat /\ transport.recv_seq \in Nat
    BY DEF IInv, Shape, Call, Transport
  <2>2. DOMAIN ClientSends = {"send_hello", "send_cke", "send_finished", "send_request"}
    BY DEF ClientSends
  <2>3. call.phase \in {"idle", "dial", "wait_sh", "wait_sf", "wait_response"}
                         \cup DOMAIN ClientSends
    BY <2>1, <2>2 DEF ClientPhase, Connecting, InSession
  <2>4. /\ transport.sock \in DOMAIN conn \cup {None}
        /\ transport.session \in DOMAIN conn \cup {None}
        /\ call.phase \notin {"idle", "dial"} => call.sock \in DOMAIN conn
    BY DEF IInv, ClientInv, SocketsExist
  <2>5. transport.send_seq \in 0..SeqLimit /\ transport.recv_seq \in 0..SeqLimit
    BY <2>1 DEF IInv, NumbersFit
  <2>6. ASSUME NEW c \in DOMAIN conn
        PROVE  /\ conn[c].thread \in {"backlog", "await_request", "run", "closed"}
                    \cup DOMAIN ServerReceives \cup DOMAIN ServerSends(c)
               /\ {conn[c].send_seq, conn[c].recv_seq} \subseteq 0..SeqLimit
    <3>1. conn[c] \in Connection
      BY ConnectionType DEF IInv
    <3>2. /\ DOMAIN ServerReceives = {"await_hello", "await_cke", "await_finished"}
          /\ DOMAIN ServerSends(c) = {"send_sh", "send_sf", "send_response"}
      BY DEF ServerReceives, ServerSends
    <3>3. conn[c].thread \in ThreadPhase /\ conn[c].send_seq \in Nat /\ conn[c].recv_seq \in Nat
      BY <3>1 DEF Connection
    <3>4. conn[c].send_seq <= SeqLimit /\ conn[c].recv_seq <= SeqLimit
      BY DEF IInv, NumbersFit
    <3>5. QED
      BY <3>2, <3>3, <3>4 DEF ThreadPhase, ServerReading, ServerSending
  <2>7. /\ listening \in [Endpoint -> BOOLEAN] /\ executed \in [Request -> Nat]
        /\ meant \in [Request -> Endpoint \cup {None}]
    BY DEF IInv, Shape
  <2>8. QED
    BY <2>1, <2>3, <2>4, <2>5, <2>6, <2>7 DEF TypeOK
<1>2. QED
  BY <1>1, IInvAlways, PTL

\* No two different plaintexts are ever protected under one key with one nonce,
\* whatever part of a record a sender that raised has written (record_layer.py
\* send_record, client.py request).
THEOREM NoncesUnique == Spec => []NonceUnique
<1>1. IInv => NonceUnique
  BY DEF IInv, ConnInv, RequestNumbers, ResponseNumbers, NonceUnique, Requests, Responses,
         Sent, Answers
<1>2. QED
  BY <1>1, IInvAlways, PTL

\* A request is written only to a connection of the server it was made to, with
\* a binding proof for that connection's session, and a response is returned
\* with the session the request was sent in (tcp_transport.py matches_endpoint,
\* close, request_over_transport).
THEOREM ConnectionsRight == Spec => []RightConnection
<1>1. IInv => RightConnection
  BY DEF IInv, ClientInv, WrittenRight, AnsweredRight, RightConnection, Requests, Sent
<1>2. QED
  BY <1>1, IInvAlways, PTL

-----------------------------------------------------------------------------
(* TcpTransport implements RequestExchange.                                 *)

LEMMA ExchangeInit == Init => Exchange!Init
BY DEF Init, Exchange!Init

LEMMA CallerStep ==
  ASSUME IInv, ClientSteps
  PROVE  \/ UNCHANGED <<caller, executed>>
         \/ /\ call.phase # "idle" /\ UNCHANGED executed
            /\ \E reason : caller' = [caller EXCEPT ![call.request] = <<"failed", reason>>]
         \/ /\ call.phase # "idle" /\ UNCHANGED executed /\ executed[call.request] = 1
            /\ caller' = [caller EXCEPT ![call.request] =
                            <<"answered", call.request, transport.session>>]
<1>1. CASE Dial
  BY <1>1 DEF Dial, Fail
<1>2. CASE ClientSend \/ ClientHandshakes
  BY <1>2 DEF ClientSend, ClientHandshakes
<1>3. CASE ClientSendFails
  <2>1. DOMAIN ClientSends = {"send_hello", "send_cke", "send_finished", "send_request"}
    BY DEF ClientSends
  <2>2. QED
    BY <1>3, <2>1 DEF ClientSendFails, Fail
<1>4. CASE ClientOverflows \/ ClientRefuses \/ ClientReceiveFails
  BY <1>4 DEF ClientOverflows, ClientRefuses, ClientReceiveFails, Fail
<1>5. CASE ClientReceives
  <2>1. CASE Accepted(NextFrame(Mine.to_client), transport.session, transport.recv_seq)
    BY <1>5, <2>1, AcceptedAnswer DEF ClientReceives
  <2>2. CASE ~Accepted(NextFrame(Mine.to_client), transport.session, transport.recv_seq)
    BY <1>5, <2>2 DEF ClientReceives, Fail
  <2>3. QED
    BY <2>1, <2>2
<1>6. QED
  BY <1>1, <1>2, <1>3, <1>4, <1>5 DEF ClientSteps

LEMMA RunStep ==
  ASSUME IInv, NEW c \in DOMAIN conn, ThreadSteps(c)
  PROVE  \/ UNCHANGED <<caller, executed>>
         \/ /\ Thread(c, "run") /\ Ran(c) /\ UNCHANGED caller
BY DEF ThreadSteps, Accept, ServerHandshakes, ServerRefuses, ServerSend, ServerSendFails,
       ServerReceivesRequest, Execute, ExecuteRaises, ServerReceiveFails, Client

LEMMA ExchangeStep ==
  ASSUME IInv, [Next]_vars
  PROVE  [Exchange!Next]_Exchange!vars
<1> DEFINE seen == [r \in Request |-> CASE caller[r][1] = "answered" -> <<"answered", caller[r][2]>>
                                        [] caller[r][1] = "failed" -> <<"failed">>
                                        [] OTHER -> caller[r]]
<1>1. /\ caller \in [Request -> CallerState] /\ executed \in [Request -> Nat]
      /\ \A r \in Request : caller[r] = <<"waiting">> => seen[r] = <<"waiting">>
      /\ \A r \in Request : caller[r] = <<"idle">> => seen[r] = <<"idle">>
      /\ call.phase # "idle" => call.request \in Request /\ seen[call.request] = <<"waiting">>
  BY DEF IInv, Shape, ClientInv, OneAtATime
<1>2. CASE UNCHANGED <<caller, executed>>
  BY <1>2 DEF Exchange!vars
<1>3. ASSUME NEW e \in Endpoint, Reuse(e) \/ \E keep \in BOOLEAN : Connect(e, keep)
      PROVE  Exchange!Next
  <2> DEFINE next == call.request + 1
  <2>1. /\ caller' = [caller EXCEPT ![next] = <<"waiting">>] /\ UNCHANGED executed
        /\ call.request < MaxRequests
    BY <1>3 DEF Reuse, Connect
  <2>2. PICK r \in Request : r = next /\ r > call.request
    BY <2>1, ClientTypes DEF Call, Request
  <2>3. caller[r] = <<"idle">>
    BY <2>2 DEF IInv, ClientInv, OneAtATime
  <2>4. seen' = [seen EXCEPT ![r] = <<"waiting">>]
    BY <1>1, <2>1, <2>2
  <2>5. Exchange!Send(r)
    BY <1>1, <2>1, <2>2, <2>3, <2>4 DEF Exchange!Send
  <2>6. QED
    BY <2>2, <2>5 DEF Exchange!Next
<1>4. ASSUME NEW reason, NEW r \in Request, r = call.request, call.phase # "idle",
             caller' = [caller EXCEPT ![r] = <<"failed", reason>>], UNCHANGED executed
      PROVE  Exchange!Next
  <2>1. seen' = [seen EXCEPT ![r] = <<"failed">>]
    BY <1>1, <1>4
  <2>2. Exchange!Fail(r)
    BY <1>1, <1>4, <2>1 DEF Exchange!Fail
  <2>3. QED
    BY <1>1, <1>4, <2>2 DEF Exchange!Next
<1>5. ASSUME NEW r \in Request, r = call.request, call.phase # "idle", executed[r] = 1,
             caller' = [caller EXCEPT ![r] = <<"answered", r, transport.session>>],
             UNCHANGED executed
      PROVE  Exchange!Next
  <2>1. seen' = [seen EXCEPT ![r] = <<"answered", r>>]
    BY <1>1, <1>5
  <2>2. Exchange!Respond(r)
    BY <1>1, <1>5, <2>1 DEF Exchange!Respond
  <2>3. QED
    BY <1>1, <1>5, <2>2 DEF Exchange!Next
<1>6. ASSUME NEW c \in DOMAIN conn, Thread(c, "run"), Ran(c), UNCHANGED caller
      PROVE  Exchange!Next
  <2>1. PICK r \in Request : r = conn[c].request.request
    BY <1>6, RunningRequest DEF Thread, RequestBody
  <2>2. executed[r] = 0
    BY <1>6, <2>1 DEF Thread, IInv, ConnInv, ThreadExecutes
  <2>3. r <= call.request
    BY <1>6, <2>1 DEF Thread, IInv, ConnInv, ClientInv, ThreadNumbers, WrittenRight
  <2>4. caller[r] # <<"idle">>
    BY <2>1, <2>3, ClientTypes DEF IInv, ClientInv, OneAtATime, Call, Request
  <2>5. caller[r][1] # "answered"
    BY <2>1, <2>2 DEF IInv, ClientInv, AnsweredRight
  <2>6. caller[r] \in CallerState
    BY <1>1, <2>1
  <2>7. seen[r] \in {<<"waiting">>, <<"failed">>}
    BY <2>1, <2>4, <2>5, <2>6 DEF CallerState
  <2>8. executed' = [executed EXCEPT ![r] = 1]
    BY <1>6, <2>1, <2>2 DEF Ran
  <2>9. Exchange!Execute(r)
    BY <1>6, <2>2, <2>7, <2>8 DEF Exchange!Execute
  <2>10. QED
    BY <2>1, <2>9 DEF Exchange!Next
<1>7. CASE \/ Close
           \/ \E c \in DOMAIN conn : CollectSocket(c) \/ Reset(c)
           \/ \E e \in Endpoint : Stop(e) \/ Exit(e) \/ Restart(e)
           \/ UNCHANGED vars
  <2>1. UNCHANGED <<caller, executed>>
    BY <1>7 DEF Close, CollectSocket, Reset, Stop, Exit, Restart, Client, vars
  <2>2. QED
    BY <1>2, <2>1
<1>8. CASE ClientSteps
  <2>1. CASE call.phase # "idle"
    <3>1. PICK r \in Request : r = call.request
      BY <1>1, <2>1
    <3>2. QED
      BY <1>2, <1>4, <1>5, <1>8, <2>1, <3>1, CallerStep
  <2>2. QED
    BY <1>2, <1>8, <2>1, CallerStep
<1>9. ASSUME NEW c \in DOMAIN conn, ThreadSteps(c)
      PROVE  [Exchange!Next]_Exchange!vars
  BY <1>2, <1>6, <1>9, RunStep
<1>10. QED
  BY <1>3, <1>7, <1>8, <1>9 DEF Next

\* A request runs at most once and is answered with its own response, over kept
\* connections, new ones and restarts of the server (client.py request,
\* tcp_transport.py handle_application_session).
THEOREM ExchangeImplemented == Spec => ImplementsExchange
<1>1. Init => Exchange!Init
  BY ExchangeInit
<1>2. IInv /\ [Next]_vars => [Exchange!Next]_Exchange!vars
  BY ExchangeStep
<1>3. QED
  BY <1>1, <1>2, IInvAlways, PTL DEF Spec, ImplementsExchange, Exchange!Spec
=============================================================================
