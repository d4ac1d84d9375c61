---------------------------- MODULE TcpTransport ----------------------------
(***************************************************************************)
(* Requests over the TCP transport: one KEMTLSClient with its              *)
(* KEMTLSTCPClientTransport, the KEMTLSTCPServer processes it talks to,    *)
(* one thread per accepted connection, and the record layer of both ends.  *)
(*                                                                         *)
(* A connection is two byte streams, here sequences of frames, whole or    *)
(* cut short.  A stream keeps its order and loses nothing until the        *)
(* connection is reset; data written before a close is still read.         *)
(***************************************************************************)
EXTENDS Naturals, Sequences

CONSTANTS Endpoint,        \* the (host, port) pairs of the servers
          None,            \* no socket, no session, no endpoint
          MaxRequests,     \* requests the client makes
          SeqLimit,        \* 2^64: sequence numbers a record header can hold
          MaxConnections,  \* bounds for model checking: connections made,
          MaxFaults        \*   resets, failed sends, exceptions, stops

ASSUME TcpAssumption ==
  /\ {MaxRequests, MaxConnections, MaxFaults} \subseteq Nat
  /\ SeqLimit \in Nat \ {0}

\* Sockets and sessions are numbers here.
ASSUME NoneAssumption == None \notin Nat

Request == 1..MaxRequests

VARIABLES transport,  \* KEMTLSTCPClientTransport
          call,       \* the call of KEMTLSClient.request under way
          caller,     \* caller[r]: what request r has come to
          meant,      \* history: the endpoint request r was made to
          conn,       \* the connections ever made, both ends
          listening,  \* listening[e]: the server at e accepts connections
          faults,     \* faults so far
          executed    \* history: how often the application has run r

vars == <<transport, call, caller, meant, conn, listening, faults, executed>>

\* A handshake message, 4 bytes of length before it; seq and key unused.
Message(type) == [type |-> type, seq |-> 0, key |-> None, body |-> None, whole |-> TRUE]

\* send_record refuses the numbers from 2^64 on.
SequenceFits(seq) == seq < SeqLimit

\* seq(8) | length(4) | ciphertext under the sender's key; the nonce is seq.
Record(key, seq, body) ==
  [type |-> "record", seq |-> seq % SeqLimit, key |-> key, body |-> body, whole |-> TRUE]

\* recv_record: the number expected next, and an authentic ciphertext.
Accepted(frame, key, recv_seq) ==
  frame.type = "record" /\ frame.seq = recv_seq /\ frame.key = key

Stream == [sent |-> <<>>, read |-> 0]
CutShort(frame) == [frame EXCEPT !.whole = FALSE]
Written(s, frame) == [s EXCEPT !.sent = Append(@, frame)]
Consumed(s) == [s EXCEPT !.read = @ + 1]
Pending(s) == Len(s.sent) - s.read
NextFrame(s) == s.sent[s.read + 1]
Readable(s) == Pending(s) > 0 /\ NextFrame(s).whole

\* Mutant: an empty recv() is taken for data still to come.
ReadFailsOnReset(c, s, writer_open) == c.reset

\* _read_n_bytes raises: a reset, the end of the stream, also in the middle of
\* a frame, or bytes that are no frame since something was written after a cut.
ReadFails(c, s, writer_open) ==
  \/ c.reset
  \/ ~Readable(s) /\ ~writer_open
  \/ ~Readable(s) /\ Pending(s) > 1

\* What sendall may have written of a frame when it raises.
Attempts(s, frame) == {s, Written(s, CutShort(frame))}
-----------------------------------------------------------------------------
(* Client.  `call.phase` is what the one thread does next; `call.sock` is   *)
(* connect()'s socket, which becomes the transport's when all went well.   *)

TransportInit == [sock |-> None, session |-> None, endpoint |-> None,
                  send_seq |-> 0, recv_seq |-> 0]

\* close(): the session stays.
Closed(t) == [t EXCEPT !.sock = None, !.endpoint = None]

MatchesEndpoint(t, e) == t.sock # None /\ t.endpoint = e

\* Mutant: header_mutator runs before connect().
HeaderSessionBefore(before, after) == before.session

\* The session header_mutator signs for, given the transport before and
\* after connect().
HeaderSession(before, after) == after.session

Idle(c) == [c EXCEPT !.phase = "idle", !.sock = None]

\* The socket the transport holds is closed, the one connect() holds is not.
SocketClosed(cs) ==
  [c \in DOMAIN cs |-> IF c = transport.sock THEN [cs[c] EXCEPT !.client_open = FALSE]
                                             ELSE cs[c]]

\* request() on a connection that matches_endpoint() says is there.
Reuse(e) ==
  /\ call.phase = "idle" /\ call.request < MaxRequests
  /\ MatchesEndpoint(transport, e)
  /\ LET r == call.request + 1
     IN  /\ call' = [call EXCEPT !.phase = "send_request", !.request = r, !.keep_alive = TRUE,
                                 !.sock = transport.sock,
                                 !.session = HeaderSession(transport, transport)]
         /\ caller' = [caller EXCEPT ![r] = <<"waiting">>]
         /\ meant' = [meant EXCEPT ![r] = e]
  /\ UNCHANGED <<transport, conn, listening, faults, executed>>

NewConnection(e) ==
  [endpoint |-> e, client_open |-> TRUE, reset |-> FALSE, thread |-> "backlog",
   to_server |-> Stream, to_client |-> Stream, send_seq |-> 0, recv_seq |-> 0,
   request |-> None]

\* request() otherwise: close(), then connect().
Connect(e, keep) ==
  /\ call.phase = "idle" /\ call.request < MaxRequests
  /\ ~(keep /\ MatchesEndpoint(transport, e))
  /\ Len(conn) < MaxConnections
  /\ LET r == call.request + 1
     IN  /\ call' = [call EXCEPT !.phase = "dial", !.request = r, !.keep_alive = keep,
                                 !.session = transport.session]
         /\ caller' = [caller EXCEPT ![r] = <<"waiting">>]
         /\ meant' = [meant EXCEPT ![r] = e]
  /\ transport' = Closed(transport)
  /\ conn' = SocketClosed(conn)
  /\ UNCHANGED <<listening, faults, executed>>

\* Mutant: an exception leaves a connection that is kept open.
FailLeavingOpen(reason, cs) ==
  /\ caller' = [caller EXCEPT ![call.request] = <<"failed", reason>>]
  /\ call' = Idle(call)
  /\ transport' = IF call.keep_alive THEN transport ELSE Closed(transport)
  /\ conn' = IF call.keep_alive THEN cs ELSE SocketClosed(cs)

\* Mutant: request() tries again by itself.
FailAndRetry(reason, cs) ==
  /\ call' = [call EXCEPT !.phase = "dial", !.sock = None]
  /\ transport' = Closed(transport)
  /\ conn' = SocketClosed(cs)
  /\ UNCHANGED caller

\* An exception anywhere below request() with the connections cs left behind:
\* it closes the transport and raises.
Fail(reason, cs) ==
  /\ caller' = [caller EXCEPT ![call.request] = <<"failed", reason>>]
  /\ call' = Idle(call)
  /\ transport' = Closed(transport)
  /\ conn' = SocketClosed(cs)

\* sock.connect(): the kernel of a listening server answers.
Dial ==
  /\ call.phase = "dial"
  /\ LET e == meant[call.request]
     IN  IF listening[e]
           THEN /\ conn' = Append(conn, NewConnection(e))
                /\ call' = [call EXCEPT !.phase = "send_hello", !.sock = Len(conn) + 1]
                /\ UNCHANGED <<transport, caller>>
           ELSE Fail("refused", conn)
  /\ UNCHANGED <<meant, listening, faults, executed>>

Mine == conn[call.sock]

\* The frame the client sends in each phase that sends one, and the next phase.
ClientFrame ==
  CASE call.phase = "send_hello"    -> Message("ClientHello")
    [] call.phase = "send_cke"      -> Message("ClientKeyExchange")
    [] call.phase = "send_finished" -> Message("ClientFinished")
    [] call.phase = "send_request"  ->
         Record(transport.session, transport.send_seq,
                [request |-> call.request, session |-> call.session,
                 close |-> ~call.keep_alive])

ClientSends == [send_hello |-> "wait_sh", send_cke |-> "wait_sf",
                send_finished |-> "send_request", send_request |-> "wait_response"]

\* Mutant: the record layer of the connection before is kept.
RecordLayerKept(t) == t

RecordLayerNew(t) == [t EXCEPT !.send_seq = 0, !.recv_seq = 0]

\* What connect() leaves in the transport once ClientFinished is sent.
Established ==
  [RecordLayerNew(transport) EXCEPT !.sock = call.sock, !.session = call.sock,
                                    !.endpoint = Mine.endpoint]

\* send_handshake or send_record; the sequence number advances after sendall.
ClientSend ==
  /\ call.phase \in DOMAIN ClientSends
  /\ call.phase = "send_request" => SequenceFits(transport.send_seq)
  /\ conn' = [conn EXCEPT ![call.sock].to_server = Written(@, ClientFrame)]
  /\ transport' = CASE call.phase = "send_finished" -> Established
                    [] call.phase = "send_request" -> [transport EXCEPT !.send_seq = @ + 1]
                    [] OTHER -> transport
  /\ call' = [call EXCEPT !.phase = ClientSends[call.phase],
                          !.session = IF call.phase = "send_finished"
                                        THEN HeaderSession([session |-> @], Established) ELSE @]
  /\ UNCHANGED <<caller, meant, listening, faults, executed>>

\* sendall raises: a connection that is gone, or a fault of its own.
ClientSendFails ==
  /\ call.phase \in DOMAIN ClientSends
  /\ call.phase = "send_request" => SequenceFits(transport.send_seq)
  /\ \/ (Mine.reset \/ Mine.thread = "closed") /\ UNCHANGED faults
     \/ faults < MaxFaults /\ faults' = faults + 1
  /\ \E s \in Attempts(Mine.to_server, ClientFrame) :
       Fail("send", [conn EXCEPT ![call.sock].to_server = s])
  /\ UNCHANGED <<meant, listening, executed>>

\* OverflowError: the connection has used up its sequence numbers.
ClientOverflows ==
  /\ call.phase = "send_request" /\ ~SequenceFits(transport.send_seq)
  /\ Fail("overflow", conn)
  /\ UNCHANGED <<meant, listening, faults, executed>>

\* ServerHello or ServerFinished: process_server_hello, process_server_finished.
ClientHandshakes ==
  /\ \/ call.phase = "wait_sh" /\ call' = [call EXCEPT !.phase = "send_cke"]
     \/ call.phase = "wait_sf" /\ call' = [call EXCEPT !.phase = "send_finished"]
  /\ Readable(Mine.to_client)
  /\ conn' = [conn EXCEPT ![call.sock].to_client = Consumed(@)]
  /\ UNCHANGED <<transport, caller, meant, listening, faults, executed>>

\* The client does not accept the server's certificate, key or mode.
ClientRefuses ==
  /\ call.phase = "wait_sh" /\ Readable(Mine.to_client)
  /\ faults < MaxFaults /\ faults' = faults + 1
  /\ Fail("handshake", conn)
  /\ UNCHANGED <<meant, listening, executed>>

\* The response: request() returns it with the transport's session, and closes
\* unless keep_alive.
ClientReceives ==
  /\ call.phase = "wait_response" /\ Readable(Mine.to_client)
  /\ LET frame == NextFrame(Mine.to_client)
         consumed == [conn EXCEPT ![call.sock].to_client = Consumed(@)]
     IN  IF Accepted(frame, transport.session, transport.recv_seq)
           THEN /\ caller' = [caller EXCEPT ![call.request] =
                                <<"answered", frame.body, transport.session>>]
                /\ call' = Idle(call)
                /\ IF call.keep_alive
                     THEN /\ transport' = [transport EXCEPT !.recv_seq = @ + 1]
                          /\ conn' = consumed
                     ELSE /\ transport' = Closed(transport)
                          /\ conn' = SocketClosed(consumed)
           ELSE Fail("protection", conn)
  /\ UNCHANGED <<meant, listening, faults, executed>>

ClientReceiveFails ==
  /\ call.phase \in {"wait_sh", "wait_sf", "wait_response"}
  /\ ReadFails(Mine, Mine.to_client, Mine.thread # "closed")
  /\ Fail("receive", conn)
  /\ UNCHANGED <<meant, listening, faults, executed>>

\* close() of the application between two requests.
Close ==
  /\ call.phase = "idle" /\ transport.sock # None
  /\ transport' = Closed(transport)
  /\ conn' = SocketClosed(conn)
  /\ UNCHANGED <<call, caller, meant, listening, faults, executed>>

\* The socket of a connect() that raised is closed when the exception is gone.
CollectSocket(c) ==
  /\ conn[c].client_open /\ c \notin {transport.sock, call.sock}
  /\ conn' = [conn EXCEPT ![c].client_open = FALSE]
  /\ UNCHANGED <<transport, call, caller, meant, listening, faults, executed>>
-----------------------------------------------------------------------------
(* Server: _handle_client, one thread per connection c.                     *)

Client == <<transport, call, caller, meant>>
Thread(c, phase) == conn[c].thread = phase

\* accept() in the loop of start().
Accept(c) ==
  /\ Thread(c, "backlog") /\ listening[conn[c].endpoint]
  /\ conn' = [conn EXCEPT ![c].thread = "await_hello"]
  /\ UNCHANGED <<Client, listening, faults, executed>>

ServerReceives == [await_hello |-> "send_sh", await_cke |-> "send_sf",
                   await_finished |-> "await_request"]

\* ClientHello, ClientKeyExchange, ClientFinished; after the last the
\* connection has a session and a record layer.
ServerHandshakes(c) ==
  /\ conn[c].thread \in DOMAIN ServerReceives
  /\ Readable(conn[c].to_server)
  /\ conn' = [conn EXCEPT ![c].thread = ServerReceives[@],
                          ![c].to_server = Consumed(@)]
  /\ UNCHANGED <<Client, listening, faults, executed>>

ServerFrame(c) ==
  CASE conn[c].thread = "send_sh" -> Message("ServerHello")
    [] conn[c].thread = "send_sf" -> Message("ServerFinished")
    [] conn[c].thread = "send_response" ->
         Record(c, conn[c].send_seq, conn[c].request.request)

\* The loop of handle_application_session ends with "Connection: close".
ServerSends(c) ==
  [send_sh |-> "await_cke", send_sf |-> "await_finished",
   send_response |-> IF conn[c].request # None /\ conn[c].request.close
                       THEN "closed" ELSE "await_request"]

\* Its own numbers cannot run out first: it sends one record for each it reads.
ServerSend(c) ==
  /\ conn[c].thread \in DOMAIN ServerSends(c)
  /\ Thread(c, "send_response") => SequenceFits(conn[c].send_seq)
  /\ conn' = [conn EXCEPT
                ![c].thread = ServerSends(c)[@],
                ![c].to_client = Written(@, ServerFrame(c)),
                ![c].send_seq = IF Thread(c, "send_response") THEN @ + 1 ELSE @,
                ![c].request = None]
  /\ UNCHANGED <<Client, listening, faults, executed>>

\* Mutant: an exception ends the thread but not the connection.
ThreadEndsOnly(c) == [c EXCEPT !.thread = "leaked"]

\* finally: connection.close(), however the thread ends.
ThreadEnds(c) == [c EXCEPT !.thread = "closed"]

\* An exception out of the handshake, the application or a send.
ServerSendFails(c) ==
  /\ conn[c].thread \in DOMAIN ServerSends(c)
  /\ Thread(c, "send_response") => SequenceFits(conn[c].send_seq)
  /\ \/ (conn[c].reset \/ ~conn[c].client_open) /\ UNCHANGED faults
     \/ faults < MaxFaults /\ faults' = faults + 1
  /\ \E s \in Attempts(conn[c].to_client, ServerFrame(c)) :
       conn' = [conn EXCEPT ![c] = ThreadEnds([@ EXCEPT !.to_client = s])]
  /\ UNCHANGED <<Client, listening, executed>>

\* process_client_hello finds no mode the two have in common.
ServerRefuses(c) ==
  /\ Thread(c, "await_hello") /\ Readable(conn[c].to_server)
  /\ faults < MaxFaults /\ faults' = faults + 1
  /\ conn' = [conn EXCEPT ![c] = ThreadEnds(@)]
  /\ UNCHANGED <<Client, listening, executed>>

\* recv_application and parse_http_request.
ServerReceivesRequest(c) ==
  /\ Thread(c, "await_request") /\ Readable(conn[c].to_server)
  /\ LET frame == NextFrame(conn[c].to_server)
     IN  conn' = [conn EXCEPT ![c] =
                    IF Accepted(frame, c, conn[c].recv_seq)
                      THEN [conn[c] EXCEPT !.thread = "run", !.request = frame.body,
                                           !.recv_seq = @ + 1, !.to_server = Consumed(@)]
                      ELSE ThreadEnds(conn[c])]
  /\ UNCHANGED <<Client, listening, faults, executed>>

Ran(c) == executed' = [executed EXCEPT ![conn[c].request.request] = @ + 1]

\* call_flask_app returns a response, or raises with or without effect.
Execute(c) ==
  /\ Thread(c, "run")
  /\ Ran(c)
  /\ conn' = [conn EXCEPT ![c].thread = "send_response"]
  /\ UNCHANGED <<Client, listening, faults>>

ExecuteRaises(c) ==
  /\ Thread(c, "run")
  /\ faults < MaxFaults /\ faults' = faults + 1
  /\ Ran(c) \/ UNCHANGED executed
  /\ conn' = [conn EXCEPT ![c] = ThreadEnds(@)]
  /\ UNCHANGED <<Client, listening>>

\* EOFError or another exception out of a read: break or raise, then close.
ServerReceiveFails(c) ==
  /\ conn[c].thread \in (DOMAIN ServerReceives) \cup {"await_request"}
  /\ ReadFails(conn[c], conn[c].to_server, conn[c].client_open)
  /\ conn' = [conn EXCEPT ![c] = ThreadEnds(@)]
  /\ UNCHANGED <<Client, listening, faults, executed>>

\* stop(): no more connections, and none of those nobody has accepted yet.
Stop(e) ==
  /\ listening[e] /\ faults < MaxFaults
  /\ faults' = faults + 1
  /\ listening' = [listening EXCEPT ![e] = FALSE]
  /\ conn' = [c \in DOMAIN conn |-> IF conn[c].endpoint = e /\ Thread(c, "backlog")
                                      THEN ThreadEnds(conn[c]) ELSE conn[c]]
  /\ UNCHANGED <<Client, executed>>

\* start() has returned: the process ends, and its daemon threads with it.
Exit(e) ==
  /\ ~listening[e]
  /\ conn' = [c \in DOMAIN conn |-> IF conn[c].endpoint = e
                                      THEN ThreadEnds(conn[c]) ELSE conn[c]]
  /\ UNCHANGED <<Client, listening, faults, executed>>

\* The server is started again.
Restart(e) ==
  /\ ~listening[e]
  /\ \A c \in DOMAIN conn : conn[c].endpoint = e => Thread(c, "closed")
  /\ listening' = [listening EXCEPT ![e] = TRUE]
  /\ UNCHANGED <<Client, conn, faults, executed>>

\* The network resets a connection.
Reset(c) ==
  /\ ~conn[c].reset /\ faults < MaxFaults
  /\ faults' = faults + 1
  /\ conn' = [conn EXCEPT ![c].reset = TRUE]
  /\ UNCHANGED <<Client, listening, executed>>
-----------------------------------------------------------------------------
Init ==
  /\ transport = TransportInit
  /\ call = [phase |-> "idle", request |-> 0, keep_alive |-> FALSE, sock |-> None,
             session |-> None]
  /\ caller = [r \in Request |-> <<"idle">>]
  /\ meant = [r \in Request |-> None]
  /\ conn = <<>>
  /\ listening = [e \in Endpoint |-> TRUE]
  /\ faults = 0
  /\ executed = [r \in Request |-> 0]

ClientSteps ==
  \/ Dial \/ ClientSend \/ ClientSendFails \/ ClientOverflows
  \/ ClientHandshakes \/ ClientRefuses \/ ClientReceives \/ ClientReceiveFails

ThreadSteps(c) ==
  \/ Accept(c) \/ ServerHandshakes(c) \/ ServerRefuses(c)
  \/ ServerSend(c) \/ ServerSendFails(c)
  \/ ServerReceivesRequest(c) \/ Execute(c) \/ ExecuteRaises(c)
  \/ ServerReceiveFails(c)

Next ==
  \/ \E e \in Endpoint : Reuse(e) \/ \E keep \in BOOLEAN : Connect(e, keep)
  \/ ClientSteps
  \/ Close
  \/ \E c \in DOMAIN conn : CollectSocket(c) \/ ThreadSteps(c) \/ Reset(c)
  \/ \E e \in Endpoint : Stop(e) \/ Exit(e) \/ Restart(e)

Spec == Init /\ [][Next]_vars

\* Both programs run, the application returns, and a stopped process ends.
FairSpec ==
  /\ Spec
  /\ WF_vars(ClientSteps)
  /\ \A c \in 1..MaxConnections :
       /\ WF_vars(c \in DOMAIN conn /\ ThreadSteps(c))
       /\ WF_vars(c \in DOMAIN conn /\ CollectSocket(c))
  /\ \A e \in Endpoint : WF_vars(Exit(e))
-----------------------------------------------------------------------------
(* Properties.                                                             *)

\* The variables stay within their types (client.py, tcp_transport.py,
\* record_layer.py).
TypeOK ==
  /\ call.phase \in {"idle", "dial", "wait_sh", "wait_sf", "wait_response"} \cup DOMAIN ClientSends
  /\ call.request \in 0..MaxRequests /\ call.keep_alive \in BOOLEAN
  /\ transport.sock \in DOMAIN conn \cup {None}
  /\ transport.session \in DOMAIN conn \cup {None}
  /\ transport.endpoint \in Endpoint \cup {None}
  /\ transport.send_seq \in 0..SeqLimit /\ transport.recv_seq \in 0..SeqLimit
  /\ call.phase \notin {"idle", "dial"} => call.sock \in DOMAIN conn
  /\ listening \in [Endpoint -> BOOLEAN]
  /\ executed \in [Request -> Nat]
  /\ meant \in [Request -> Endpoint \cup {None}]
  /\ \A c \in DOMAIN conn :
       /\ conn[c].thread \in {"backlog", "await_request", "run", "closed"}
            \cup DOMAIN ServerReceives \cup DOMAIN ServerSends(c)
       /\ {conn[c].send_seq, conn[c].recv_seq} \subseteq 0..SeqLimit

Records(s) == {i \in DOMAIN s.sent : s.sent[i].type = "record"}

\* No two different plaintexts are ever protected under one key with one
\* nonce, though a number advances only after sendall: a sender that raised,
\* whatever part it has written, never writes to that connection again, and
\* numbers do not wrap (record_layer.py send_record, client.py request).
NonceUnique ==
  \A c \in DOMAIN conn : \A s \in {conn[c].to_server, conn[c].to_client} :
    \A i, j \in Records(s) :
      i # j => s.sent[i].seq # s.sent[j].seq \/ s.sent[i].key # s.sent[j].key

\* A request is written only to a connection of the server it was made to,
\* whichever connection the transport had open; the session its binding proof
\* is made for is the session of that connection, and so is the session
\* request() returns with the response, though close() leaves the session of a
\* closed connection in the transport (tcp_transport.py matches_endpoint,
\* close, request_over_transport).
RightConnection ==
  /\ \A c \in DOMAIN conn : \A i \in Records(conn[c].to_server) :
       LET body == conn[c].to_server.sent[i].body
       IN  meant[body.request] = conn[c].endpoint /\ body.session = c
  /\ \A r \in Request : caller[r][1] = "answered" =>
       \E i \in Records(conn[caller[r][3]].to_server) :
         conn[caller[r][3]].to_server.sent[i].body.request = r

Exchange == INSTANCE RequestExchange WITH
  caller <- [r \in Request |-> CASE caller[r][1] = "answered" -> <<"answered", caller[r][2]>>
                                 [] caller[r][1] = "failed" -> <<"failed">>
                                 [] OTHER -> caller[r]]

\* A request runs at most once and is answered with its own response, over
\* kept connections, new ones and restarts of the server
\* (client.py request, tcp_transport.py handle_application_session).
ImplementsExchange == Exchange!Spec

\* Every request ends, with a response or an exception, although no socket has
\* a timeout: whoever stops reading closes the connection
\* (tcp_server.py _handle_client, client.py request).
RequestEnds == \A r \in Request : caller[r] = <<"waiting">> ~> caller[r] # <<"waiting">>

\* Nothing else goes wrong from now on, and every server runs.
Calm == faults = MaxFaults /\ \A e \in Endpoint : listening[e]

NewConnectionOf(r) ==
  /\ call.request = r /\ call.phase = "send_hello"
  /\ ~Mine.reset /\ Mine.thread # "closed"

\* A request that connects anew in a calm network is answered, whatever failed
\* before it (tcp_transport.py connect, client.py close).
NewConnectionAnswers ==
  \A r \in Request :
    (Calm /\ NewConnectionOf(r)) ~> (caller[r][1] = "answered")

\* The thread of a connection the client has closed ends; none waits for a
\* client that is gone (tcp_transport.py handle_application_session).
AbandonedThreadEnds ==
  \A c \in 1..MaxConnections :
    (c \in DOMAIN conn /\ ~conn[c].client_open) ~> (c \in DOMAIN conn /\ conn[c].thread = "closed")
=============================================================================
