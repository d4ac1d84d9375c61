--------------------------- MODULE StepFlowProofs ---------------------------
(***************************************************************************)
(* Proofs about StepFlow, for any number of browsers, threads and runs, for *)
(* browsers that keep to the front end's rules and for those that do not:   *)
(* the types, that a run which is no longer active is let go, that a delayed *)
(* transition stays in its run, that an established session has the same    *)
(* transcript on both sides, and, where one handler or task ends before the *)
(* next begins, that the steps of a run complete in order and none fails.   *)
(***************************************************************************)
EXTENDS StepFlow, TLAPS, SequenceTheorems

RunFields == {"client_sid", "auto_advance", "step", "status", "client", "server", "ch", "sh",
              "cke", "sf", "secret", "established", "verifier", "code", "redeemed", "token",
              "refresh", "loops"}
ThreadFields == {"pc", "run", "step", "actual", "arg", "valid"}

PC == {"free", "init", "next", "started", "complete", "execute", "call", "advance", "raise",
       "hold"}
Working == {"started", "execute", "call", "advance", "raise", "hold"}

IsSequence(x) == \E S : x \in Seq(S)

\* How far the transcripts of a run have got by each of the handshake's steps,
\* in whatever order and how often they were executed.  Once a side has heard
\* three messages its transcript does not change.
Transcripts(s) ==
  /\ IsSequence(s.client) /\ IsSequence(s.server)
  /\ s.ch # None => Len(s.client) >= 1
  /\ s.cke # None => Len(s.client) = 3 /\ Len(s.server) >= 2
  /\ s.sf # None => Len(s.client) = 3 /\ Len(s.server) = 3
  /\ Len(s.client) <= 3 /\ Len(s.server) <= 3
  /\ s.established => /\ Len(s.client) = 3 /\ Len(s.server) = 3
                      /\ T2(s.client) = T2(s.server)

RunState(s) ==
  /\ DOMAIN s = RunFields
  /\ s.status \in {"running", "paused", "done", "error"}
  /\ s.step \in Nat \ {0}
  /\ s.client_sid \in Browser
  /\ Transcripts(s)

ThreadState(s, runs) ==
  /\ DOMAIN s = ThreadFields
  /\ s.pc \in PC
  /\ s.run \in runs \cup {None}
  /\ s.pc \in Working \cup {"init"} => s.run \in runs

RunsFine == IsSequence(run) /\ \A r \in DOMAIN run : RunState(run[r])
ThreadsFine == DOMAIN thread = Thread /\ \A t \in Thread : ThreadState(thread[t], DOMAIN run)
GlobalsFine ==
  /\ active \in DOMAIN run \cup {None} /\ active_id \in DOMAIN run \cup {None}
  /\ connected \subseteq Browser /\ faults \in 0..MaxFaults

IInv == RunsFine /\ ThreadsFine /\ GlobalsFine

USE NoneAssumption
-----------------------------------------------------------------------------
(* Transcripts *)

LEMMA HeardLonger ==
  ASSUME NEW S, NEW t \in Seq(S), NEW m \in Seq(S), Len(t) <= 3
  PROVE  /\ Heard(t, m) \in Seq(S)
         /\ Len(Heard(t, m)) <= 3
         /\ Len(Heard(t, m)) >= Len(t)
         /\ Len(Heard(t, m)) = (IF Len(t) + Len(m) < 3 THEN Len(t) + Len(m) ELSE 3)
         /\ Len(t) = 3 => Heard(t, m) = t
<1> DEFINE all == t \o m
           n == IF Len(all) < 3 THEN Len(all) ELSE 3
<1>1. /\ all \in Seq(S) /\ Len(all) = Len(t) + Len(m) /\ Len(t) \in Nat /\ Len(m) \in Nat
      /\ \A i \in 1..Len(t) : all[i] = t[i]
  OBVIOUS
<1>2. Heard(t, m) = SubSeq(all, 1, n)
  BY DEF Heard
<1>3. n \in 0..Len(all) /\ n <= 3 /\ n >= Len(t)
  BY <1>1
<1> HIDE DEF n, all
<1>4. /\ SubSeq(all, 1, n) \in Seq(S) /\ Len(SubSeq(all, 1, n)) = n
      /\ \A i \in 1..n : SubSeq(all, 1, n)[i] = all[i]
  BY <1>1, <1>3
<1>5. ASSUME Len(t) = 3 PROVE Heard(t, m) = t
  <2>1. n = 3
    BY <1>3, <1>5
  <2>2. Len(SubSeq(all, 1, n)) = Len(t) /\ \A i \in 1..Len(t) : SubSeq(all, 1, n)[i] = t[i]
    BY <1>1, <1>4, <1>5, <2>1
  <2>3. QED
    BY <1>2, <1>4, <2>2, SeqEqual
<1>6. n = IF Len(t) + Len(m) < 3 THEN Len(t) + Len(m) ELSE 3
  BY <1>1 DEF n
<1>7. QED
  BY <1>1, <1>2, <1>3, <1>4, <1>5, <1>6

LEMMA HeardOne ==
  ASSUME NEW t, IsSequence(t), Len(t) <= 3, NEW x
  PROVE  LET u == Heard(t, <<x>>)
         IN  /\ IsSequence(u) /\ Len(u) <= 3 /\ Len(u) >= Len(t) /\ Len(u) >= 1
             /\ Len(t) = 3 => u = t
<1>1. PICK S : t \in Seq(S)
  BY DEF IsSequence
<1> DEFINE U == S \cup {x}
           m == <<x>>
<1>2. t \in Seq(U) /\ m \in Seq(U) /\ Len(m) = 1 /\ Len(t) \in Nat
  BY <1>1
<1> HIDE DEF U, m
<1>3. /\ Heard(t, m) \in Seq(U)
      /\ Len(Heard(t, m)) = (IF Len(t) + Len(m) < 3 THEN Len(t) + Len(m) ELSE 3)
      /\ Len(t) = 3 => Heard(t, m) = t
  BY <1>2, HeardLonger
<1>4. /\ Len(Heard(t, m)) <= 3 /\ Len(Heard(t, m)) >= Len(t)
      /\ Len(Heard(t, m)) >= 1 /\ IsSequence(Heard(t, m))
  BY <1>2, <1>3 DEF IsSequence
<1>5. QED
  BY <1>3, <1>4 DEF m

LEMMA HeardTwo ==
  ASSUME NEW t, IsSequence(t), Len(t) <= 3, NEW x, NEW y
  PROVE  LET u == Heard(t, <<x, y>>)
         IN  /\ IsSequence(u) /\ Len(u) <= 3 /\ Len(u) >= Len(t) /\ Len(u) >= 2
             /\ Len(t) >= 1 => Len(u) = 3
             /\ Len(t) = 3 => u = t
<1>1. PICK S : t \in Seq(S)
  BY DEF IsSequence
<1> DEFINE U == S \cup {x, y}
           m == <<x, y>>
<1>2. t \in Seq(U) /\ m \in Seq(U) /\ Len(m) = 2 /\ Len(t) \in Nat
  BY <1>1
<1> HIDE DEF U, m
<1>3. /\ Heard(t, m) \in Seq(U)
      /\ Len(Heard(t, m)) = (IF Len(t) + Len(m) < 3 THEN Len(t) + Len(m) ELSE 3)
      /\ Len(t) = 3 => Heard(t, m) = t
  BY <1>2, HeardLonger
<1>4. /\ Len(Heard(t, m)) <= 3 /\ Len(Heard(t, m)) >= Len(t) /\ Len(Heard(t, m)) >= 2
      /\ Len(t) >= 1 => Len(Heard(t, m)) = 3
      /\ IsSequence(Heard(t, m))
  BY <1>2, <1>3 DEF IsSequence
<1>5. QED
  BY <1>3, <1>4 DEF m


-----------------------------------------------------------------------------
(* One run, one thread *)

LEMMA OneRun ==
  ASSUME RunsFine, NEW r \in DOMAIN run, NEW s, RunState(s), run' = [run EXCEPT ![r] = s]
  PROVE  RunsFine' /\ DOMAIN run' = DOMAIN run
<1>1. PICK S : run \in Seq(S)
  BY DEF RunsFine, IsSequence
<1> DEFINE U == S \cup {s}
<1>2. run \in Seq(U) /\ s \in U
  BY <1>1
<1> HIDE DEF U
<1>3. run' \in Seq(U) /\ DOMAIN run' = DOMAIN run
  BY <1>2
<1>4. \A q \in DOMAIN run : run'[q] = IF q = r THEN s ELSE run[q]
  OBVIOUS
<1>5. QED
  BY <1>3, <1>4 DEF RunsFine, IsSequence

\* What the handshake steps have left is as it was.
SameHandshake(s, u) ==
  /\ u.client = s.client /\ u.server = s.server /\ u.ch = s.ch /\ u.cke = s.cke
  /\ u.sf = s.sf /\ u.established = s.established

LEMMA StateKept ==
  ASSUME NEW s, NEW u, RunState(s), SameHandshake(s, u),
         DOMAIN u = RunFields, u.status \in {"running", "paused", "done", "error"},
         u.step \in Nat \ {0}, u.client_sid \in Browser
  PROVE  RunState(u)
BY DEF RunState, SameHandshake, Transcripts

LEMMA RunChanges ==
  ASSUME RunsFine, NEW r \in DOMAIN run, NEW u, run' = [run EXCEPT ![r] = u],
         SameHandshake(run[r], u),
         DOMAIN u = RunFields, u.status \in {"running", "paused", "done", "error"},
         u.step \in Nat \ {0}, u.client_sid \in Browser
  PROVE  RunsFine' /\ DOMAIN run' = DOMAIN run
BY OneRun, StateKept DEF RunsFine

LEMMA StatusChanges ==
  ASSUME RunsFine, NEW r \in DOMAIN run, NEW x \in {"running", "paused", "done", "error"},
         run' = [run EXCEPT ![r].status = x]
  PROVE  RunsFine' /\ DOMAIN run' = DOMAIN run
<1> DEFINE u == [run[r] EXCEPT !.status = x]
<1>1. RunState(run[r])
  BY DEF RunsFine
<1>2. /\ SameHandshake(run[r], u) /\ DOMAIN u = RunFields /\ u.status = x
      /\ u.step \in Nat \ {0} /\ u.client_sid \in Browser
  BY <1>1 DEF RunState, SameHandshake, RunFields
<1>3. run' = [run EXCEPT ![r] = u]
  OBVIOUS
<1> HIDE DEF u
<1>4. QED
  BY <1>2, <1>3, RunChanges

LEMMA RunsUnchanged ==
  ASSUME RunsFine, run' = run
  PROVE  RunsFine' /\ DOMAIN run' = DOMAIN run
BY DEF RunsFine

LEMMA TakenOverKeeps ==
  ASSUME RunsFine, GlobalsFine, NEW b \in Browser, run' = TakenOver(b)
  PROVE  RunsFine' /\ DOMAIN run' = DOMAIN run
<1>1. CASE active = None
  BY <1>1, RunsUnchanged DEF TakenOver
<1>2. CASE active # None
  <2> DEFINE u == [run[active] EXCEPT !.client_sid = b]
  <2>1. active \in DOMAIN run /\ RunState(run[active])
    BY <1>2 DEF RunsFine, GlobalsFine
  <2>2. /\ SameHandshake(run[active], u) /\ DOMAIN u = RunFields
        /\ u.status \in {"running", "paused", "done", "error"}
        /\ u.step \in Nat \ {0} /\ u.client_sid = b
    BY <2>1 DEF RunState, SameHandshake, RunFields
  <2>3. run' = [run EXCEPT ![active] = u]
    BY <1>2 DEF TakenOver
  <2> HIDE DEF u
  <2>4. QED
    BY <2>1, <2>2, <2>3, RunChanges
<1>3. QED
  BY <1>1, <1>2

LEMMA ThreadsUnchanged ==
  ASSUME ThreadsFine, thread' = thread, DOMAIN run' = DOMAIN run
  PROVE  ThreadsFine'
BY DEF ThreadsFine

LEMMA OneThread ==
  ASSUME ThreadsFine, NEW t \in Thread, NEW s, thread' = [thread EXCEPT ![t] = s],
         DOMAIN run \subseteq DOMAIN run', ThreadState(s, DOMAIN run')
  PROVE  ThreadsFine'
<1>1. DOMAIN thread' = Thread
  BY DEF ThreadsFine
<1>2. ASSUME NEW u \in Thread PROVE ThreadState(thread'[u], DOMAIN run')
  <2>1. CASE u = t
    BY <2>1 DEF ThreadsFine
  <2>2. CASE u # t
    BY <2>2 DEF ThreadsFine, ThreadState
  <2>3. QED
    BY <2>1, <2>2
<1>3. QED
  BY <1>1, <1>2 DEF ThreadsFine

LEMMA EndsKeeps ==
  ASSUME ThreadsFine, NEW t \in Thread, Ends(t), DOMAIN run' = DOMAIN run
  PROVE  ThreadsFine'
<1>1. ThreadState(Free, DOMAIN run')
  BY DEF ThreadState, Free, ThreadFields, PC, Working
<1>2. QED
  BY <1>1, OneThread DEF Ends

LEMMA GotoKeeps ==
  ASSUME ThreadsFine, NEW t \in Thread, NEW pc \in PC, Goto(t, pc), DOMAIN run' = DOMAIN run,
         pc \in Working \cup {"init"} => thread[t].run \in DOMAIN run
  PROVE  ThreadsFine'
<1> DEFINE s == [thread[t] EXCEPT !.pc = pc]
<1>1. ThreadState(s, DOMAIN run')
  BY DEF ThreadsFine, ThreadState, ThreadFields
<1>2. thread' = [thread EXCEPT ![t] = s]
  BY DEF Goto
<1> HIDE DEF s
<1>3. QED
  BY <1>1, <1>2, OneThread

\* A thread at work has a run.
LEMMA OfRun ==
  ASSUME IInv, NEW t \in Thread, thread[t].pc \in Working \cup {"init"}
  PROVE  /\ thread[t].run \in DOMAIN run /\ Of(t) = run[thread[t].run] /\ RunState(Of(t))
         /\ DOMAIN thread[t] = ThreadFields
BY DEF IInv, ThreadsFine, ThreadState, RunsFine, Of

-----------------------------------------------------------------------------
(* Events *)

LEMMA ConnectKeeps ==
  ASSUME IInv, NEW b \in Browser,
         OnConnect(b) \/ OnGetState(b) \/ OnDisconnect(b) \/ \E id : OnReset(b, id)
  PROVE  IInv'
<1>1. /\ run' = run \/ run' = TakenOver(b)
      /\ UNCHANGED <<thread, faults>> /\ connected' \subseteq connected \cup {b}
      /\ active' \in {active, None} /\ active_id' \in {active_id, None}
  BY DEF OnConnect, OnGetState, OnDisconnect, OnReset, ResetActive, Browsers
<1>2. RunsFine' /\ DOMAIN run' = DOMAIN run
  BY <1>1, RunsUnchanged, TakenOverKeeps DEF IInv
<1>3. ThreadsFine'
  BY <1>1, <1>2, ThreadsUnchanged DEF IInv
<1>4. GlobalsFine'
  BY <1>1, <1>2 DEF IInv, GlobalsFine
<1>5. QED
  BY <1>2, <1>3, <1>4 DEF IInv

LEMMA StartKeeps ==
  ASSUME IInv, NEW b \in Browser, NEW t \in Thread, NEW auto \in BOOLEAN, OnStart(b, t, auto)
  PROVE  IInv'
<1> DEFINE r == Len(run) + 1
           s == NewRun(b, auto)
           h == [Free EXCEPT !.pc = "init", !.run = r]
<1>1. /\ run' = Append(run, s) /\ active_id' = r
      /\ thread' = [thread EXCEPT ![t] = h]
      /\ UNCHANGED <<active, connected, faults>>
  BY DEF OnStart, Browsers
<1>2. RunState(s)
  <2>1. <<>> \in Seq({})
    OBVIOUS
  <2>2. Transcripts(s)
    BY <2>1 DEF NewRun, Transcripts, IsSequence
  <2>3. QED
    BY <2>2 DEF RunState, NewRun, RunFields
<1> HIDE DEF s
<1>3. PICK S : run \in Seq(S)
  BY DEF IInv, RunsFine, IsSequence
<1> DEFINE U == S \cup {s}
<1>4. run \in Seq(U) /\ s \in U
  BY <1>3
<1> HIDE DEF U
<1>5. /\ run' \in Seq(U) /\ DOMAIN run' = DOMAIN run \cup {r} /\ r \in Nat
      /\ run'[r] = s /\ \A q \in DOMAIN run : run'[q] = run[q]
  BY <1>1, <1>4
<1>6. RunsFine'
  BY <1>2, <1>5 DEF IInv, RunsFine, IsSequence
<1>7. ThreadState(h, DOMAIN run')
  BY <1>5 DEF ThreadState, Free, ThreadFields, PC, Working
<1> HIDE DEF h
<1>8. ThreadsFine'
  BY <1>1, <1>5, <1>7, OneThread DEF IInv
<1>9. GlobalsFine'
  BY <1>1, <1>5 DEF IInv, GlobalsFine
<1>10. QED
  BY <1>6, <1>8, <1>9 DEF IInv

LEMMA ContinueKeeps ==
  ASSUME IInv, NEW b \in Browser, NEW t \in Thread, NEW id, OnContinue(b, t, id)
  PROVE  IInv'
<1>1. /\ run' = TakenOver(b)
      /\ UNCHANGED <<active, active_id, connected, faults>>
      /\ thread' = thread \/ \E pc \in {"complete", "next"} : Goto(t, pc)
  BY DEF OnContinue, Goto
<1>2. RunsFine' /\ DOMAIN run' = DOMAIN run
  BY <1>1, TakenOverKeeps DEF IInv
<1>3. ThreadsFine'
  BY <1>1, <1>2, ThreadsUnchanged, GotoKeeps DEF IInv, PC, Working
<1>4. GlobalsFine'
  BY <1>1, <1>2 DEF IInv, GlobalsFine
<1>5. QED
  BY <1>2, <1>3, <1>4 DEF IInv


-----------------------------------------------------------------------------
(* The handshake steps *)

LEMMA HelloKeeps ==
  ASSUME NEW s, RunState(s), NEW r
  PROVE  RunState(Hello(r, s))
<1> DEFINE u == Hello(r, s)
           c == Heard(s.client, <<ClientHello(r)>>)
<1>1. /\ DOMAIN u = RunFields /\ u.client = c /\ u.server = s.server /\ u.cke = s.cke
      /\ u.sf = s.sf /\ u.established = s.established /\ u.status = s.status
      /\ u.step = s.step /\ u.client_sid = s.client_sid
  BY DEF Hello, RunState, RunFields
<1>2. /\ IsSequence(c) /\ Len(c) <= 3 /\ Len(c) >= Len(s.client) /\ Len(c) >= 1
      /\ Len(s.client) = 3 => c = s.client
  BY HeardOne DEF RunState, Transcripts
<1>3. Len(s.client) \in Nat
  BY DEF RunState, Transcripts, IsSequence
<1> HIDE DEF u, c
<1>4. s.cke # None => c = s.client
  BY <1>2, <1>3 DEF RunState, Transcripts
<1>5. Transcripts(u)
  BY <1>1, <1>2, <1>4 DEF RunState, Transcripts
<1>6. RunState(u)
  BY <1>1, <1>5 DEF RunState
<1>7. QED
  BY <1>6 DEF u

LEMMA ServerKeeps ==
  ASSUME NEW s, RunState(s), NEW r, s.ch # None
  PROVE  RunState(Server(r, s))
<1> DEFINE u == Server(r, s)
           c == Heard(s.client, <<ServerHello(r), ClientKeyExchange(r, ServerHello(r))>>)
           d == Heard(s.server, <<s.ch, ServerHello(r)>>)
<1>1. /\ DOMAIN u = RunFields /\ u.client = c /\ u.server = d /\ u.ch = s.ch
      /\ u.sf = s.sf /\ u.established = s.established /\ u.status = s.status
      /\ u.step = s.step /\ u.client_sid = s.client_sid
      /\ u.cke = ClientKeyExchange(r, ServerHello(r))
  BY DEF Server, RunState, RunFields
<1>2. /\ IsSequence(c) /\ Len(c) = 3
      /\ Len(s.client) = 3 => c = s.client
  <2>1. IsSequence(s.client) /\ Len(s.client) <= 3 /\ Len(s.client) >= 1
    BY DEF RunState, Transcripts
  <2>2. QED
    BY <2>1, HeardTwo
<1>3. /\ IsSequence(d) /\ Len(d) <= 3 /\ Len(d) >= 2 /\ Len(d) >= Len(s.server)
      /\ Len(s.server) = 3 => d = s.server
  <2>1. IsSequence(s.server) /\ Len(s.server) <= 3
    BY DEF RunState, Transcripts
  <2>2. QED
    BY <2>1, HeardTwo
<1>4. Len(s.client) \in Nat /\ Len(s.server) \in Nat
  BY DEF RunState, Transcripts, IsSequence
<1> HIDE DEF u, c, d
<1>5. s.established => c = s.client /\ d = s.server
  BY <1>2, <1>3, <1>4 DEF RunState, Transcripts
<1>6. Transcripts(u)
  BY <1>1, <1>2, <1>3, <1>5 DEF RunState, Transcripts
<1>7. RunState(u)
  BY <1>1, <1>6 DEF RunState
<1>8. QED
  BY <1>7 DEF u


LEMMA DeriveKeeps ==
  ASSUME NEW s, RunState(s), NEW r, s.cke # None
  PROVE  RunState(Derive(r, s))
<1> DEFINE u == Derive(r, s)
           sf == ServerFinished(Decapsulate(r, s.cke), s.server)
           d == Heard(s.server, <<s.cke, sf>>)
<1>1. /\ DOMAIN u = RunFields /\ u.client = s.client /\ u.server = d /\ u.ch = s.ch
      /\ u.cke = s.cke /\ u.established = s.established /\ u.status = s.status
      /\ u.step = s.step /\ u.client_sid = s.client_sid
  BY DEF Derive, RunState, RunFields
<1>2. /\ IsSequence(s.server) /\ Len(s.server) <= 3 /\ Len(s.server) >= 2
      /\ Len(s.client) = 3
  BY DEF RunState, Transcripts
<1>3. /\ IsSequence(d) /\ Len(d) = 3
      /\ Len(s.server) = 3 => d = s.server
  <2>1. Len(s.server) >= 1 /\ Len(s.server) \in Nat
    BY <1>2 DEF IsSequence
  <2> HIDE DEF sf
  <2>2. QED
    BY <1>2, <2>1, HeardTwo
<1>4. Len(s.server) \in Nat
  BY <1>2 DEF IsSequence
<1> HIDE DEF u, d
<1>5. s.established => d = s.server
  BY <1>2, <1>3, <1>4 DEF RunState, Transcripts
<1>6. Transcripts(u)
  BY <1>1, <1>2, <1>3, <1>5 DEF RunState, Transcripts
<1>7. RunState(u)
  BY <1>1, <1>6 DEF RunState
<1>8. QED
  BY <1>7 DEF u

LEMMA FinishKeeps ==
  ASSUME NEW s, RunState(s), s.sf # None, FinishedVerifies(s)
  PROVE  RunState(Finish(s))
<1> DEFINE u == Finish(s)
<1>1. /\ DOMAIN u = RunFields /\ u.client = s.client /\ u.server = s.server /\ u.ch = s.ch
      /\ u.cke = s.cke /\ u.sf = s.sf /\ u.status = s.status
      /\ u.step = s.step /\ u.client_sid = s.client_sid
  BY DEF Finish, RunState, RunFields
<1>2. T2(s.client) = T2(s.server)
  BY DEF FinishedVerifies, ClientFinishedVerifies, ClientFinished
<1> HIDE DEF u
<1>3. RunState(u)
  BY <1>1, <1>2 DEF RunState, Transcripts
<1>4. QED
  BY <1>3 DEF u


-----------------------------------------------------------------------------
(* The steps of a thread *)

LEMMA StepPositions == Len(STEP_ORDER) = 11 /\ Steps = 1..11
BY DEF STEP_ORDER, Steps

\* A step of a thread that leaves the globals as they are.
LEMMA ThreadOnly ==
  ASSUME IInv, RunsFine', DOMAIN run' = DOMAIN run, ThreadsFine',
         UNCHANGED <<active, active_id, connected>>, faults' \in 0..MaxFaults
  PROVE  IInv'
BY DEF IInv, GlobalsFine

LEMMA InitializedKeeps ==
  ASSUME IInv, NEW t \in Thread, Initialized(t)
  PROVE  IInv'
<1>1. /\ Goto(t, "next") /\ active' = thread[t].run /\ thread[t].run \in DOMAIN run
      /\ UNCHANGED <<active_id, run, connected, faults>>
  BY OfRun DEF Initialized, At, Browsers
<1>2. ThreadsFine'
  BY <1>1, GotoKeeps DEF IInv, PC, Working
<1>3. RunsFine' /\ GlobalsFine'
  BY <1>1, RunsUnchanged DEF IInv, GlobalsFine
<1>4. QED
  BY <1>2, <1>3 DEF IInv

LEMMA RunNextKeeps ==
  ASSUME IInv, NEW t \in Thread, RunNext(t)
  PROVE  IInv'
<1>1. UNCHANGED <<active, active_id, connected, faults>> /\ faults \in 0..MaxFaults
  BY DEF RunNext, Browsers, IInv, GlobalsFine
<1>2. CASE active = None
  <2>1. Ends(t) /\ run' = run
    BY <1>2 DEF RunNext, Driven
  <2>2. QED
    BY <1>1, <2>1, RunsUnchanged, EndsKeeps, ThreadOnly DEF IInv
<1>3. CASE active # None /\ run[active].step \notin Steps
  <2>1. Ends(t) /\ run' = [run EXCEPT ![active].status = "done"] /\ active \in DOMAIN run
    BY <1>3 DEF RunNext, Driven, IInv, GlobalsFine
  <2>2. RunsFine' /\ DOMAIN run' = DOMAIN run
    BY <2>1, StatusChanges DEF IInv
  <2>3. QED
    BY <1>1, <2>1, <2>2, EndsKeeps, ThreadOnly DEF IInv
<1>4. CASE active # None /\ run[active].step \in Steps
  <2> DEFINE h == [Free EXCEPT !.pc = "started", !.run = active,
                               !.step = STEP_ORDER[run[active].step]]
  <2>1. /\ run' = [run EXCEPT ![active].status = "running"] /\ active \in DOMAIN run
        /\ thread' = [thread EXCEPT ![t] = h]
    BY <1>4 DEF RunNext, Driven, IInv, GlobalsFine
  <2>2. RunsFine' /\ DOMAIN run' = DOMAIN run
    BY <2>1, StatusChanges DEF IInv
  <2>3. ThreadState(h, DOMAIN run')
    BY <2>1, <2>2 DEF ThreadState, Free, ThreadFields, PC, Working
  <2> HIDE DEF h
  <2>4. ThreadsFine'
    BY <2>1, <2>2, <2>3, OneThread DEF IInv
  <2>5. QED
    BY <1>1, <2>2, <2>4, ThreadOnly
<1>5. QED
  BY <1>2, <1>3, <1>4

LEMMA StartedKeeps ==
  ASSUME IInv, NEW t \in Thread, Started(t)
  PROVE  IInv'
<1>1. /\ UNCHANGED <<active, active_id, connected, faults>> /\ faults \in 0..MaxFaults
      /\ thread[t].run \in DOMAIN run
  BY OfRun DEF Started, At, Working, Browsers, IInv, GlobalsFine
<1>2. \/ run' = [run EXCEPT ![thread[t].run].status = "paused"] /\ Ends(t)
      \/ run' = run /\ Goto(t, "execute")
  BY DEF Started
<1>3. RunsFine' /\ DOMAIN run' = DOMAIN run
  BY <1>1, <1>2, StatusChanges, RunsUnchanged DEF IInv
<1>4. ThreadsFine'
  BY <1>1, <1>2, <1>3, EndsKeeps, GotoKeeps DEF IInv, PC
<1>5. QED
  BY <1>1, <1>3, <1>4, ThreadOnly

LEMMA CompleteInteractiveKeeps ==
  ASSUME IInv, NEW t \in Thread, CompleteInteractive(t)
  PROVE  IInv'
<1>1. /\ UNCHANGED <<active, active_id, run, connected, faults>> /\ faults \in 0..MaxFaults
      /\ RunsFine' /\ DOMAIN run' = DOMAIN run
  BY RunsUnchanged DEF CompleteInteractive, Browsers, IInv, GlobalsFine
<1>2. CASE active # None /\ run[active].step \in Steps
  <2> DEFINE h == [Free EXCEPT !.pc = "execute", !.run = active,
                               !.step = STEP_ORDER[run[active].step]]
  <2>1. active \in DOMAIN run /\ thread' = [thread EXCEPT ![t] = h]
    BY <1>2 DEF CompleteInteractive, IInv, GlobalsFine
  <2>2. ThreadState(h, DOMAIN run')
    BY <1>1, <2>1 DEF ThreadState, Free, ThreadFields, PC, Working
  <2> HIDE DEF h
  <2>3. ThreadsFine'
    BY <1>1, <2>1, <2>2, OneThread DEF IInv
  <2>4. QED
    BY <1>1, <2>3, ThreadOnly
<1>3. CASE ~(active # None /\ run[active].step \in Steps)
  <2>1. Ends(t)
    BY <1>3 DEF CompleteInteractive
  <2>2. QED
    BY <1>1, <2>1, EndsKeeps, ThreadOnly DEF IInv
<1>4. QED
  BY <1>2, <1>3

\* A thread that goes on with its run.
LEMMA GoesOn ==
  ASSUME IInv, NEW t \in Thread, thread[t].pc \in Working, NEW h,
         DOMAIN h = ThreadFields, h.run = thread[t].run, h.pc \in Working,
         thread' = [thread EXCEPT ![t] = h], DOMAIN run' = DOMAIN run
  PROVE  ThreadsFine'
<1>1. thread[t].run \in DOMAIN run
  BY OfRun
<1>2. ThreadState(h, DOMAIN run')
  BY <1>1 DEF ThreadState, PC, Working
<1>3. QED
  BY <1>2, OneThread DEF IInv

LEMMA LocalDoneKeeps ==
  ASSUME NEW s, RunState(s), NEW r, NEW step \in LocalSteps, LocalReady(step, s)
  PROVE  RunState(LocalDone(step, r, s))
<1>1. CASE step = "hello"
  BY <1>1, HelloKeeps DEF LocalDone
<1>2. CASE step = "server"
  BY <1>2, ServerKeeps DEF LocalDone, LocalReady
<1>3. CASE step = "derive"
  BY <1>3, DeriveKeeps DEF LocalDone, LocalReady
<1>4. CASE step = "finished"
  BY <1>4, FinishKeeps DEF LocalDone, LocalReady
<1>5. CASE step \notin {"hello", "server", "derive", "finished"}
  BY <1>5 DEF LocalDone
<1>6. QED
  BY <1>1, <1>2, <1>3, <1>4, <1>5

LEMMA LocalStepKeeps ==
  ASSUME IInv, NEW t \in Thread, LocalStep(t)
  PROVE  IInv'
<1> DEFINE r == thread[t].run
           step == STEP_ORDER[Of(t).step]
           s == LocalDone(step, r, Of(t))
           h == [thread[t] EXCEPT !.pc = "advance", !.actual = step]
<1>1. /\ UNCHANGED <<active, active_id, connected, faults>> /\ faults \in 0..MaxFaults
      /\ thread[t].pc \in Working
  BY DEF LocalStep, At, Working, Browsers, IInv, GlobalsFine
<1>2. r \in DOMAIN run /\ RunState(Of(t)) /\ DOMAIN thread[t] = ThreadFields
  BY <1>1, OfRun
<1>3. CASE LocalReady(step, Of(t))
  <2>1. /\ step \in LocalSteps /\ run' = [run EXCEPT ![r] = s]
        /\ thread' = [thread EXCEPT ![t] = h]
    BY <1>3 DEF LocalStep, Completed
  <2>2. RunState(s)
    BY <1>2, <1>3, <2>1, LocalDoneKeeps
  <2>3. DOMAIN h = ThreadFields /\ h.run = thread[t].run /\ h.pc \in Working
    BY <1>2 DEF ThreadFields, Working
  <2> HIDE DEF s, h
  <2>4. RunsFine' /\ DOMAIN run' = DOMAIN run
    BY <1>2, <2>1, <2>2, OneRun DEF IInv
  <2>5. ThreadsFine'
    BY <1>1, <2>1, <2>3, <2>4, GoesOn
  <2>6. QED
    BY <1>1, <2>4, <2>5, ThreadOnly
<1>4. CASE ~LocalReady(step, Of(t))
  <2>1. Goto(t, "raise") /\ run' = run
    BY <1>4 DEF LocalStep
  <2>2. QED
    BY <1>1, <1>2, <2>1, RunsUnchanged, GotoKeeps, ThreadOnly DEF IInv, PC
<1>5. QED
  BY <1>3, <1>4


LEMMA CallServerKeeps ==
  ASSUME IInv, NEW t \in Thread, CallServer(t)
  PROVE  IInv'
<1> DEFINE r == thread[t].run
           v == NextVerifier(Of(t).verifier)
           s == [run[r] EXCEPT !.verifier = v]
<1>1. /\ UNCHANGED <<active, active_id, connected, faults>> /\ faults \in 0..MaxFaults
      /\ thread[t].pc \in Working
  BY DEF CallServer, At, Working, Browsers, IInv, GlobalsFine
<1>2. r \in DOMAIN run /\ RunState(run[r]) /\ DOMAIN thread[t] = ThreadFields
  BY <1>1, OfRun
<1>3. \/ Goto(t, "raise") /\ run' = run
      \/ /\ \E step, arg : thread' = [thread EXCEPT ![t].pc = "call", ![t].actual = step,
                                                    ![t].arg = arg]
         /\ run' = run \/ run' = [run EXCEPT ![r] = s]
  <2>1. CASE Of(t).step \notin Steps
    BY <2>1 DEF CallServer
  <2>2. CASE Of(t).step \in Steps /\ CallReady(STEP_ORDER[Of(t).step], Of(t))
    <3> DEFINE step == STEP_ORDER[Of(t).step]
               arg == IF step = "authorize" THEN v ELSE thread[t].arg
    <3>1. /\ thread' = [thread EXCEPT ![t].pc = "call", ![t].actual = step, ![t].arg = arg]
          /\ run' = run \/ run' = [run EXCEPT ![r].verifier = v]
      BY <2>2 DEF CallServer
    <3> HIDE DEF step, arg
    <3>2. QED
      BY <3>1
  <2>3. CASE Of(t).step \in Steps /\ ~CallReady(STEP_ORDER[Of(t).step], Of(t))
    BY <2>3 DEF CallServer
  <2>4. QED
    BY <2>1, <2>2, <2>3
<1>4. /\ SameHandshake(run[r], s) /\ DOMAIN s = RunFields
      /\ s.status \in {"running", "paused", "done", "error"}
      /\ s.step \in Nat \ {0} /\ s.client_sid \in Browser
  BY <1>2 DEF RunState, SameHandshake, RunFields
<1> HIDE DEF s
<1>5. RunsFine' /\ DOMAIN run' = DOMAIN run
  BY <1>2, <1>3, <1>4, RunsUnchanged, RunChanges DEF IInv
<1>6. ThreadsFine'
  <2>1. CASE Goto(t, "raise")
    BY <1>2, <1>5, <2>1, GotoKeeps DEF IInv, PC
  <2>2. ASSUME NEW step, NEW arg,
               thread' = [thread EXCEPT ![t].pc = "call", ![t].actual = step, ![t].arg = arg]
        PROVE  ThreadsFine'
    <3> DEFINE h == [thread[t] EXCEPT !.pc = "call", !.actual = step, !.arg = arg]
    <3>1. DOMAIN h = ThreadFields /\ h.run = thread[t].run /\ h.pc \in Working
      BY <1>2 DEF ThreadFields, Working
    <3>2. thread' = [thread EXCEPT ![t] = h]
      BY <2>2
    <3> HIDE DEF h
    <3>3. QED
      BY <1>1, <1>5, <3>1, <3>2, GoesOn
  <2>3. QED
    BY <1>3, <2>1, <2>2
<1>7. QED
  BY <1>1, <1>5, <1>6, ThreadOnly

LEMMA AnsweredKeeps ==
  ASSUME NEW s, RunState(s), NEW step, NEW arg
  PROVE  RunState(Answered(step, s, arg))
<1> DEFINE u == Answered(step, s, arg)
<1>1. /\ SameHandshake(s, u) /\ DOMAIN u = RunFields
      /\ u.status = s.status /\ u.step = s.step /\ u.client_sid = s.client_sid
  <2>1. DOMAIN s = RunFields
    BY DEF RunState
  <2>2. CASE step = "authorize"
    BY <2>1, <2>2 DEF Answered, SameHandshake, RunFields
  <2>3. CASE step = "token_exchange"
    BY <2>1, <2>3 DEF Answered, SameHandshake, RunFields
  <2>4. CASE step = "refresh_token" /\ s.loops < max_refresh_loops
    BY <2>1, <2>4 DEF Answered, SameHandshake, RunFields
  <2>5. CASE step \notin {"authorize", "token_exchange"}
             /\ ~(step = "refresh_token" /\ s.loops < max_refresh_loops)
    BY <2>1, <2>5 DEF Answered, SameHandshake
  <2>6. QED
    BY <2>2, <2>3, <2>4, <2>5
<1> HIDE DEF u
<1>2. RunState(u)
  BY <1>1, StateKept DEF RunState
<1>3. QED
  BY <1>2 DEF u

LEMMA ServerAnswersKeeps ==
  ASSUME IInv, NEW t \in Thread, ServerAnswers(t)
  PROVE  IInv'
<1> DEFINE r == thread[t].run
           step == thread[t].actual
           s == Answered(step, Of(t), thread[t].arg)
           valid == step = "refresh_token" /\ Of(t).loops < max_refresh_loops
           h == [thread[t] EXCEPT !.pc = "advance", !.valid = valid]
<1>1. /\ UNCHANGED <<active, active_id, connected, faults>> /\ faults \in 0..MaxFaults
      /\ thread[t].pc \in Working
  BY DEF ServerAnswers, At, Working, Browsers, IInv, GlobalsFine
<1>2. r \in DOMAIN run /\ RunState(Of(t)) /\ DOMAIN thread[t] = ThreadFields
  BY <1>1, OfRun
<1>3. CASE Accepts(step, Of(t))
  <2>1. /\ run' = [run EXCEPT ![r] = s]
        /\ thread' = [thread EXCEPT ![t] = h]
    BY <1>3 DEF ServerAnswers, Completed
  <2>2. RunState(s)
    BY <1>2, AnsweredKeeps
  <2>3. DOMAIN h = ThreadFields /\ h.run = thread[t].run /\ h.pc \in Working
    BY <1>2 DEF ThreadFields, Working
  <2> HIDE DEF s, h
  <2>4. RunsFine' /\ DOMAIN run' = DOMAIN run
    BY <1>2, <2>1, <2>2, OneRun DEF IInv
  <2>5. ThreadsFine'
    BY <1>1, <2>1, <2>3, <2>4, GoesOn
  <2>6. QED
    BY <1>1, <2>4, <2>5, ThreadOnly
<1>4. CASE ~Accepts(step, Of(t))
  <2>1. Goto(t, "raise") /\ run' = run
    BY <1>4 DEF ServerAnswers
  <2>2. QED
    BY <1>1, <1>2, <2>1, RunsUnchanged, GotoKeeps, ThreadOnly DEF IInv, PC
<1>5. QED
  BY <1>3, <1>4

LEMMA CallFailsKeeps ==
  ASSUME IInv, NEW t \in Thread, CallFails(t)
  PROVE  IInv'
<1>1. /\ UNCHANGED <<active, active_id, connected>> /\ faults' \in 0..MaxFaults
      /\ thread[t].pc \in Working
  BY StepFlowAssumption DEF CallFails, At, Working, IInv, GlobalsFine
<1>2. thread[t].run \in DOMAIN run /\ RunState(Of(t)) /\ Of(t) = run[thread[t].run]
  BY <1>1, OfRun
<1>3. /\ run' = run \/ run' = [run EXCEPT ![thread[t].run] = Of(t)]
      /\ \E pc \in {"advance", "raise"} : Goto(t, pc)
  BY DEF CallFails, Completed, Goto
<1>4. RunsFine' /\ DOMAIN run' = DOMAIN run
  BY <1>2, <1>3, RunsUnchanged, OneRun DEF IInv
<1>5. ThreadsFine'
  BY <1>2, <1>3, <1>4, GotoKeeps DEF IInv, PC
<1>6. QED
  BY <1>1, <1>4, <1>5, ThreadOnly

LEMMA AdvanceKeeps ==
  ASSUME IInv, NEW t \in Thread, Advance(t)
  PROVE  IInv'
<1> DEFINE r == thread[t].run
           n == NextPosition(Of(t))
           goes_on == n \in Steps /\ (Of(t).auto_advance \/ STEP_ORDER[n] \in INTERACTIVE_STEPS)
           s == [run[r] EXCEPT !.step = n, !.status = StatusAfter(Of(t), n, goes_on)]
<1>1. /\ UNCHANGED <<active, active_id, connected, faults>> /\ faults \in 0..MaxFaults
      /\ thread[t].pc \in Working
  BY DEF Advance, At, Working, Browsers, IInv, GlobalsFine
<1>2. r \in DOMAIN run /\ RunState(run[r]) /\ Of(t) = run[r]
  BY <1>1, OfRun
<1>3. CASE thread[t].step = "refresh_token"
  <2>1. run' = [run EXCEPT ![r].status = "running"] /\ Goto(t, "hold")
    BY <1>3 DEF Advance
  <2>2. RunsFine' /\ DOMAIN run' = DOMAIN run
    BY <1>2, <2>1, StatusChanges DEF IInv
  <2>3. QED
    BY <1>1, <1>2, <2>1, <2>2, GotoKeeps, ThreadOnly DEF IInv, PC
<1>4. CASE thread[t].step # "refresh_token"
  <2>1. run' = [run EXCEPT ![r] = s] /\ (Ends(t) \/ Goto(t, "next"))
    BY <1>4 DEF Advance
  <2>2. StatusAfter(Of(t), n, goes_on) \in {"running", "paused", "done", "error"}
    BY <1>2 DEF StatusAfter, RunState
  <2>3. n \in Nat \ {0}
    BY <1>2 DEF NextPosition, RunState
  <2> HIDE DEF n, goes_on
  <2>4. /\ SameHandshake(run[r], s) /\ DOMAIN s = RunFields
        /\ s.status \in {"running", "paused", "done", "error"}
        /\ s.step \in Nat \ {0} /\ s.client_sid \in Browser
    BY <1>2, <2>2, <2>3 DEF RunState, SameHandshake, RunFields
  <2> HIDE DEF s
  <2>5. RunsFine' /\ DOMAIN run' = DOMAIN run
    BY <1>2, <2>1, <2>4, RunChanges DEF IInv
  <2>6. ThreadsFine'
    BY <2>1, <2>5, EndsKeeps, GotoKeeps DEF IInv, PC, Working
  <2>7. QED
    BY <1>1, <2>5, <2>6, ThreadOnly
<1>5. QED
  BY <1>3, <1>4

LEMMA RaiseKeeps ==
  ASSUME IInv, NEW t \in Thread, Raise(t)
  PROVE  IInv'
<1>1. /\ run' = [run EXCEPT ![thread[t].run].status = "error"] /\ Ends(t)
      /\ active' = None /\ active_id' = None /\ UNCHANGED <<connected, faults>>
      /\ thread[t].run \in DOMAIN run
  BY OfRun DEF Raise, At, Working, ResetActive, Browsers
<1>2. RunsFine' /\ DOMAIN run' = DOMAIN run
  BY <1>1, StatusChanges DEF IInv
<1>3. ThreadsFine' /\ GlobalsFine'
  BY <1>1, <1>2, EndsKeeps DEF IInv, GlobalsFine
<1>4. QED
  BY <1>2, <1>3 DEF IInv

LEMMA RefreshTransitionKeeps ==
  ASSUME IInv, NEW t \in Thread, RefreshTransition(t)
  PROVE  IInv'
<1>1. /\ UNCHANGED <<active, active_id, connected, faults>> /\ faults \in 0..MaxFaults
      /\ Ends(t) \/ Goto(t, "next")
  BY DEF RefreshTransition, Browsers, IInv, GlobalsFine
<1>2. RunsFine' /\ DOMAIN run' = DOMAIN run
  <2>1. CASE ~StillCurrent(t)
    BY <2>1, RunsUnchanged DEF RefreshTransition, IInv
  <2>2. CASE StillCurrent(t)
    <3>1. active \in DOMAIN run /\ RunState(run[active])
      BY <2>2 DEF StillCurrent, IInv, GlobalsFine, RunsFine
    <3>2. Index("resource_access") \in Nat \ {0} /\ Index("authorize") \in Nat \ {0}
      <4>1. STEP_ORDER[10] = "resource_access" /\ STEP_ORDER[5] = "authorize"
        BY DEF STEP_ORDER
      <4>2. /\ \E i \in Steps : STEP_ORDER[i] = "resource_access"
            /\ \E i \in Steps : STEP_ORDER[i] = "authorize"
        BY <4>1, StepPositions
      <4>3. Index("resource_access") \in Steps /\ Index("authorize") \in Steps
        BY <4>2 DEF Index
      <4>4. QED
        BY <4>3, StepPositions
    <3>3. CASE thread[t].valid
      <4> DEFINE s == [run[active] EXCEPT !.step = Index("resource_access"),
                         !.status = IF run[active].auto_advance THEN "running" ELSE "paused"]
      <4>1. run' = [run EXCEPT ![active] = s]
        BY <2>2, <3>3 DEF RefreshTransition
      <4>2. /\ SameHandshake(run[active], s) /\ DOMAIN s = RunFields
            /\ s.status \in {"running", "paused", "done", "error"}
            /\ s.step \in Nat \ {0} /\ s.client_sid \in Browser
        BY <3>1, <3>2 DEF RunState, SameHandshake, RunFields
      <4> HIDE DEF s
      <4>3. QED
        BY <3>1, <4>1, <4>2, RunChanges DEF IInv
    <3>4. CASE ~thread[t].valid
      <4> DEFINE s == [run[active] EXCEPT !.step = Index("authorize"), !.status = "paused",
                         !.loops = 0, !.code = None, !.token = FALSE, !.refresh = None]
      <4>1. run' = [run EXCEPT ![active] = s]
        BY <2>2, <3>4 DEF RefreshTransition
      <4>2. /\ SameHandshake(run[active], s) /\ DOMAIN s = RunFields
            /\ s.status \in {"running", "paused", "done", "error"}
            /\ s.step \in Nat \ {0} /\ s.client_sid \in Browser
        BY <3>1, <3>2 DEF RunState, SameHandshake, RunFields
      <4> HIDE DEF s
      <4>3. QED
        BY <3>1, <4>1, <4>2, RunChanges DEF IInv
    <3>5. QED
      BY <3>3, <3>4
  <2>3. QED
    BY <2>1, <2>2
<1>3. ThreadsFine'
  BY <1>1, <1>2, EndsKeeps, GotoKeeps DEF IInv, PC, Working
<1>4. QED
  BY <1>1, <1>2, <1>3, ThreadOnly


-----------------------------------------------------------------------------
(* The invariant *)

LEMMA IInvInit == Init => IInv
<1> SUFFICES ASSUME Init PROVE IInv
  OBVIOUS
<1>1. <<>> \in Seq({}) /\ DOMAIN <<>> = {}
  OBVIOUS
<1>2. RunsFine
  BY <1>1 DEF Init, RunsFine, IsSequence
<1>3. ThreadsFine
  BY DEF Init, ThreadsFine, ThreadState, Free, ThreadFields, PC, Working
<1>4. GlobalsFine
  BY StepFlowAssumption DEF Init, GlobalsFine
<1>5. QED
  BY <1>2, <1>3, <1>4 DEF IInv

LEMMA EventsKeep ==
  ASSUME IInv, NEW b \in Browser, Events(b)
  PROVE  IInv'
BY ConnectKeeps, StartKeeps, ContinueKeeps DEF Events

LEMMA ThreadStepKeeps ==
  ASSUME IInv, NEW t \in Thread, ThreadSteps(t)
  PROVE  IInv'
BY InitializedKeeps, RunNextKeeps, StartedKeeps, CompleteInteractiveKeeps, LocalStepKeeps,
   CallServerKeeps, ServerAnswersKeeps, CallFailsKeeps, AdvanceKeeps, RaiseKeeps,
   RefreshTransitionKeeps
DEF ThreadSteps

LEMMA IInvStep == IInv /\ [Next]_vars => IInv'
<1> SUFFICES ASSUME IInv, [Next]_vars PROVE IInv'
  OBVIOUS
<1>1. CASE UNCHANGED vars
  BY <1>1 DEF vars, IInv, RunsFine, ThreadsFine, GlobalsFine
<1>2. CASE Next
  BY <1>2, EventsKeep, ThreadStepKeeps DEF Next
<1>3. QED
  BY <1>1, <1>2

LEMMA IInvAlways == Spec => []IInv
BY IInvInit, IInvStep, PTL DEF Spec

-----------------------------------------------------------------------------
(* What follows from it *)

\* The variables stay within their types (step_flow_server.py
\* HandshakeSessionState and the globals).
THEOREM TypesHold == Spec => []TypeOK
<1>1. IInv => TypeOK
  BY DEF IInv, RunsFine, ThreadsFine, GlobalsFine, RunState, ThreadState, PC, Working, TypeOK
<1>2. QED
  BY <1>1, IInvAlways, PTL

\* A server session is established only with a client that has seen the same
\* first three messages, in whatever order the steps of the handshake were
\* executed and however often (step_flow_server.py _run_current_step,
\* handshake.py verify_client_finished).
THEOREM EstablishedMatch == Spec => []SessionsMatch
<1>1. IInv => SessionsMatch
  BY DEF IInv, RunsFine, RunState, Transcripts, SessionsMatch
<1>2. QED
  BY <1>1, IInvAlways, PTL

\* What a step of thread t does to the threads: it takes up the active run, or
\* goes on with its own, or gives it up.
LEMMA ThreadEffect ==
  ASSUME IInv, NEW t \in Thread, ThreadSteps(t)
  PROVE  /\ \A u \in Thread : u # t => thread'[u] = thread[u]
         /\ \/ thread'[t].pc = "next"
            \/ thread'[t].run = None
            \/ thread'[t].run = active /\ active' = active
            \/ thread[t].pc \in Working /\ thread'[t].run = thread[t].run
<1>1. DOMAIN thread = Thread /\ DOMAIN thread[t] = ThreadFields
  BY DEF IInv, ThreadsFine, ThreadState
<1>2. ASSUME Ends(t)
      PROVE  /\ \A u \in Thread : u # t => thread'[u] = thread[u]
             /\ thread'[t].run = None
  BY <1>1, <1>2 DEF Ends, Free
<1>3. ASSUME NEW pc, Goto(t, pc)
      PROVE  /\ \A u \in Thread : u # t => thread'[u] = thread[u]
             /\ thread'[t].run = thread[t].run /\ thread'[t].pc = pc
  BY <1>1, <1>3 DEF Goto, ThreadFields
<1>4. CASE Initialized(t)
  BY <1>3, <1>4 DEF Initialized
<1>5. CASE RunNext(t)
  <2>1. CASE Ends(t)
    BY <1>2, <2>1
  <2>2. CASE ~Ends(t)
    BY <1>1, <1>5, <2>2 DEF RunNext, Driven, Free
  <2>3. QED
    BY <2>1, <2>2
<1>6. CASE CompleteInteractive(t)
  <2>1. CASE Ends(t)
    BY <1>2, <2>1
  <2>2. CASE ~Ends(t)
    BY <1>1, <1>6, <2>2 DEF CompleteInteractive, Free
  <2>3. QED
    BY <2>1, <2>2
<1>7. CASE Started(t) \/ CallFails(t) \/ Advance(t) \/ Raise(t) \/ RefreshTransition(t)
  <2>1. thread[t].pc \in Working
    BY <1>7 DEF Started, CallFails, Advance, Raise, RefreshTransition, At, Working
  <2>2. Ends(t) \/ \E pc : Goto(t, pc)
    BY <1>7 DEF Started, CallFails, Advance, Raise, RefreshTransition, Goto
  <2>3. QED
    BY <1>2, <1>3, <2>1, <2>2
<1>8. CASE LocalStep(t) \/ CallServer(t) \/ ServerAnswers(t)
  <2>1. thread[t].pc \in Working
    BY <1>8 DEF LocalStep, CallServer, ServerAnswers, At, Working
  <2>2. CASE \E pc : Goto(t, pc)
    BY <1>3, <2>1, <2>2
  <2>3. CASE ~\E pc : Goto(t, pc)
    BY <1>1, <1>8, <2>1, <2>3 DEF LocalStep, CallServer, ServerAnswers, ThreadFields
  <2>4. QED
    BY <2>2, <2>3
<1>9. QED
  BY <1>4, <1>5, <1>6, <1>7, <1>8 DEF ThreadSteps

\* What an event does to the threads.
LEMMA EventEffect ==
  ASSUME IInv, NEW b \in Browser, Events(b), NEW t \in Thread
  PROVE  \/ thread'[t] = thread[t]
         \/ /\ IsFree(t)
            /\ thread'[t].pc = "init" \/ thread'[t].run = thread[t].run
<1>1. DOMAIN thread = Thread /\ DOMAIN thread[t] = ThreadFields
  BY DEF IInv, ThreadsFine, ThreadState
<1>2. CASE thread' = thread
  BY <1>2
<1>3. ASSUME NEW u \in Thread, NEW auto \in BOOLEAN, OnStart(b, u, auto)
      PROVE  \/ thread'[t] = thread[t]
             \/ IsFree(t) /\ thread'[t].pc = "init"
  BY <1>1, <1>3 DEF OnStart, Free
<1>4. ASSUME NEW u \in Thread, NEW id, OnContinue(b, u, id)
      PROVE  \/ thread'[t] = thread[t]
             \/ IsFree(t) /\ thread'[t].run = thread[t].run
  <2>1. /\ IsFree(u)
        /\ thread' = thread \/ \E pc : thread' = [thread EXCEPT ![u].pc = pc]
    BY <1>4 DEF OnContinue
  <2>2. QED
    BY <1>1, <2>1 DEF ThreadFields
<1>5. QED
  BY <1>2, <1>3, <1>4
  DEF Events, OnConnect, OnGetState, OnDisconnect, OnReset

\* A run that has been replaced or reset is let go: threads at work on it finish
\* their step, and none takes it up again (step_flow_server.py
\* _run_next_step_for_client, on_reset_step_flow, on_disconnect).
THEOREM RunsAreLetGo == Spec => RunIsLetGo
<1>1. ASSUME IInv, [Next]_vars, NEW r \in DOMAIN run, active # r, active' # r,
             NEW t \in Thread, thread'[t].run = r, thread'[t].pc \notin {"next", "init"}
      PROVE  thread[t].run = r /\ thread[t].pc \notin {"next", "init"}
  <2>1. r # None
    BY <1>1 DEF IInv, RunsFine, IsSequence
  <2>2. CASE UNCHANGED vars
    BY <1>1, <2>2 DEF vars
  <2>3. ASSUME NEW b \in Browser, Events(b)
        PROVE  thread[t].run = r /\ thread[t].pc \notin {"next", "init"}
    BY <1>1, <2>3, EventEffect DEF IsFree
  <2>4. ASSUME NEW u \in Thread, ThreadSteps(u)
        PROVE  thread[t].run = r /\ thread[t].pc \notin {"next", "init"}
    BY <1>1, <2>1, <2>4, ThreadEffect DEF Working
  <2>5. QED
    BY <1>1, <2>2, <2>3, <2>4 DEF Next
<1>2. ASSUME IInv, [Next]_vars, NEW r \in DOMAIN run, active # r, active' # r
      PROVE  Holders(r)' \subseteq Holders(r)
  BY <1>1, <1>2 DEF Holders
<1>3. IInv /\ [Next]_vars =>
        [\A r \in DOMAIN run : active # r /\ active' # r => Holders(r)' \subseteq Holders(r)]_vars
  BY <1>2
<1>4. QED
  BY <1>3, IInvAlways, PTL DEF Spec, RunIsLetGo

\* The delayed transition of one run never moves another, whatever was started
\* during its three seconds (step_flow_server.py _complete_refresh_transition).
THEOREM TransitionsStay == Spec => TransitionStaysInRun
<1>1. ASSUME IInv, Next, NEW t \in Thread, At(t, "hold"), thread'[t].pc # "hold",
             NEW r \in DOMAIN run, r # thread[t].run
      PROVE  run'[r] = run[r]
  <2>1. ASSUME NEW b \in Browser, Events(b) PROVE FALSE
    BY <1>1, <2>1, EventEffect DEF IsFree, At
  <2>2. PICK u \in Thread : ThreadSteps(u)
    BY <1>1, <2>1 DEF Next
  <2>3. u = t
    BY <1>1, <2>2, ThreadEffect DEF At
  <2>4. RefreshTransition(t)
    BY <1>1, <2>2, <2>3 DEF ThreadSteps, At, Initialized, RunNext, Started,
       CompleteInteractive, LocalStep, CallServer, ServerAnswers, CallFails, Advance, Raise
  <2>5. CASE ~StillCurrent(t)
    BY <2>4, <2>5 DEF RefreshTransition
  <2>6. CASE StillCurrent(t)
    <3>1. active = thread[t].run
      BY <2>6 DEF StillCurrent
    <3>2. QED
      BY <1>1, <2>4, <2>6, <3>1 DEF RefreshTransition
  <2>7. QED
    BY <2>5, <2>6
<1>2. IInv /\ [Next]_vars =>
        [\A t \in Thread : At(t, "hold") /\ thread'[t].pc # "hold" =>
           \A r \in DOMAIN run : r # thread[t].run => run'[r] = run[r]]_vars
  BY <1>1
<1>3. QED
  BY <1>2, IInvAlways, PTL DEF Spec, TransitionStaysInRun

-----------------------------------------------------------------------------
(* One thing at a time.  Two threads on one run can execute a step twice and *)
(* out of order; what follows is about behaviours in which a handler or task *)
(* ends before the next begins, as with one slot, or a lock around each.     *)

Serial == \A t, u \in Thread : ~IsFree(t) /\ ~IsFree(u) => t = u

KeyExchange(r) == ClientKeyExchange(r, ServerHello(r))
Hellos(r) == <<ClientHello(r), ServerHello(r)>>
FirstThree(r) == <<ClientHello(r), ServerHello(r), KeyExchange(r)>>
Mac(r) == ServerFinished(Encapsulated(KeyExchange(r)), Hellos(r))

\* What state s of run r holds once all the steps before position n are
\* completed, the first time round or a later one.
Handshaken(r, s, n) ==
  /\ n = 1 => s.client = <<>>
  /\ n = 2 => s.client = <<ClientHello(r)>>
  /\ n >= 3 => s.client = FirstThree(r)
  /\ n < 3 => s.server = <<>>
  /\ n = 3 => s.server = Hellos(r)
  /\ n >= 4 => s.server = FirstThree(r)
  /\ n >= 2 => s.ch = ClientHello(r)
  /\ n >= 3 => s.cke = KeyExchange(r)
  /\ n >= 4 => s.secret = Encapsulated(KeyExchange(r)) /\ s.sf = Mac(r)

LoggedIn(s, n) ==
  /\ s.loops \in Nat /\ s.verifier \in Nat
  /\ n >= 6 /\ n <= 8 => s.code \in Nat /\ s.code = s.verifier /\ ~s.redeemed
  /\ n >= 9 => s.token /\ (s.loops >= max_refresh_loops \/ s.refresh = "live")

Reached(r, s, n) == Handshaken(r, s, n) /\ LoggedIn(s, n)

\* Run r is ready for the step at its position.
ReadyAfter(r, s, completed) ==
  /\ s.step \in Steps
  /\ Follows(STEP_ORDER[s.step], completed)
  /\ Reached(r, s, s.step)
Ready(r) == ReadyAfter(r, run[r], last[r])

\* Where a run goes after the step at position n.
Onwards(n, valid) == IF n # 11 THEN n + 1 ELSE IF valid THEN 10 ELSE 5

Before == {"started", "execute", "call"}
After == {"advance", "hold"}

Execution(t) ==
  thread[t].pc \in Before =>
    /\ thread[t].step = STEP_ORDER[Of(t).step] /\ Ready(thread[t].run)
    /\ ~thread[t].valid

Calling(t) ==
  At(t, "call") =>
    /\ thread[t].actual = STEP_ORDER[Of(t).step] /\ thread[t].actual \notin LocalSteps
    /\ thread[t].actual = "authorize" =>
         thread[t].arg \in Nat /\ thread[t].arg = Of(t).verifier

Completion(t) ==
  thread[t].pc \in After =>
    /\ Of(t).step \in Steps /\ last[thread[t].run] = STEP_ORDER[Of(t).step]
    /\ At(t, "advance") => thread[t].step = STEP_ORDER[Of(t).step]
    /\ At(t, "hold") => Of(t).step = 11
    /\ Reached(thread[t].run, Of(t), Onwards(Of(t).step, thread[t].valid))

ThreadInOrder(t) ==
  /\ At(t, "init") => /\ active # thread[t].run /\ Ready(thread[t].run)
                      /\ run[thread[t].run].status # "error"
  /\ thread[t].pc \in Working => /\ active \in {thread[t].run, None}
                                 /\ Of(t).status # "error"
  /\ Execution(t) /\ Calling(t) /\ Completion(t)
  /\ At(t, "raise") => faults > 0 \/ active # thread[t].run

ActiveInOrder ==
  active # None =>
    /\ run[active].status # "error"
    /\ (\A t \in Thread : thread[t].pc \notin After) => Ready(active)

HistoryFine ==
  IsSequence(last) /\ DOMAIN last = DOMAIN run /\ DOMAIN run \subseteq 1..MaxRuns

Order == HistoryFine /\ ActiveInOrder /\ \A t \in Thread : ThreadInOrder(t)

-----------------------------------------------------------------------------
(* What a step finds and leaves *)

LEMMA StepNames ==
  /\ STEP_ORDER[1] = "hello" /\ STEP_ORDER[2] = "server" /\ STEP_ORDER[3] = "derive"
  /\ STEP_ORDER[4] = "finished" /\ STEP_ORDER[5] = "authorize"
  /\ STEP_ORDER[6] = "account_auth" /\ STEP_ORDER[7] = "consent"
  /\ STEP_ORDER[8] = "token_exchange" /\ STEP_ORDER[9] = "session_bind"
  /\ STEP_ORDER[10] = "resource_access" /\ STEP_ORDER[11] = "refresh_token"
BY DEF STEP_ORDER

LEMMA EachStep ==
  ASSUME NEW n \in Steps
  PROVE  n \in Nat /\ (n = 1 \/ n = 2 \/ n = 3 \/ n = 4 \/ n = 5 \/ n = 6 \/ n = 7 \/ n = 8 \/ n = 9 \/ n = 10 \/ n = 11)
BY StepPositions

LEMMA LastStep ==
  ASSUME NEW n \in Steps
  PROVE  STEP_ORDER[n] = "refresh_token" <=> n = 11
BY StepNames, EachStep

LEMMA Positions == Index("resource_access") = 10 /\ Index("authorize") = 5
<1>1. ASSUME NEW n \in Steps
      PROVE  /\ STEP_ORDER[n] = "resource_access" <=> n = 10
             /\ STEP_ORDER[n] = "authorize" <=> n = 5
  BY <1>1, StepNames, EachStep
<1>2. 10 \in Steps /\ 5 \in Steps
  BY StepPositions
<1>3. QED
  BY <1>1, <1>2 DEF Index

\* After a step the next one follows, and after the last one the two it may
\* go back to.
LEMMA NextFollows ==
  /\ \A n \in Steps : n # 1 => Follows(STEP_ORDER[n], STEP_ORDER[n - 1])
  /\ Follows(STEP_ORDER[1], "none")
  /\ Follows(STEP_ORDER[10], STEP_ORDER[11]) /\ Follows(STEP_ORDER[5], STEP_ORDER[11])
<1>1. ASSUME NEW n \in Steps, n # 1 PROVE n \in 2..Len(STEP_ORDER)
  BY <1>1, StepPositions
<1>2. QED
  BY <1>1, StepNames DEF Follows

LEMMA HeardIs ==
  ASSUME NEW S, NEW t \in Seq(S), NEW m \in Seq(S), NEW u \in Seq(S), Len(t) <= 3,
         Len(u) = (IF Len(t) + Len(m) < 3 THEN Len(t) + Len(m) ELSE 3),
         \A i \in 1..Len(t) : u[i] = t[i],
         \A i \in 1..Len(m) : Len(t) + i <= Len(u) => u[Len(t) + i] = m[i]
  PROVE  Heard(t, m) = u
<1> DEFINE all == t \o m
           n == IF Len(all) < 3 THEN Len(all) ELSE 3
<1>1. /\ all \in Seq(S) /\ Len(all) = Len(t) + Len(m) /\ Len(t) \in Nat /\ Len(m) \in Nat
      /\ \A i \in 1..Len(t) : all[i] = t[i]
      /\ \A i \in 1..Len(m) : all[Len(t) + i] = m[i]
  OBVIOUS
<1>2. Heard(t, m) = SubSeq(all, 1, n)
  BY DEF Heard
<1>3. n \in 0..Len(all) /\ n = Len(u)
  BY <1>1
<1> HIDE DEF n, all
<1>4. /\ SubSeq(all, 1, n) \in Seq(S) /\ Len(SubSeq(all, 1, n)) = n
      /\ \A i \in 1..n : SubSeq(all, 1, n)[i] = all[i]
  BY <1>1, <1>3
<1>5. ASSUME NEW i \in 1..n PROVE SubSeq(all, 1, n)[i] = u[i]
  <2>1. CASE i <= Len(t)
    BY <1>1, <1>4, <2>1
  <2>2. CASE i > Len(t)
    <3> DEFINE j == i - Len(t)
    <3>1. j \in 1..Len(m) /\ Len(t) + j = i /\ i <= Len(u)
      BY <1>1, <1>3, <2>2
    <3> HIDE DEF j
    <3>2. all[i] = m[j] /\ u[i] = m[j]
      BY <1>1, <3>1
    <3>3. QED
      BY <1>4, <3>2
  <2>3. QED
    BY <1>1, <1>3, <2>1, <2>2
<1>6. QED
  BY <1>2, <1>3, <1>4, <1>5, SeqEqual

\* The transcripts of a run as they grow.
LEMMA GrowsByOne ==
  ASSUME NEW a
  PROVE  Heard(<<>>, <<a>>) = <<a>>
<1> DEFINE S == {a}
           t == <<>>
           m == <<a>>
<1>1. /\ t \in Seq(S) /\ m \in Seq(S) /\ Len(t) = 0 /\ Len(m) = 1
  OBVIOUS
<1> HIDE DEF S, t, m
<1>2. \A i \in 1..Len(t) : m[i] = t[i]
  BY <1>1
<1>3. \A i \in 1..Len(m) : Len(t) + i <= Len(m) => m[Len(t) + i] = m[i]
  BY <1>1
<1>4. Len(t) <= 3 /\ Len(m) = (IF Len(t) + Len(m) < 3 THEN Len(t) + Len(m) ELSE 3)
  BY <1>1
<1>5. Heard(t, m) = m
  BY <1>1, <1>2, <1>3, <1>4, HeardIs
<1>6. QED
  BY <1>5 DEF t, m

LEMMA GrowsByTwo ==
  ASSUME NEW a, NEW b
  PROVE  Heard(<<>>, <<a, b>>) = <<a, b>>
<1> DEFINE S == {a, b}
           t == <<>>
           m == <<a, b>>
<1>1. /\ t \in Seq(S) /\ m \in Seq(S) /\ Len(t) = 0 /\ Len(m) = 2
  OBVIOUS
<1> HIDE DEF S, t, m
<1>2. \A i \in 1..Len(t) : m[i] = t[i]
  BY <1>1
<1>3. \A i \in 1..Len(m) : Len(t) + i <= Len(m) => m[Len(t) + i] = m[i]
  BY <1>1
<1>4. Len(t) <= 3 /\ Len(m) = (IF Len(t) + Len(m) < 3 THEN Len(t) + Len(m) ELSE 3)
  BY <1>1
<1>5. Heard(t, m) = m
  BY <1>1, <1>2, <1>3, <1>4, HeardIs
<1>6. QED
  BY <1>5 DEF t, m

LEMMA GrowsToThree ==
  ASSUME NEW a, NEW b, NEW c
  PROVE  Heard(<<a>>, <<b, c>>) = <<a, b, c>>
<1> DEFINE S == {a, b, c}
           t == <<a>>
           m == <<b, c>>
           u == <<a, b, c>>
<1>1. /\ t \in Seq(S) /\ m \in Seq(S) /\ u \in Seq(S)
      /\ Len(t) = 1 /\ Len(m) = 2 /\ Len(u) = 3
  OBVIOUS
<1>2. u[1] = t[1] /\ u[2] = m[1] /\ u[3] = m[2]
  OBVIOUS
<1> HIDE DEF S, t, m, u
<1>3. \A i \in 1..Len(t) : u[i] = t[i]
  BY <1>1, <1>2
<1>4. \A i \in 1..Len(m) : Len(t) + i <= Len(u) => u[Len(t) + i] = m[i]
  <2> SUFFICES ASSUME NEW i \in 1..2 PROVE u[1 + i] = m[i]
    BY <1>1
  <2>1. i = 1 \/ i = 2
    OBVIOUS
  <2>2. QED
    BY <1>2, <2>1
<1>5. Len(t) <= 3 /\ Len(u) = (IF Len(t) + Len(m) < 3 THEN Len(t) + Len(m) ELSE 3)
  BY <1>1
<1>6. Heard(t, m) = u
  BY <1>1, <1>3, <1>4, <1>5, HeardIs
<1>7. QED
  BY <1>6 DEF t, m, u

LEMMA GrowsNoFurther ==
  ASSUME NEW a, NEW b, NEW c, NEW d
  PROVE  Heard(<<a, b>>, <<c, d>>) = <<a, b, c>>
<1> DEFINE S == {a, b, c, d}
           t == <<a, b>>
           m == <<c, d>>
           u == <<a, b, c>>
<1>1. /\ t \in Seq(S) /\ m \in Seq(S) /\ u \in Seq(S)
      /\ Len(t) = 2 /\ Len(m) = 2 /\ Len(u) = 3
  OBVIOUS
<1>2. u[1] = t[1] /\ u[2] = t[2] /\ u[3] = m[1]
  OBVIOUS
<1> HIDE DEF S, t, m, u
<1>3. \A i \in 1..Len(t) : u[i] = t[i]
  <2> SUFFICES ASSUME NEW i \in 1..2 PROVE u[i] = t[i]
    BY <1>1
  <2>1. i = 1 \/ i = 2
    OBVIOUS
  <2>2. QED
    BY <1>2, <2>1
<1>4. \A i \in 1..Len(m) : Len(t) + i <= Len(u) => u[Len(t) + i] = m[i]
  <2> SUFFICES ASSUME NEW i \in 1..2, 2 + i <= 3 PROVE u[2 + i] = m[i]
    BY <1>1
  <2>1. i = 1
    OBVIOUS
  <2>2. QED
    BY <1>2, <2>1
<1>5. Len(t) <= 3 /\ Len(u) = (IF Len(t) + Len(m) < 3 THEN Len(t) + Len(m) ELSE 3)
  BY <1>1
<1>6. Heard(t, m) = u
  BY <1>1, <1>3, <1>4, <1>5, HeardIs
<1>7. QED
  BY <1>6 DEF t, m, u

LEMMA HelloPart ==
  ASSUME NEW S, NEW s \in Seq(S), NEW u \in Seq(S), Len(u) = 2, Len(s) >= 2,
         u[1] = s[1], u[2] = s[2]
  PROVE  T1(s) = u
<1>1. SubSeq(s, 1, 2) \in Seq(S) /\ Len(SubSeq(s, 1, 2)) = 2
  OBVIOUS
<1>2. \A i \in 1..2 : SubSeq(s, 1, 2)[i] = u[i]
  <2> SUFFICES ASSUME NEW i \in 1..2 PROVE SubSeq(s, 1, 2)[i] = u[i]
    OBVIOUS
  <2>1. SubSeq(s, 1, 2)[i] = s[i] /\ (i = 1 \/ i = 2)
    OBVIOUS
  <2>2. QED
    BY <2>1
<1>3. QED
  BY <1>1, <1>2, SeqEqual DEF T1

LEMMA HelloParts ==
  ASSUME NEW a, NEW b, NEW c
  PROVE  T1(<<a, b>>) = <<a, b>> /\ T1(<<a, b, c>>) = <<a, b>>
<1> DEFINE S == {a, b, c}
           s == <<a, b, c>>
           u == <<a, b>>
<1>1. /\ s \in Seq(S) /\ u \in Seq(S) /\ Len(s) = 3 /\ Len(u) = 2
      /\ u[1] = s[1] /\ u[2] = s[2]
  OBVIOUS
<1> HIDE DEF S, s, u
<1>2. T1(u) = u /\ T1(s) = u
  BY <1>1, HelloPart
<1>3. QED
  BY <1>2 DEF s, u

LEMMA Messages ==
  ASSUME NEW r \in 1..MaxRuns
  PROVE  None # ClientHello(r) /\ None # KeyExchange(r) /\ None # Mac(r)
BY ObtainedAssumption DEF KeyExchange, Mac, Hellos

\* Nothing of what a run holds changes but its browser, status and position.
SameProgress(s, u) ==
  /\ u.client = s.client /\ u.server = s.server /\ u.ch = s.ch /\ u.cke = s.cke
  /\ u.secret = s.secret /\ u.sf = s.sf /\ u.verifier = s.verifier /\ u.code = s.code
  /\ u.redeemed = s.redeemed /\ u.token = s.token /\ u.refresh = s.refresh
  /\ u.loops = s.loops

LEMMA StillReached ==
  ASSUME NEW r, NEW s, NEW u, SameProgress(s, u), NEW n, Reached(r, s, n)
  PROVE  Reached(r, u, n)
BY DEF SameProgress, Reached, Handshaken, LoggedIn

LEMMA FinishedChecks ==
  ASSUME NEW r, NEW s, Handshaken(r, s, 4)
  PROVE  FinishedVerifies(s)
<1>1. /\ s.client = FirstThree(r) /\ s.server = FirstThree(r)
      /\ s.cke = KeyExchange(r) /\ s.secret = Encapsulated(KeyExchange(r)) /\ s.sf = Mac(r)
  BY DEF Handshaken
<1>2. T1(FirstThree(r)) = T1(Hellos(r))
  BY HelloParts DEF FirstThree, Hellos
<1>3. Mac(r) = ServerFinished(Encapsulated(KeyExchange(r)), FirstThree(r))
  BY <1>2 DEF Mac, ServerFinished
<1>4. QED
  BY <1>1, <1>3 DEF FinishedVerifies, ServerFinishedVerifies, ClientFinishedVerifies

LEMMA HelloReaches ==
  ASSUME NEW r, NEW s, RunState(s), Reached(r, s, 1)
  PROVE  Reached(r, Hello(r, s), 2)
<1> DEFINE u == Hello(r, s)
<1>1. /\ u.ch = ClientHello(r) /\ u.client = Heard(s.client, <<ClientHello(r)>>)
      /\ u.server = s.server /\ u.loops = s.loops /\ u.verifier = s.verifier
  BY DEF Hello, RunState, RunFields
<1> HIDE DEF u
<1>2. u.client = <<ClientHello(r)>> /\ u.server = <<>>
  BY <1>1, GrowsByOne DEF Reached, Handshaken
<1>3. QED
  <2>1. Reached(r, u, 2)
    BY <1>1, <1>2 DEF Reached, Handshaken, LoggedIn
  <2>2. QED
    BY <2>1 DEF u

LEMMA ServerReaches ==
  ASSUME NEW r, NEW s, RunState(s), Reached(r, s, 2)
  PROVE  Reached(r, Server(r, s), 3)
<1> DEFINE u == Server(r, s)
<1>1. /\ u.ch = s.ch /\ u.cke = KeyExchange(r)
      /\ u.client = Heard(s.client, <<ServerHello(r), KeyExchange(r)>>)
      /\ u.server = Heard(s.server, <<s.ch, ServerHello(r)>>)
      /\ u.loops = s.loops /\ u.verifier = s.verifier
  BY DEF Server, KeyExchange, RunState, RunFields
<1> HIDE DEF u
<1>2. s.client = <<ClientHello(r)>> /\ s.server = <<>> /\ s.ch = ClientHello(r)
  BY DEF Reached, Handshaken
<1>3. u.client = FirstThree(r) /\ u.server = Hellos(r)
  BY <1>1, <1>2, GrowsToThree, GrowsByTwo DEF FirstThree, Hellos
<1>4. QED
  <2>1. Reached(r, u, 3)
    BY <1>1, <1>2, <1>3 DEF Reached, Handshaken, LoggedIn
  <2>2. QED
    BY <2>1 DEF u

LEMMA DeriveReaches ==
  ASSUME NEW r, NEW s, RunState(s), Reached(r, s, 3)
  PROVE  Reached(r, Derive(r, s), 4)
<1> DEFINE u == Derive(r, s)
           secret == Decapsulate(r, s.cke)
           sf == ServerFinished(secret, s.server)
<1>1. /\ u.ch = s.ch /\ u.cke = s.cke /\ u.client = s.client
      /\ u.server = Heard(s.server, <<s.cke, sf>>)
      /\ u.secret = secret /\ u.sf = sf
      /\ u.loops = s.loops /\ u.verifier = s.verifier
  BY DEF Derive, RunState, RunFields
<1> HIDE DEF u
<1>2. /\ s.client = FirstThree(r) /\ s.server = Hellos(r)
      /\ s.ch = ClientHello(r) /\ s.cke = KeyExchange(r)
  BY DEF Reached, Handshaken
<1>3. secret = Encapsulated(KeyExchange(r)) /\ sf = Mac(r)
  BY <1>2 DEF Encapsulated, KeyExchange, ClientKeyExchange, ServerHello, Mac
<1>4. u.server = FirstThree(r)
  BY <1>1, <1>2, GrowsNoFurther DEF FirstThree, Hellos
<1> HIDE DEF secret, sf
<1>5. QED
  <2>1. Reached(r, u, 4)
    BY <1>1, <1>2, <1>3, <1>4 DEF Reached, Handshaken, LoggedIn
  <2>2. QED
    BY <2>1 DEF u

\* A local step finds what it needs.
LEMMA LocalStepReaches ==
  ASSUME NEW r \in 1..MaxRuns, NEW s, RunState(s), NEW n \in Steps, Reached(r, s, n),
         STEP_ORDER[n] \in LocalSteps
  PROVE  /\ LocalReady(STEP_ORDER[n], s)
         /\ n # 11 /\ Reached(r, LocalDone(STEP_ORDER[n], r, s), n + 1)
<1>1. CASE n = 1
  BY <1>1, HelloReaches, StepNames DEF LocalReady, LocalDone
<1>2. CASE n = 2
  <2>1. s.ch # None
    BY <1>2, Messages DEF Reached, Handshaken
  <2>2. QED
    BY <1>2, <2>1, ServerReaches, StepNames DEF LocalReady, LocalDone
<1>3. CASE n = 3
  <2>1. s.cke # None
    BY <1>3, Messages DEF Reached, Handshaken
  <2>2. QED
    BY <1>3, <2>1, DeriveReaches, StepNames DEF LocalReady, LocalDone
<1>4. CASE n = 4
  <2>1. s.sf # None /\ FinishedVerifies(s)
    BY <1>4, Messages, FinishedChecks DEF Reached, Handshaken
  <2>2. SameProgress(s, Finish(s))
    BY DEF Finish, SameProgress, RunState, RunFields
  <2>3. Reached(r, s, 5)
    BY <1>4 DEF Reached, Handshaken, LoggedIn
  <2>4. Reached(r, Finish(s), 5)
    BY <2>2, <2>3, StillReached
  <2>5. QED
    BY <1>4, <2>1, <2>4, StepNames DEF LocalReady, LocalDone
<1>5. CASE n \in {6, 7, 9}
  <2>1. STEP_ORDER[n] \in {"account_auth", "consent", "session_bind"}
    BY <1>5, StepNames
  <2>2. LocalDone(STEP_ORDER[n], r, s) = s
    BY <2>1 DEF LocalDone
  <2>3. Reached(r, s, n + 1)
    BY <1>5 DEF Reached, Handshaken, LoggedIn
  <2>4. LocalReady(STEP_ORDER[n], s)
    BY <1>5, StepNames DEF LocalReady, Reached, LoggedIn
  <2>5. QED
    BY <1>5, <2>2, <2>3, <2>4
<1>6. CASE n \in {5, 8, 10, 11}
  BY <1>6, StepNames DEF LocalSteps
<1>7. QED
  BY <1>1, <1>2, <1>3, <1>4, <1>5, <1>6, EachStep

\* A step that calls a server finds what it needs, and the server answers it.
LEMMA CallReaches ==
  ASSUME NEW r \in 1..MaxRuns, NEW s, RunState(s), NEW n \in Steps, Reached(r, s, n),
         STEP_ORDER[n] \notin LocalSteps, NEW arg,
         n = 5 => arg \in Nat /\ arg = s.verifier
  PROVE  /\ CallReady(STEP_ORDER[n], s) /\ Accepts(STEP_ORDER[n], s)
         /\ Reached(r, Answered(STEP_ORDER[n], s, arg),
              Onwards(n, STEP_ORDER[n] = "refresh_token" /\ s.loops < max_refresh_loops))
<1> DEFINE u == Answered(STEP_ORDER[n], s, arg)
<1>1. CASE n = 5
  <2>1. /\ u.code = arg /\ u.redeemed = FALSE /\ u.client = s.client /\ u.server = s.server
        /\ u.ch = s.ch /\ u.cke = s.cke /\ u.secret = s.secret /\ u.sf = s.sf
        /\ u.verifier = s.verifier /\ u.loops = s.loops
    BY <1>1, StepNames DEF Answered, RunState, RunFields
  <2> HIDE DEF u
  <2>2. Reached(r, u, 6)
    BY <1>1, <2>1 DEF Reached, Handshaken, LoggedIn
  <2>3. QED
    BY <1>1, <2>2, StepNames DEF u, CallReady, Accepts, Onwards
<1>2. CASE n = 8
  <2>1. /\ u.token = TRUE /\ u.refresh = "live" /\ u.client = s.client /\ u.server = s.server
        /\ u.ch = s.ch /\ u.cke = s.cke /\ u.secret = s.secret /\ u.sf = s.sf
        /\ u.verifier = s.verifier /\ u.loops = s.loops
    BY <1>2, StepNames DEF Answered, RunState, RunFields
  <2> HIDE DEF u
  <2>2. Reached(r, u, 9)
    BY <1>2, <2>1 DEF Reached, Handshaken, LoggedIn
  <2>3. s.code \in Nat /\ s.code = s.verifier /\ ~s.redeemed
    BY <1>2 DEF Reached, LoggedIn
  <2>4. CallReady("token_exchange", s) /\ Accepts("token_exchange", s)
    BY <2>3, NoneAssumption DEF CallReady, Accepts
  <2>5. STEP_ORDER[n] = "token_exchange" /\ n # 11 /\ n + 1 = 9
    BY <1>2, StepNames
  <2>6. QED
    BY <2>2, <2>4, <2>5 DEF u, Onwards
<1>3. CASE n = 10
  <2>1. u = s
    BY <1>3, StepNames DEF Answered
  <2>2. Reached(r, s, 11) /\ s.token
    BY <1>3 DEF Reached, Handshaken, LoggedIn
  <2>3. QED
    BY <1>3, <2>1, <2>2, StepNames DEF CallReady, Accepts, Onwards
<1>4. CASE n = 11 /\ s.loops < max_refresh_loops
  <2>1. /\ u.loops = s.loops + 1 /\ u.token = s.token /\ u.client = s.client
        /\ u.server = s.server /\ u.verifier = s.verifier
        /\ u.ch = s.ch /\ u.cke = s.cke /\ u.secret = s.secret /\ u.sf = s.sf
    BY <1>4, StepNames DEF Answered, RunState, RunFields
  <2> HIDE DEF u
  <2>2. /\ s.loops \in Nat /\ s.loops < 1 /\ s.verifier \in Nat
        /\ s.token /\ (s.loops >= 1 \/ s.refresh = "live")
    BY <1>4 DEF Reached, LoggedIn, max_refresh_loops
  <2>3. s.refresh = "live" /\ u.loops \in Nat /\ u.loops >= 1
    BY <2>1, <2>2
  <2>4. Handshaken(r, u, 10)
    BY <1>4, <2>1 DEF Reached, Handshaken
  <2>5. LoggedIn(u, 10)
    BY <2>1, <2>2, <2>3 DEF LoggedIn, max_refresh_loops
  <2>6. STEP_ORDER[n] = "refresh_token" /\ n = 11 /\ Reached(r, u, 10)
    BY <1>4, <2>4, <2>5, StepNames DEF Reached
  <2>7. Accepts("refresh_token", s)
    BY <2>3 DEF Accepts
  <2>8. CallReady("refresh_token", s)
    BY <2>3, ObtainedAssumption DEF CallReady
  <2>9. QED
    BY <1>4, <2>6, <2>7, <2>8 DEF u, Onwards
<1>5. CASE n = 11 /\ ~(s.loops < max_refresh_loops)
  <2>1. u = s
    BY <1>5, StepNames DEF Answered
  <2>2. Reached(r, s, 5) /\ s.loops >= max_refresh_loops
    BY <1>5 DEF Reached, Handshaken, LoggedIn, max_refresh_loops
  <2>3. QED
    BY <1>5, <2>1, <2>2, StepNames DEF CallReady, Accepts, Onwards
<1>6. CASE n \in {1, 2, 3, 4, 6, 7, 9}
  BY <1>6, StepNames DEF LocalSteps
<1>7. QED
  BY <1>1, <1>2, <1>3, <1>4, <1>5, <1>6, EachStep

-----------------------------------------------------------------------------
(* What stays in order *)

LEMMA StillReady ==
  ASSUME NEW r, NEW s, NEW u, SameProgress(s, u), u.step = s.step, NEW completed,
         ReadyAfter(r, s, completed)
  PROVE  ReadyAfter(r, u, completed)
BY StillReached DEF ReadyAfter

LEMMA RunsInRange ==
  ASSUME IInv, HistoryFine, NEW r \in DOMAIN run
  PROVE  r \in 1..MaxRuns /\ r # None /\ RunState(run[r])
BY NoneAssumption DEF IInv, RunsFine, HistoryFine

\* A thread between steps, or without a run, is in order.
LEMMA BetweenSteps ==
  ASSUME NEW t \in Thread, thread'[t].pc \in {"free", "next", "complete"}
  PROVE  ThreadInOrder(t)'
BY DEF ThreadInOrder, Execution, Calling, Completion, At, Before, After, Working

\* All other threads are free while one takes a step.
LEMMA Alone ==
  ASSUME IInv, Serial, NEW t \in Thread, ThreadSteps(t)
  PROVE  /\ ~IsFree(t)
         /\ \A u \in Thread : u # t => IsFree(u) /\ thread'[u] = thread[u]
<1>1. ~IsFree(t)
  BY DEF ThreadSteps, IsFree, At, Initialized, RunNext, Started, CompleteInteractive,
     LocalStep, CallServer, ServerAnswers, CallFails, Advance, Raise, RefreshTransition
<1>2. QED
  BY <1>1, ThreadEffect DEF Serial

LEMMA OneInOrder ==
  ASSUME IInv, Serial, NEW t \in Thread, ThreadSteps(t),
         HistoryFine', ActiveInOrder', ThreadInOrder(t)'
  PROVE  Order'
<1>1. ASSUME NEW u \in Thread, u # t PROVE ThreadInOrder(u)'
  <2>1. thread'[u].pc = "free"
    BY <1>1, Alone DEF IsFree
  <2>2. QED
    BY <2>1, BetweenSteps
<1>2. QED
  BY <1>1 DEF Order

\* No thread has a step behind it that is not counted yet, if the one that takes
\* a step has not.
LEMMA ReadyNow ==
  ASSUME IInv, Order, Serial, NEW t \in Thread, ThreadSteps(t), thread[t].pc \notin After,
         active # None
  PROVE  active \in DOMAIN run /\ Ready(active) /\ run[active].status # "error"
<1>1. \A u \in Thread : thread[u].pc \notin After
  BY Alone DEF IsFree, After
<1>2. QED
  BY <1>1 DEF Order, ActiveInOrder, IInv, GlobalsFine

LEMMA HistoryKept ==
  ASSUME HistoryFine, last' = last, DOMAIN run' = DOMAIN run
  PROVE  HistoryFine'
BY DEF HistoryFine

LEMMA HistoryWritten ==
  ASSUME HistoryFine, NEW r \in DOMAIN run, NEW step, last' = [last EXCEPT ![r] = step],
         DOMAIN run' = DOMAIN run
  PROVE  HistoryFine' /\ last'[r] = step
<1>1. PICK S : last \in Seq(S)
  BY DEF HistoryFine, IsSequence
<1> DEFINE U == S \cup {step}
<1>2. last \in Seq(U) /\ step \in U /\ r \in DOMAIN last
  BY <1>1 DEF HistoryFine
<1> HIDE DEF U
<1>3. last' \in Seq(U) /\ DOMAIN last' = DOMAIN last /\ last'[r] = step
  BY <1>2
<1>4. QED
  BY <1>3 DEF HistoryFine, IsSequence

-----------------------------------------------------------------------------
(* Events *)

\* An event that leaves the threads alone.
LEMMA QuietEvent ==
  ASSUME IInv, Order, NEW b \in Browser, run' = run \/ run' = TakenOver(b),
         active' \in {active, None}, UNCHANGED <<thread, faults, last>>
  PROVE  Order'
<1>1. DOMAIN run' = DOMAIN run
  BY DEF TakenOver
<1>2. ASSUME NEW r \in DOMAIN run
      PROVE  /\ SameProgress(run[r], run'[r]) /\ run'[r].step = run[r].step
             /\ run'[r].status = run[r].status
  <2>1. RunState(run[r])
    BY DEF IInv, RunsFine
  <2>2. run'[r] = run[r] \/ run'[r] = [run[r] EXCEPT !.client_sid = b]
    BY DEF TakenOver
  <2>3. QED
    BY <2>1, <2>2 DEF SameProgress, RunState, RunFields
<1>3. ASSUME NEW r \in DOMAIN run PROVE ReadyAfter(r, run[r], last[r]) => ReadyAfter(r, run'[r], last'[r])
  BY <1>2, StillReady
<1>4. ASSUME NEW r \in DOMAIN run, NEW n, Reached(r, run[r], n) PROVE Reached(r, run'[r], n)
  BY <1>2, <1>4, StillReached
<1>5. HistoryFine'
  BY <1>1, HistoryKept DEF Order
<1>6. ActiveInOrder'
  BY <1>2, <1>3 DEF Order, ActiveInOrder, Ready, IInv, GlobalsFine
<1>7. ASSUME NEW t \in Thread PROVE ThreadInOrder(t)'
  <2>1. CASE thread[t].pc \notin Working \cup {"init"}
    <3>1. thread'[t].pc \in {"free", "next", "complete"}
      BY <2>1 DEF IInv, ThreadsFine, ThreadState, PC, Working
    <3>2. QED
      BY <3>1, BetweenSteps
  <2>2. CASE thread[t].pc \in Working \cup {"init"}
    <3>1. thread[t].run \in DOMAIN run /\ thread[t].run # None
      BY <2>2, OfRun, RunsInRange DEF Order
    <3>2. ThreadInOrder(t)
      BY DEF Order
    <3>3. /\ Of(t)'.step = Of(t).step /\ Of(t)'.status = Of(t).status
          /\ Of(t)'.verifier = Of(t).verifier
      BY <1>2, <3>1 DEF Of, SameProgress
    <3>4. LET r == thread[t].run
          IN  ReadyAfter(r, run[r], last[r]) => ReadyAfter(r, run'[r], last'[r])
      BY <1>3, <3>1
    <3>5. \A n : Reached(thread[t].run, Of(t), n) => Reached(thread'[t].run, Of(t)', n)
      BY <1>4, <3>1 DEF Of
    <3>6. thread' = thread /\ last' = last /\ faults' = faults
      OBVIOUS
    <3>7. Execution(t)'
      BY <3>2, <3>3, <3>4, <3>6 DEF ThreadInOrder, Execution, Ready
    <3>8. Calling(t)'
      BY <3>2, <3>3, <3>6 DEF ThreadInOrder, Calling, At
    <3>9. Completion(t)'
      BY <3>2, <3>3, <3>5, <3>6 DEF ThreadInOrder, Completion, At
    <3>10. At(t, "init") => (active # thread[t].run /\ Ready(thread[t].run)
                             /\ run[thread[t].run].status # "error")'
      BY <1>2, <3>1, <3>2, <3>4, <3>6 DEF ThreadInOrder, Ready, At
    <3>11. thread[t].pc \in Working => (active \in {thread[t].run, None} /\ Of(t).status # "error")'
      BY <3>1, <3>2, <3>3, <3>6 DEF ThreadInOrder
    <3>12. At(t, "raise") => (faults > 0 \/ active # thread[t].run)'
      BY <3>1, <3>2, <3>6 DEF ThreadInOrder
    <3>13. QED
      BY <3>6, <3>7, <3>8, <3>9, <3>10, <3>11, <3>12 DEF ThreadInOrder, At
  <2>3. QED
    BY <2>1, <2>2
<1>8. QED
  BY <1>5, <1>6, <1>7 DEF Order

\* A thread that gets something to do was free, and so are the others.
LEMMA AllFree ==
  ASSUME IInv, Serial, Serial', NEW t \in Thread, IsFree(t), NEW h, h.pc # "free",
         thread' = [thread EXCEPT ![t] = h]
  PROVE  /\ thread'[t] = h
         /\ \A u \in Thread : IsFree(u) /\ thread[u].pc \notin After
         /\ \A u \in Thread : u # t => thread'[u].pc = "free"
<1>1. thread'[t] = h /\ \A u \in Thread : u # t => thread'[u] = thread[u]
  BY DEF IInv, ThreadsFine
<1>2. ASSUME NEW u \in Thread, u # t PROVE IsFree(u) /\ thread'[u].pc = "free"
  BY <1>1, <1>2 DEF Serial, IsFree
<1>3. QED
  BY <1>1, <1>2 DEF IsFree, After

LEMMA SameLength ==
  ASSUME NEW m \in Nat, NEW n \in Nat, 1..m = 1..n
  PROVE  m = n
<1>1. m \in 1..m \/ m = 0
  OBVIOUS
<1>2. n \in 1..n \/ n = 0
  OBVIOUS
<1>3. m <= n
  BY <1>1
<1>4. n <= m
  BY <1>2
<1>5. QED
  BY <1>3, <1>4

\* A new run has everything before it.
LEMMA NewRunReady ==
  ASSUME NEW r, NEW b, NEW auto
  PROVE  /\ ReadyAfter(r, NewRun(b, auto), "none")
         /\ NewRun(b, auto).status # "error"
<1> DEFINE s == NewRun(b, auto)
<1>1. /\ s.step = 1 /\ s.client = <<>> /\ s.server = <<>> /\ s.loops = 0 /\ s.verifier = 0
      /\ s.status = "running"
  BY DEF NewRun
<1> HIDE DEF s
<1>2. Reached(r, s, 1)
  BY <1>1 DEF Reached, Handshaken, LoggedIn
<1>3. s.step \in Steps /\ Follows(STEP_ORDER[s.step], "none")
  BY <1>1, StepPositions, NextFollows
<1>4. ReadyAfter(r, s, "none") /\ s.status # "error"
  BY <1>1, <1>2, <1>3 DEF ReadyAfter
<1>5. QED
  BY <1>4 DEF s

LEMMA StartInOrder ==
  ASSUME IInv, Order, Serial, Serial', NEW b \in Browser, NEW t \in Thread, NEW auto \in BOOLEAN,
         OnStart(b, t, auto)
  PROVE  Order'
<1> DEFINE r == Len(run) + 1
           s == NewRun(b, auto)
           h == [Free EXCEPT !.pc = "init", !.run = r]
<1>1. /\ run' = Append(run, s) /\ last' = Append(last, "none")
      /\ thread' = [thread EXCEPT ![t] = h]
      /\ IsFree(t) /\ Len(run) < MaxRuns
      /\ UNCHANGED <<active, faults>>
  BY DEF OnStart, Browsers
<1>2. h.pc = "init" /\ h.run = r /\ h.pc # "free"
  BY DEF Free
<1>3. ReadyAfter(r, s, "none") /\ s.status # "error"
  BY NewRunReady
<1> HIDE DEF s, h
<1>4. PICK S : run \in Seq(S)
  BY DEF IInv, RunsFine, IsSequence
<1>5. PICK L : last \in Seq(L)
  BY DEF Order, HistoryFine, IsSequence
<1>6. Len(last) = Len(run)
  <2>1. DOMAIN last = 1..Len(last) /\ DOMAIN run = 1..Len(run) /\ Len(last) \in Nat
        /\ Len(run) \in Nat /\ DOMAIN last = DOMAIN run
    BY <1>4, <1>5 DEF Order, HistoryFine
  <2>2. QED
    BY <2>1, SameLength
<1> DEFINE U == S \cup {s}
           M == L \cup {"none"}
<1>7. run \in Seq(U) /\ s \in U /\ last \in Seq(M) /\ "none" \in M
  BY <1>4, <1>5
<1> HIDE DEF U, M
<1>8. /\ DOMAIN run' = 1..r /\ r \in Nat /\ r # 0 /\ run'[r] = s /\ r \notin DOMAIN run
      /\ \A q \in DOMAIN run : run'[q] = run[q]
  BY <1>1, <1>7
<1>9. /\ last' \in Seq(M) /\ DOMAIN last' = 1..r /\ last'[r] = "none"
      /\ \A q \in DOMAIN run : last'[q] = last[q]
  BY <1>1, <1>6, <1>7
<1>10. r \in 1..MaxRuns /\ 1..r \subseteq 1..MaxRuns
  BY <1>1, <1>7, <1>8, StepFlowAssumption
<1> HIDE DEF r
<1>11. HistoryFine'
  BY <1>8, <1>9, <1>10 DEF HistoryFine, IsSequence
<1>12. /\ thread'[t] = h /\ \A u \in Thread : thread[u].pc \notin After
       /\ \A u \in Thread : u # t => thread'[u].pc = "free"
  BY <1>1, <1>2, AllFree
<1>13. ActiveInOrder'
  <2>1. CASE active = None
    BY <1>1, <2>1 DEF ActiveInOrder
  <2>2. CASE active # None
    <3>1. active \in DOMAIN run /\ run[active].status # "error" /\ Ready(active)
      BY <1>12, <2>2 DEF Order, ActiveInOrder, IInv, GlobalsFine
    <3>2. active' = active /\ run'[active] = run[active] /\ last'[active] = last[active]
      BY <1>1, <1>8, <1>9, <3>1
    <3>3. QED
      BY <3>1, <3>2 DEF ActiveInOrder, Ready
  <2>3. QED
    BY <2>1, <2>2
<1>14. ThreadInOrder(t)'
  <2>1. active' # r /\ run'[r].status # "error" /\ ReadyAfter(r, run'[r], last'[r])
    BY <1>1, <1>3, <1>8, <1>9, NoneAssumption DEF IInv, GlobalsFine
  <2>2. thread'[t].run = r /\ thread'[t].pc = "init"
    BY <1>2, <1>12
  <2>3. QED
    BY <2>1, <2>2 DEF ThreadInOrder, Ready, Execution, Calling, Completion, At, Before, After,
       Working
<1>15. ASSUME NEW u \in Thread, u # t PROVE ThreadInOrder(u)'
  BY <1>12, <1>15, BetweenSteps
<1>16. QED
  BY <1>11, <1>13, <1>14, <1>15 DEF Order

LEMMA ContinueInOrder ==
  ASSUME IInv, Order, Serial, Serial', NEW b \in Browser, NEW t \in Thread, NEW id,
         OnContinue(b, t, id)
  PROVE  Order'
<1>1. run' = TakenOver(b) /\ IsFree(t) /\ UNCHANGED <<active, faults, last>>
  BY DEF OnContinue
<1>2. CASE thread' = thread
  BY <1>1, <1>2, QuietEvent
<1>3. CASE thread' # thread
  <2>1. PICK pc \in {"complete", "next"} : thread' = [thread EXCEPT ![t].pc = pc]
    BY <1>3 DEF OnContinue
  <2> DEFINE h == [thread[t] EXCEPT !.pc = pc]
  <2>2. h.pc = pc /\ h.pc # "free" /\ thread' = [thread EXCEPT ![t] = h]
    BY <2>1 DEF IInv, ThreadsFine, ThreadState, ThreadFields
  <2> HIDE DEF h
  <2>3. /\ thread'[t] = h /\ \A u \in Thread : thread[u].pc \notin After
        /\ \A u \in Thread : u # t => thread'[u].pc = "free"
    BY <1>1, <2>2, AllFree
  <2>4. \A u \in Thread : ThreadInOrder(u)'
    BY <2>2, <2>3, BetweenSteps
  <2>5. HistoryFine'
    BY <1>1, HistoryKept DEF Order, TakenOver
  <2>6. ActiveInOrder'
    <3>1. CASE active = None
      BY <1>1, <3>1 DEF ActiveInOrder
    <3>2. CASE active # None
      <4> DEFINE s == run[active]
                 u == [run[active] EXCEPT !.client_sid = b]
      <4>1. active \in DOMAIN run /\ s.status # "error" /\ Ready(active) /\ RunState(s)
        BY <2>3, <3>2 DEF Order, ActiveInOrder, IInv, GlobalsFine, RunsFine
      <4>2. run'[active] = u /\ active' = active /\ last' = last
        BY <1>1, <3>2, <4>1 DEF TakenOver
      <4>3. SameProgress(s, u) /\ u.step = s.step /\ u.status = s.status
        BY <4>1 DEF SameProgress, RunState, RunFields
      <4> HIDE DEF u
      <4>4. ReadyAfter(active, u, last[active])
        BY <4>1, <4>3, StillReady DEF Ready
      <4>5. QED
        BY <4>1, <4>2, <4>3, <4>4 DEF ActiveInOrder, Ready
    <3>3. QED
      BY <3>1, <3>2
  <2>7. QED
    BY <2>4, <2>5, <2>6 DEF Order
<1>4. QED
  BY <1>2, <1>3

LEMMA EventsInOrder ==
  ASSUME IInv, Order, Serial, Serial', NEW b \in Browser, Events(b)
  PROVE  Order'
<1>1. ASSUME OnConnect(b) \/ OnGetState(b) \/ OnDisconnect(b)
             \/ \E id \in DOMAIN run \cup {None} : OnReset(b, id)
      PROVE  Order'
  <2>1. /\ run' = run \/ run' = TakenOver(b)
        /\ active' \in {active, None} /\ UNCHANGED <<thread, faults, last>>
    BY <1>1 DEF OnConnect, OnGetState, OnDisconnect, OnReset, ResetActive, Browsers
  <2>2. QED
    BY <2>1, QuietEvent
<1>2. QED
  BY <1>1, StartInOrder, ContinueInOrder DEF Events

-----------------------------------------------------------------------------
(* The steps of a thread *)

\* A thread at work holds the active run, or one that has been reset.
LEMMA AtWork ==
  ASSUME IInv, Order, NEW t \in Thread, thread[t].pc \in Working
  PROVE  /\ thread[t].run \in DOMAIN run /\ thread[t].run \in 1..MaxRuns /\ thread[t].run # None
         /\ Of(t) = run[thread[t].run] /\ RunState(Of(t)) /\ Of(t).status # "error"
         /\ active \in {thread[t].run, None}
         /\ Execution(t) /\ Calling(t) /\ Completion(t)
         /\ DOMAIN thread[t] = ThreadFields
BY OfRun, RunsInRange DEF Order, ThreadInOrder

\* A thread that ends, or goes on to the next step, leaves a run that is ready.
LEMMA LeavesReady ==
  ASSUME NEW t \in Thread, thread'[t].pc \in {"free", "next", "complete"},
         active' # None => Ready(active)' /\ run'[active'].status # "error"
  PROVE  ActiveInOrder' /\ ThreadInOrder(t)'
<1>1. ActiveInOrder'
  BY DEF ActiveInOrder
<1>2. QED
  BY <1>1, BetweenSteps

LEMMA InitializedInOrder ==
  ASSUME IInv, Order, Serial, NEW t \in Thread, Initialized(t)
  PROVE  Order'
<1>1. /\ active' = thread[t].run /\ run' = run /\ last' = last
      /\ thread' = [thread EXCEPT ![t].pc = "next"] /\ thread[t].pc = "init"
  BY DEF Initialized, Goto, At
<1>2. thread[t].run \in DOMAIN run /\ Ready(thread[t].run) /\ run[thread[t].run].status # "error"
  BY <1>1, OfRun DEF Order, ThreadInOrder, At
<1>3. thread'[t].pc = "next"
  BY <1>1 DEF IInv, ThreadsFine, ThreadState, ThreadFields
<1>4. Ready(active)' /\ run'[active'].status # "error"
  BY <1>1, <1>2 DEF Ready
<1>5. HistoryFine'
  BY <1>1, HistoryKept DEF Order
<1>6. QED
  BY <1>3, <1>4, <1>5, LeavesReady, OneInOrder DEF ThreadSteps

\* A thread that ends and changes nothing else.
LEMMA EndsInOrder ==
  ASSUME IInv, Order, Serial, NEW t \in Thread, ThreadSteps(t), thread[t].pc \notin After,
         Ends(t), UNCHANGED <<active, run, last>>
  PROVE  Order'
<1>1. thread'[t].pc = "free"
  BY DEF Ends, Free, IInv, ThreadsFine
<1>2. active' # None => Ready(active)' /\ run'[active'].status # "error"
  BY ReadyNow DEF Ready
<1>3. HistoryFine'
  BY HistoryKept DEF Order
<1>4. QED
  BY <1>1, <1>2, <1>3, LeavesReady, OneInOrder

\* A thread that takes up the active run, at the step it is ready for.
LEMMA TakesUpInOrder ==
  ASSUME IInv, Order, Serial, NEW t \in Thread, ThreadSteps(t),
         active # None, ReadyAfter(active, run[active], last[active]),
         ReadyAfter(active, run'[active], last[active]),
         run'[active].step = run[active].step, run'[active].status # "error",
         NEW pc \in {"started", "execute"},
         thread' = [thread EXCEPT ![t] = [Free EXCEPT !.pc = pc, !.run = active,
                                            !.step = STEP_ORDER[run[active].step]]],
         UNCHANGED <<active, last>>, DOMAIN run' = DOMAIN run
  PROVE  Order'
<1>1. /\ thread'[t].pc = pc /\ thread'[t].run = active /\ thread'[t].valid = FALSE
      /\ thread'[t].step = STEP_ORDER[run[active].step]
  BY DEF Free, IInv, ThreadsFine
<1>2. HistoryFine'
  BY HistoryKept DEF Order
<1>3. Of(t)' = run'[active]
  BY <1>1 DEF Of
<1>4. Execution(t)'
  BY <1>1, <1>3 DEF Execution, Ready
<1>5. ThreadInOrder(t)'
  BY <1>1, <1>3, <1>4 DEF ThreadInOrder, Calling, Completion, At, After
<1>6. ActiveInOrder'
  BY DEF ActiveInOrder, Ready
<1>7. QED
  BY <1>2, <1>5, <1>6, OneInOrder

LEMMA RunNextInOrder ==
  ASSUME IInv, Order, Serial, NEW t \in Thread, RunNext(t)
  PROVE  Order'
<1>1. ThreadSteps(t) /\ thread[t].pc = "next" /\ UNCHANGED <<active, last>>
  BY DEF ThreadSteps, RunNext, At
<1>2. CASE active = None
  <2>1. Ends(t) /\ run' = run
    BY <1>2 DEF RunNext, Driven
  <2>2. QED
    BY <1>1, <2>1, EndsInOrder DEF After
<1>3. CASE active # None
  <2> DEFINE u == [run[active] EXCEPT !.status = "running"]
  <2>1. active \in DOMAIN run /\ Ready(active) /\ RunState(run[active])
    BY <1>1, <1>3, ReadyNow DEF After, IInv, RunsFine
  <2>2. run[active].step \in Steps
    BY <2>1 DEF Ready, ReadyAfter
  <2>3. /\ run' = [run EXCEPT ![active].status = "running"]
        /\ thread' = [thread EXCEPT ![t] = [Free EXCEPT
                        !.pc = "started", !.run = active, !.step = STEP_ORDER[run[active].step]]]
    BY <1>3, <2>2 DEF RunNext, Driven
  <2>4. run'[active] = u /\ DOMAIN run' = DOMAIN run
    BY <2>1, <2>3
  <2>5. SameProgress(run[active], u) /\ u.step = run[active].step /\ u.status = "running"
    BY <2>1 DEF SameProgress, RunState, RunFields
  <2> HIDE DEF u
  <2>6. /\ ReadyAfter(active, run[active], last[active])
        /\ ReadyAfter(active, run'[active], last[active])
    BY <2>1, <2>4, <2>5, StillReady DEF Ready
  <2>7. run'[active].step = run[active].step /\ run'[active].status # "error"
    BY <2>4, <2>5
  <2>8. QED
    BY <1>1, <1>3, <2>3, <2>4, <2>6, <2>7, TakesUpInOrder
<1>4. QED
  BY <1>2, <1>3

LEMMA CompleteInteractiveInOrder ==
  ASSUME IInv, Order, Serial, NEW t \in Thread, CompleteInteractive(t)
  PROVE  Order'
<1>1. ThreadSteps(t) /\ thread[t].pc = "complete" /\ UNCHANGED <<active, run, last>>
  BY DEF ThreadSteps, CompleteInteractive, At
<1>2. CASE active # None /\ run[active].step \in Steps
  <2>1. Ready(active) /\ run[active].status # "error"
    BY <1>1, <1>2, ReadyNow DEF After
  <2>2. thread' = [thread EXCEPT ![t] = [Free EXCEPT
                     !.pc = "execute", !.run = active, !.step = STEP_ORDER[run[active].step]]]
    BY <1>2 DEF CompleteInteractive
  <2>3. /\ ReadyAfter(active, run[active], last[active])
        /\ run'[active] = run[active] /\ DOMAIN run' = DOMAIN run
    BY <1>1, <2>1 DEF Ready
  <2>4. QED
    BY <1>1, <1>2, <2>1, <2>2, <2>3, TakesUpInOrder
<1>3. CASE ~(active # None /\ run[active].step \in Steps)
  <2>1. Ends(t)
    BY <1>3 DEF CompleteInteractive
  <2>2. QED
    BY <1>1, <2>1, EndsInOrder DEF After
<1>4. QED
  BY <1>2, <1>3

LEMMA StartedInOrder ==
  ASSUME IInv, Order, Serial, NEW t \in Thread, Started(t)
  PROVE  Order'
<1> DEFINE r == thread[t].run
           u == [run[r] EXCEPT !.status = "paused"]
<1>1. ThreadSteps(t) /\ thread[t].pc = "started" /\ UNCHANGED <<active, last>>
  BY DEF ThreadSteps, Started, At
<1>2. /\ r \in DOMAIN run /\ Of(t) = run[r] /\ RunState(run[r]) /\ run[r].status # "error"
      /\ active \in {r, None} /\ Execution(t) /\ DOMAIN thread[t] = ThreadFields
  BY <1>1, AtWork DEF Working
<1>3. /\ thread[t].step = STEP_ORDER[run[r].step] /\ ReadyAfter(r, run[r], last[r])
      /\ ~thread[t].valid
  BY <1>1, <1>2 DEF Execution, Before, Ready
<1>4. CASE AwaitsUser(Of(t), thread[t].step)
  <2>1. run' = [run EXCEPT ![r].status = "paused"] /\ Ends(t)
    BY <1>4 DEF Started
  <2>2. run'[r] = u /\ DOMAIN run' = DOMAIN run
    BY <1>2, <2>1
  <2>3. SameProgress(run[r], u) /\ u.step = run[r].step /\ u.status = "paused"
    BY <1>2 DEF SameProgress, RunState, RunFields
  <2> HIDE DEF u, r
  <2>4. ReadyAfter(r, u, last[r])
    BY <1>3, <2>3, StillReady
  <2>5. active' # None => Ready(active)' /\ run'[active'].status # "error"
    BY <1>1, <1>2, <2>2, <2>3, <2>4 DEF Ready
  <2>6. thread'[t].pc = "free"
    BY <2>1 DEF Ends, Free, IInv, ThreadsFine
  <2>7. HistoryFine'
    BY <1>1, <2>2, HistoryKept DEF Order
  <2>8. QED
    BY <1>1, <2>5, <2>6, <2>7, LeavesReady, OneInOrder
<1>5. CASE ~AwaitsUser(Of(t), thread[t].step)
  <2>1. run' = run /\ thread' = [thread EXCEPT ![t].pc = "execute"]
    BY <1>5 DEF Started, Goto
  <2>2. /\ thread'[t].pc = "execute" /\ thread'[t].run = r
        /\ thread'[t].step = thread[t].step /\ thread'[t].valid = thread[t].valid
    BY <1>2, <2>1 DEF IInv, ThreadsFine, ThreadFields
  <2> HIDE DEF u, r
  <2>3. Of(t)' = run[r]
    BY <2>1, <2>2 DEF Of
  <2>4. ThreadInOrder(t)'
    BY <1>1, <1>2, <1>3, <2>1, <2>2, <2>3
    DEF ThreadInOrder, Execution, Calling, Completion, Ready, At, After
  <2>5. ActiveInOrder'
    BY <1>1, <1>2, <1>3, <2>1 DEF ActiveInOrder, Ready
  <2>6. HistoryFine'
    BY <1>1, <2>1, HistoryKept DEF Order
  <2>7. QED
    BY <1>1, <2>4, <2>5, <2>6, OneInOrder
<1>6. QED
  BY <1>4, <1>5

\* What the thread's run was, is known from its position.
LEMMA PositionKept ==
  ASSUME NEW s, RunState(s), NEW r, NEW step, NEW arg
  PROVE  /\ LocalDone(step, r, s).step = s.step /\ LocalDone(step, r, s).status = s.status
         /\ Answered(step, s, arg).step = s.step /\ Answered(step, s, arg).status = s.status
<1>1. DOMAIN s = RunFields
  BY DEF RunState
<1>2. /\ Hello(r, s).step = s.step /\ Hello(r, s).status = s.status
      /\ Server(r, s).step = s.step /\ Server(r, s).status = s.status
      /\ Derive(r, s).step = s.step /\ Derive(r, s).status = s.status
      /\ Finish(s).step = s.step /\ Finish(s).status = s.status
  BY <1>1 DEF Hello, Server, Derive, Finish, RunFields
<1>3. LocalDone(step, r, s) \in {Hello(r, s), Server(r, s), Derive(r, s), Finish(s), s}
  BY DEF LocalDone
<1>4. LocalDone(step, r, s).step = s.step /\ LocalDone(step, r, s).status = s.status
  BY <1>2, <1>3
<1>5. Answered(step, s, arg).step = s.step /\ Answered(step, s, arg).status = s.status
  <2>1. CASE step = "authorize"
    BY <1>1, <2>1 DEF Answered, RunFields
  <2>2. CASE step = "token_exchange"
    BY <1>1, <2>2 DEF Answered, RunFields
  <2>3. CASE step = "refresh_token" /\ s.loops < max_refresh_loops
    BY <1>1, <2>3 DEF Answered, RunFields
  <2>4. CASE step \notin {"authorize", "token_exchange"}
             /\ ~(step = "refresh_token" /\ s.loops < max_refresh_loops)
    BY <2>4 DEF Answered
  <2>5. QED
    BY <2>1, <2>2, <2>3, <2>4
<1>6. QED
  BY <1>4, <1>5

\* A step is completed.
LEMMA CompletedInOrder ==
  ASSUME IInv, Order, Serial, NEW t \in Thread, ThreadSteps(t), thread[t].pc \in Working,
         NEW u, NEW step, NEW h,
         run' = [run EXCEPT ![thread[t].run] = u],
         last' = [last EXCEPT ![thread[t].run] = step],
         thread' = [thread EXCEPT ![t] = h], active' = active,
         h.pc = "advance", h.run = thread[t].run, h.step = step, step = STEP_ORDER[u.step],
         u.step \in Steps, u.status # "error", Reached(h.run, u, Onwards(u.step, h.valid))
  PROVE  Order'
<1> DEFINE r == thread[t].run
<1>1. r \in DOMAIN run /\ active \in {r, None}
  BY AtWork
<1>2. DOMAIN run' = DOMAIN run /\ run'[r] = u
  BY <1>1
<1>3. HistoryFine' /\ last'[r] = step
  BY <1>1, <1>2, HistoryWritten DEF Order
<1>4. thread'[t] = h
  BY DEF IInv, ThreadsFine
<1> HIDE DEF r
<1>5. thread'[t].run = r /\ thread'[t].pc = "advance" /\ thread'[t].step = step
  BY <1>4 DEF r
<1>6. Of(t)' = u
  BY <1>2, <1>5 DEF Of
<1>7. Completion(t)'
  BY <1>2, <1>3, <1>4, <1>5, <1>6 DEF Completion, At
<1>8. ThreadInOrder(t)'
  BY <1>1, <1>5, <1>6, <1>7 DEF ThreadInOrder, Execution, Calling, At, Before
<1>9. ActiveInOrder'
  <2>1. thread'[t].pc \in After
    BY <1>5 DEF After
  <2>2. active' # None => run'[active'].status # "error"
    BY <1>1, <1>2
  <2>3. QED
    BY <2>1, <2>2 DEF ActiveInOrder
<1>10. QED
  BY <1>3, <1>8, <1>9, OneInOrder

\* A step fails, for a reason of its own.
LEMMA FailedInOrder ==
  ASSUME IInv, Order, Serial, NEW t \in Thread, ThreadSteps(t), thread[t].pc \in {"execute", "call"},
         Goto(t, "raise"), UNCHANGED <<run, last, active>>,
         faults' > 0 \/ active # thread[t].run
  PROVE  Order'
<1> DEFINE r == thread[t].run
<1>1. /\ r \in DOMAIN run /\ active \in {r, None} /\ DOMAIN thread[t] = ThreadFields
      /\ Execution(t) /\ run[r].status # "error"
  BY AtWork DEF Working
<1>2. thread'[t].pc = "raise" /\ thread'[t].run = r
  BY <1>1 DEF Goto, IInv, ThreadsFine, ThreadFields
<1>3. Ready(r)
  BY <1>1 DEF Execution, Before
<1>4. HistoryFine'
  BY HistoryKept DEF Order
<1>5. ActiveInOrder'
  BY <1>1, <1>3 DEF ActiveInOrder, Ready
<1>6. Of(t)' = run[r]
  BY <1>2 DEF Of
<1> HIDE DEF r
<1>7. active' \in {thread'[t].run, None} /\ Of(t)'.status # "error"
  BY <1>1, <1>2, <1>6
<1>8. faults' > 0 \/ active' # thread'[t].run
  BY <1>2 DEF r
<1>9. ThreadInOrder(t)'
  BY <1>2, <1>7, <1>8 DEF ThreadInOrder, Execution, Calling, Completion, At, Before, After
<1>10. QED
  BY <1>4, <1>5, <1>9, OneInOrder

\* What a thread finds that is about to execute its step.
LEMMA AboutToExecute ==
  ASSUME IInv, Order, NEW t \in Thread, thread[t].pc \in {"execute", "call"}
  PROVE  LET r == thread[t].run
             n == Of(t).step
         IN  /\ n \in Steps /\ Reached(r, Of(t), n) /\ Follows(STEP_ORDER[n], last[r])
             /\ thread[t].step = STEP_ORDER[n] /\ ~thread[t].valid
             /\ r \in 1..MaxRuns /\ RunState(Of(t)) /\ Of(t) = run[r] /\ r \in DOMAIN run
             /\ Of(t).status # "error" /\ DOMAIN thread[t] = ThreadFields
<1>1. thread[t].pc \in Working /\ thread[t].pc \in Before
  BY DEF Working, Before
<1>2. QED
  BY <1>1, AtWork DEF Execution, Ready, ReadyAfter

LEMMA LocalStepInOrder ==
  ASSUME IInv, Order, Serial, NEW t \in Thread, LocalStep(t)
  PROVE  Order' /\ thread'[t].actual = STEP_ORDER[Of(t).step]
<1> DEFINE r == thread[t].run
           n == Of(t).step
           step == STEP_ORDER[n]
           u == LocalDone(step, r, Of(t))
           h == [thread[t] EXCEPT !.pc = "advance", !.actual = step]
<1>1. /\ ThreadSteps(t) /\ thread[t].pc = "execute" /\ active' = active
      /\ step \in LocalSteps
  BY DEF ThreadSteps, LocalStep, At
<1>2. /\ n \in Steps /\ Reached(r, Of(t), n) /\ thread[t].step = step
      /\ r \in 1..MaxRuns /\ RunState(Of(t)) /\ Of(t).status # "error"
      /\ DOMAIN thread[t] = ThreadFields
  BY <1>1, AboutToExecute
<1>3. LocalReady(step, Of(t)) /\ n # 11 /\ Reached(r, u, n + 1)
  BY <1>1, <1>2, LocalStepReaches
<1>4. u.step = n /\ u.status = Of(t).status
  BY <1>2, PositionKept
<1>5. /\ run' = [run EXCEPT ![r] = u] /\ thread' = [thread EXCEPT ![t] = h]
      /\ thread'[t] = h /\ h.actual = step
  BY <1>2, <1>3 DEF LocalStep, Completed, IInv, ThreadsFine, ThreadFields
<1>6. last' = [last EXCEPT ![r] = step]
  BY <1>2, <1>3, <1>5 DEF LocalStep, Completed
<1>7. h.pc = "advance" /\ h.run = r /\ h.step = step
  BY <1>2 DEF ThreadFields
<1> HIDE DEF u, h
<1>8. Reached(h.run, u, Onwards(u.step, h.valid))
  BY <1>3, <1>4, <1>7 DEF Onwards
<1>9. u.step \in Steps /\ step = STEP_ORDER[u.step] /\ u.status # "error"
  BY <1>2, <1>4
<1>10. thread[t].pc \in Working
  BY <1>1 DEF Working
<1> HIDE DEF n, step
<1>11. Order'
  BY <1>1, <1>5, <1>6, <1>7, <1>8, <1>9, <1>10, CompletedInOrder
<1>12. QED
  BY <1>5, <1>11 DEF step, n

LEMMA CallServerInOrder ==
  ASSUME IInv, Order, Serial, NEW t \in Thread, CallServer(t)
  PROVE  Order'
<1> DEFINE r == thread[t].run
           n == Of(t).step
           step == STEP_ORDER[n]
           v == NextVerifier(Of(t).verifier)
           u == IF step = "authorize" THEN [run[r] EXCEPT !.verifier = v] ELSE run[r]
           h == [thread[t] EXCEPT !.pc = "call", !.actual = step,
                                  !.arg = IF step = "authorize" THEN v ELSE @]
<1>1. ThreadSteps(t) /\ thread[t].pc = "execute" /\ UNCHANGED <<active, last>>
  BY DEF ThreadSteps, CallServer, At
<1>2. /\ n \in Steps /\ Reached(r, Of(t), n) /\ thread[t].step = step /\ ~thread[t].valid
      /\ r \in 1..MaxRuns /\ RunState(Of(t)) /\ Of(t).status # "error" /\ Of(t) = run[r]
      /\ Follows(step, last[r]) /\ DOMAIN thread[t] = ThreadFields /\ r \in DOMAIN run
  BY <1>1, AboutToExecute
<1>3. active \in {r, None}
  BY <1>1, AtWork DEF Working
<1>4. step \notin LocalSteps
  BY <1>2 DEF CallServer
<1>5. CallReady(step, Of(t))
  <2> DEFINE arg == Of(t).verifier
  <2>1. n = 5 => arg \in Nat /\ arg = Of(t).verifier
    BY <1>2 DEF Reached, LoggedIn
  <2> HIDE DEF arg
  <2>2. QED
    BY <1>2, <1>4, <2>1, CallReaches
<1>6. /\ thread' = [thread EXCEPT ![t] = h] /\ thread'[t] = h
      /\ h.pc = "call" /\ h.actual = step /\ h.run = r /\ h.step = step /\ h.valid = thread[t].valid
      /\ step = "authorize" => h.arg = v
  BY <1>2, <1>5 DEF CallServer, IInv, ThreadsFine, ThreadFields
<1>7. run'[r] = u /\ DOMAIN run' = DOMAIN run
  BY <1>2, <1>5 DEF CallServer
<1>8. v \in Nat
  BY <1>2 DEF NextVerifier, Reached, LoggedIn
<1>9. step = "authorize" <=> n = 5
  BY <1>2, StepNames, EachStep
<1>10. u.step = n /\ u.status = Of(t).status /\ (step = "authorize" => u.verifier = v)
  BY <1>2 DEF RunState, RunFields
<1>11. Reached(r, u, n)
  <2>1. CASE n # 5
    BY <1>2, <1>9, <2>1
  <2>2. CASE n = 5
    <3> DEFINE w == [run[r] EXCEPT !.verifier = v]
    <3>1. /\ w.client = run[r].client /\ w.server = run[r].server /\ w.ch = run[r].ch
          /\ w.cke = run[r].cke /\ w.secret = run[r].secret /\ w.sf = run[r].sf
          /\ w.loops = run[r].loops /\ w.verifier = v
      BY <1>2 DEF RunState, RunFields
    <3>2. u = w
      BY <1>9, <2>2
    <3> HIDE DEF w, u, v
    <3>3. Reached(r, w, n)
      BY <1>2, <1>8, <2>2, <3>1 DEF Reached, Handshaken, LoggedIn
    <3>4. QED
      BY <3>2, <3>3
  <2>3. QED
    BY <2>1, <2>2
<1> HIDE DEF u, h, v, n, step, r
<1>12. Of(t)' = u
  BY <1>6, <1>7 DEF Of
<1>13. ReadyAfter(r, u, last[r])
  BY <1>2, <1>10, <1>11 DEF ReadyAfter, step
<1>14. Ready(thread[t].run)'
  BY <1>1, <1>6, <1>7, <1>13 DEF Ready
<1>15. Execution(t)'
  BY <1>2, <1>6, <1>10, <1>12, <1>14 DEF Execution, step
<1>16. Calling(t)'
  BY <1>4, <1>6, <1>8, <1>10, <1>12 DEF Calling, step
<1>17. ThreadInOrder(t)'
  BY <1>1, <1>2, <1>3, <1>6, <1>10, <1>12, <1>15, <1>16 DEF ThreadInOrder, Completion, At, After
<1>18. ActiveInOrder'
  BY <1>1, <1>2, <1>3, <1>7, <1>10, <1>13 DEF ActiveInOrder, Ready
<1>19. HistoryFine'
  BY <1>1, <1>7, HistoryKept DEF Order
<1>20. QED
  BY <1>1, <1>17, <1>18, <1>19, OneInOrder

LEMMA ServerAnswersInOrder ==
  ASSUME IInv, Order, Serial, NEW t \in Thread, ServerAnswers(t)
  PROVE  Order' /\ thread'[t].actual = STEP_ORDER[Of(t).step]
<1> DEFINE r == thread[t].run
           n == Of(t).step
           step == STEP_ORDER[n]
           u == Answered(step, Of(t), thread[t].arg)
           valid == step = "refresh_token" /\ Of(t).loops < max_refresh_loops
           h == [thread[t] EXCEPT !.pc = "advance", !.valid = valid]
<1>1. ThreadSteps(t) /\ thread[t].pc = "call" /\ active' = active /\ thread[t].pc \in Working
  BY DEF ThreadSteps, ServerAnswers, At, Working
<1>2. /\ n \in Steps /\ Reached(r, Of(t), n) /\ thread[t].step = step
      /\ r \in 1..MaxRuns /\ RunState(Of(t)) /\ Of(t).status # "error"
      /\ DOMAIN thread[t] = ThreadFields
  BY <1>1, AboutToExecute
<1>3. /\ thread[t].actual = step /\ step \notin LocalSteps
      /\ step = "authorize" => thread[t].arg \in Nat /\ thread[t].arg = Of(t).verifier
  BY <1>1, AtWork DEF Calling, At
<1>4. Accepts(step, Of(t)) /\ Reached(r, u, Onwards(n, valid))
  <2>1. n = 5 => thread[t].arg \in Nat /\ thread[t].arg = Of(t).verifier
    BY <1>3, StepNames
  <2>2. QED
    BY <1>2, <1>3, <2>1, CallReaches
<1>5. u.step = n /\ u.status = Of(t).status
  BY <1>2, PositionKept
<1>6. /\ run' = [run EXCEPT ![r] = u] /\ thread' = [thread EXCEPT ![t] = h]
      /\ thread'[t] = h
  BY <1>3, <1>4 DEF ServerAnswers, Completed, IInv, ThreadsFine
<1>7. /\ h.pc = "advance" /\ h.run = r /\ h.step = step /\ h.actual = step
      /\ h.valid = valid
  BY <1>2, <1>3 DEF ThreadFields
<1>8. last' = [last EXCEPT ![r] = step]
  BY <1>3, <1>4, <1>6, <1>7 DEF ServerAnswers, Completed
<1> HIDE DEF u, h, valid
<1>9. Reached(h.run, u, Onwards(u.step, h.valid))
  BY <1>4, <1>5, <1>7
<1>10. u.step \in Steps /\ step = STEP_ORDER[u.step] /\ u.status # "error"
  BY <1>2, <1>5
<1> HIDE DEF n, step
<1>11. Order'
  BY <1>1, <1>6, <1>7, <1>8, <1>9, <1>10, CompletedInOrder
<1>12. QED
  BY <1>6, <1>7, <1>11 DEF step, n

LEMMA CallFailsInOrder ==
  ASSUME IInv, Order, Serial, NEW t \in Thread, CallFails(t)
  PROVE  Order' /\ thread'[t].actual = STEP_ORDER[Of(t).step]
<1> DEFINE r == thread[t].run
           n == Of(t).step
           step == STEP_ORDER[n]
           h == [thread[t] EXCEPT !.pc = "advance"]
<1>1. ThreadSteps(t) /\ thread[t].pc = "call" /\ active' = active /\ thread[t].pc \in Working
  BY DEF ThreadSteps, CallFails, At, Working
<1>2. /\ n \in Steps /\ Reached(r, Of(t), n) /\ thread[t].step = step /\ ~thread[t].valid
      /\ r \in 1..MaxRuns /\ RunState(Of(t)) /\ Of(t).status # "error"
      /\ DOMAIN thread[t] = ThreadFields
  BY <1>1, AboutToExecute
<1>3. thread[t].actual = step /\ step \notin LocalSteps
  BY <1>1, AtWork DEF Calling, At
<1>4. CASE thread[t].actual = "resource_access" /\ Simulation
  <2>1. /\ run' = [run EXCEPT ![r] = Of(t)] /\ thread' = [thread EXCEPT ![t] = h]
        /\ thread'[t] = h
    BY <1>4 DEF CallFails, Completed, IInv, ThreadsFine
  <2>2. /\ h.pc = "advance" /\ h.run = r /\ h.step = step /\ h.actual = step
    BY <1>2, <1>3 DEF ThreadFields
  <2>3. last' = [last EXCEPT ![r] = step]
    BY <1>4, <2>1, <2>2 DEF CallFails, Completed
  <2> HIDE DEF h
  <2>4. n = 10
    BY <1>2, <1>3, <1>4, StepNames, EachStep
  <2>5. Reached(r, Of(t), 11)
    BY <1>2, <2>4 DEF Reached, Handshaken, LoggedIn
  <2>6. Reached(h.run, Of(t), Onwards(Of(t).step, h.valid))
    BY <2>2, <2>4, <2>5 DEF Onwards
  <2> HIDE DEF step
  <2>7. step = STEP_ORDER[Of(t).step]
    BY DEF step
  <2> HIDE DEF n
  <2>8. Order'
    BY <1>1, <1>2, <2>1, <2>2, <2>3, <2>6, <2>7, CompletedInOrder DEF n
  <2>9. QED
    BY <2>1, <2>2, <2>7, <2>8
<1>5. CASE ~(thread[t].actual = "resource_access" /\ Simulation)
  <2>1. Goto(t, "raise") /\ UNCHANGED <<run, last, active>>
    BY <1>5 DEF CallFails
  <2>2. faults' > 0 \/ active # r
    BY StepFlowAssumption DEF CallFails, IInv, GlobalsFine
  <2>3. Order'
    BY <1>1, <2>1, <2>2, FailedInOrder
  <2>4. thread'[t].actual = thread[t].actual
    BY <1>2, <2>1 DEF Goto, IInv, ThreadsFine, ThreadFields
  <2>5. QED
    BY <1>3, <2>3, <2>4
<1>6. QED
  BY <1>4, <1>5

\* The position after one that is not the last is ready.
LEMMA NextReady ==
  ASSUME NEW r, NEW s, RunState(s), NEW n \in Steps, n # 11, Reached(r, s, n + 1),
         NEW u, SameProgress(s, u), u.step = n + 1
  PROVE  ReadyAfter(r, u, STEP_ORDER[n])
<1>1. n + 1 \in Steps /\ n + 1 # 1 /\ (n + 1) - 1 = n
  BY StepPositions
<1>2. Follows(STEP_ORDER[n + 1], STEP_ORDER[n])
  BY <1>1, NextFollows
<1>3. Reached(r, u, n + 1)
  BY StillReached
<1>4. QED
  BY <1>1, <1>2, <1>3 DEF ReadyAfter

LEMMA AdvanceInOrder ==
  ASSUME IInv, Order, Serial, NEW t \in Thread, Advance(t)
  PROVE  Order'
<1> DEFINE r == thread[t].run
           p == Of(t).step
           n == NextPosition(Of(t))
           goes_on == n \in Steps /\ (Of(t).auto_advance \/ STEP_ORDER[n] \in INTERACTIVE_STEPS)
           x == StatusAfter(Of(t), n, goes_on)
           u == [run[r] EXCEPT !.step = n, !.status = x]
           v == [run[r] EXCEPT !.status = "running"]
<1>1. /\ ThreadSteps(t) /\ thread[t].pc = "advance" /\ UNCHANGED <<active, last>>
      /\ thread[t].pc \in Working
  BY DEF ThreadSteps, Advance, At, Working
<1>2. /\ r \in DOMAIN run /\ Of(t) = run[r] /\ RunState(run[r]) /\ run[r].status # "error"
      /\ active \in {r, None} /\ Completion(t) /\ DOMAIN thread[t] = ThreadFields
  BY <1>1, AtWork
<1>3. /\ p \in Steps /\ last[r] = STEP_ORDER[p] /\ thread[t].step = STEP_ORDER[p]
      /\ Reached(r, run[r], Onwards(p, thread[t].valid))
  BY <1>1, <1>2 DEF Completion, At, After
<1>4. CASE thread[t].step = "refresh_token"
  <2>1. run' = [run EXCEPT ![r].status = "running"] /\ thread' = [thread EXCEPT ![t].pc = "hold"]
    BY <1>4 DEF Advance, Goto
  <2>2. p = 11
    BY <1>3, <1>4, LastStep
  <2>3. run'[r] = v /\ DOMAIN run' = DOMAIN run
    BY <1>2, <2>1
  <2>4. SameProgress(run[r], v) /\ v.step = p /\ v.status = "running"
    BY <1>2 DEF SameProgress, RunState, RunFields
  <2>5. /\ thread'[t].pc = "hold" /\ thread'[t].run = r /\ thread'[t].valid = thread[t].valid
    BY <1>2, <2>1 DEF IInv, ThreadsFine, ThreadFields
  <2> HIDE DEF v, u, x, goes_on, n
  <2>6. Of(t)' = v
    BY <2>3, <2>5 DEF Of
  <2>7. Reached(r, v, Onwards(p, thread[t].valid))
    BY <1>3, <2>4, StillReached
  <2> HIDE DEF p, r
  <2>8. Completion(t)'
    BY <1>1, <1>3, <2>2, <2>4, <2>5, <2>6, <2>7 DEF Completion, At
  <2>9. ThreadInOrder(t)'
    BY <1>1, <1>2, <2>4, <2>5, <2>6, <2>8 DEF ThreadInOrder, Execution, Calling, At, Before
  <2>10. ActiveInOrder'
    <3>1. thread'[t].pc \in After
      BY <2>5 DEF After
    <3>2. QED
      BY <1>1, <1>2, <2>3, <2>4, <3>1 DEF ActiveInOrder
  <2>11. HistoryFine'
    BY <1>1, <2>3, HistoryKept DEF Order
  <2>12. QED
    BY <1>1, <2>9, <2>10, <2>11, OneInOrder
<1>5. CASE thread[t].step # "refresh_token"
  <2>1. p # 11
    BY <1>3, <1>5, LastStep
  <2>2. run' = [run EXCEPT ![r] = u] /\ (Ends(t) \/ Goto(t, "next"))
    BY <1>5 DEF Advance
  <2>3. thread'[t].pc \in {"free", "next"}
    BY <1>2, <2>2 DEF Ends, Free, Goto, IInv, ThreadsFine, ThreadFields
  <2>4. n = p + 1
    BY DEF NextPosition
  <2>5. x # "error"
    BY <1>2 DEF StatusAfter
  <2> HIDE DEF x, goes_on, n
  <2>6. SameProgress(run[r], u) /\ u.step = n /\ u.status = x
    BY <1>2 DEF SameProgress, RunState, RunFields
  <2>7. run'[r] = u /\ DOMAIN run' = DOMAIN run
    BY <1>2, <2>2
  <2>8. Reached(r, run[r], p + 1)
    BY <1>3, <2>1 DEF Onwards
  <2> HIDE DEF u, p
  <2>9. ReadyAfter(r, u, STEP_ORDER[p])
    BY <1>2, <1>3, <2>1, <2>4, <2>6, <2>8, NextReady
  <2>10. active' # None => Ready(active)' /\ run'[active'].status # "error"
    BY <1>1, <1>2, <1>3, <2>5, <2>6, <2>7, <2>9 DEF Ready
  <2>11. HistoryFine'
    BY <1>1, <2>7, HistoryKept DEF Order
  <2>12. QED
    BY <1>1, <2>3, <2>10, <2>11, LeavesReady, OneInOrder
<1>6. QED
  BY <1>4, <1>5

LEMMA RaiseInOrder ==
  ASSUME IInv, Order, Serial, NEW t \in Thread, Raise(t)
  PROVE  Order'
<1>1. /\ ThreadSteps(t) /\ active' = None /\ last' = last /\ Ends(t)
      /\ run' = [run EXCEPT ![thread[t].run].status = "error"]
  BY DEF ThreadSteps, Raise, ResetActive
<1>2. thread'[t].pc = "free" /\ DOMAIN run' = DOMAIN run
  BY <1>1 DEF Ends, Free, IInv, ThreadsFine
<1>3. HistoryFine'
  BY <1>1, <1>2, HistoryKept DEF Order
<1>4. QED
  BY <1>1, <1>2, <1>3, LeavesReady, OneInOrder

LEMMA RefreshTransitionInOrder ==
  ASSUME IInv, Order, Serial, NEW t \in Thread, RefreshTransition(t)
  PROVE  Order'
<1> DEFINE r == thread[t].run
           v == [run[r] EXCEPT !.step = Index("resource_access"),
                               !.status = IF run[r].auto_advance THEN "running" ELSE "paused"]
           i == [run[r] EXCEPT !.step = Index("authorize"), !.status = "paused", !.loops = 0,
                               !.code = None, !.token = FALSE, !.refresh = None]
<1>1. /\ ThreadSteps(t) /\ thread[t].pc = "hold" /\ UNCHANGED <<active, last>>
      /\ thread[t].pc \in Working
  BY DEF ThreadSteps, RefreshTransition, At, Working
<1>2. /\ r \in DOMAIN run /\ r # None /\ Of(t) = run[r] /\ RunState(run[r]) /\ run[r].status # "error"
      /\ active \in {r, None} /\ Completion(t) /\ DOMAIN thread[t] = ThreadFields
  BY <1>1, AtWork
<1>3. /\ Of(t).step = 11 /\ last[r] = STEP_ORDER[11]
      /\ Reached(r, run[r], Onwards(11, thread[t].valid))
  BY <1>1, <1>2 DEF Completion, At, After
<1>4. Ends(t) \/ Goto(t, "next")
  BY DEF RefreshTransition
<1>5. thread'[t].pc \in {"free", "next"}
  BY <1>2, <1>4 DEF Ends, Free, Goto, IInv, ThreadsFine, ThreadFields
<1>6. DOMAIN run' = DOMAIN run
  BY DEF RefreshTransition
<1>7. HistoryFine'
  BY <1>1, <1>6, HistoryKept DEF Order
<1>8. active' # None => Ready(active)' /\ run'[active'].status # "error"
  <2> SUFFICES ASSUME active # None
               PROVE  Ready(active)' /\ run'[active'].status # "error"
    BY <1>1
  <2>1. active = r /\ StillCurrent(t)
    BY <1>2 DEF StillCurrent
  <2>2. CASE thread[t].valid
    <3>1. run'[r] = v
      BY <1>2, <2>1, <2>2 DEF RefreshTransition
    <3>2. Reached(r, run[r], 10)
      BY <1>3, <2>2 DEF Onwards
    <3>3. SameProgress(run[r], v) /\ v.step = 10 /\ v.status # "error"
      BY <1>2, Positions DEF SameProgress, RunState, RunFields
    <3> HIDE DEF v
    <3>4. Reached(r, v, 10)
      BY <3>2, <3>3, StillReached
    <3>5. 10 \in Steps
      BY StepPositions
    <3>6. ReadyAfter(r, v, last[r])
      BY <1>3, <3>3, <3>4, <3>5, NextFollows DEF ReadyAfter
    <3>7. QED
      BY <1>1, <2>1, <3>1, <3>3, <3>6 DEF Ready
  <2>3. CASE ~thread[t].valid
    <3>1. run'[r] = i
      BY <1>2, <2>1, <2>3 DEF RefreshTransition
    <3>2. Reached(r, run[r], 5)
      BY <1>3, <2>3 DEF Onwards
    <3>3. /\ i.step = 5 /\ i.status # "error" /\ i.loops = 0
          /\ i.client = run[r].client /\ i.server = run[r].server /\ i.ch = run[r].ch
          /\ i.cke = run[r].cke /\ i.secret = run[r].secret /\ i.sf = run[r].sf
          /\ i.verifier = run[r].verifier
      BY <1>2, Positions DEF RunState, RunFields
    <3> HIDE DEF i
    <3>4. Reached(r, i, 5)
      BY <3>2, <3>3 DEF Reached, Handshaken, LoggedIn
    <3>5. 5 \in Steps
      BY StepPositions
    <3>6. ReadyAfter(r, i, last[r])
      BY <1>3, <3>3, <3>4, <3>5, NextFollows DEF ReadyAfter
    <3>7. QED
      BY <1>1, <2>1, <3>1, <3>3, <3>6 DEF Ready
  <2>4. QED
    BY <2>2, <2>3
<1>9. QED
  BY <1>1, <1>5, <1>7, <1>8, LeavesReady, OneInOrder

LEMMA ThreadStepInOrder ==
  ASSUME IInv, Order, Serial, NEW t \in Thread, ThreadSteps(t)
  PROVE  Order'
BY InitializedInOrder, RunNextInOrder, StartedInOrder, CompleteInteractiveInOrder,
   LocalStepInOrder, CallServerInOrder, ServerAnswersInOrder, CallFailsInOrder,
   AdvanceInOrder, RaiseInOrder, RefreshTransitionInOrder
DEF ThreadSteps

-----------------------------------------------------------------------------
(* What order gives *)

LEMMA OrderInit == Init => Order
<1> SUFFICES ASSUME Init PROVE Order
  OBVIOUS
<1>1. <<>> \in Seq({}) /\ DOMAIN <<>> = {}
  OBVIOUS
<1>2. HistoryFine
  BY <1>1 DEF Init, HistoryFine, IsSequence
<1>3. ActiveInOrder
  BY DEF Init, ActiveInOrder
<1>4. \A t \in Thread : ThreadInOrder(t)
  BY DEF Init, Free, ThreadInOrder, Execution, Calling, Completion, At, Before, After, Working
<1>5. QED
  BY <1>2, <1>3, <1>4 DEF Order

LEMMA OrderStep == IInv /\ Order /\ Serial /\ Serial' /\ [Next]_vars => Order'
<1> SUFFICES ASSUME IInv, Order, Serial, Serial', [Next]_vars PROVE Order'
  OBVIOUS
<1>1. CASE UNCHANGED vars
  BY <1>1
  DEF vars, Order, HistoryFine, ActiveInOrder, ThreadInOrder, Execution, Calling, Completion,
      Ready, At, Of
<1>2. CASE Next
  BY <1>2, EventsInOrder, ThreadStepInOrder DEF Next
<1>3. QED
  BY <1>1, <1>2

LEMMA OrderAlways == Spec /\ []Serial => []Order
BY OrderInit, OrderStep, IInvAlways, PTL DEF Spec

\* With one slot that is so.
LEMMA OneSlotIsSerial ==
  ASSUME \A t, u \in Thread : t = u
  PROVE  Spec => []Serial
<1>1. Serial
  BY DEF Serial
<1>2. QED
  BY <1>1, PTL

\* Where one handler or task ends before the next begins, no step of the active
\* run fails as long as no call to a server does: each finds what the steps
\* before it have left, also the second time round (step_flow_server.py
\* _run_current_step, _complete_refresh_transition).
THEOREM SerialStepsSucceed == Spec /\ []Serial => []NoStepFails
<1>1. IInv /\ Order => NoStepFails
  <2> SUFFICES ASSUME IInv, Order, NEW r \in DOMAIN run, faults = 0, active = r
               PROVE  /\ run[r].status # "error"
                      /\ \A t \in Thread : thread[t].run = r => ~At(t, "raise")
    BY DEF NoStepFails
  <2>1. run[r].status # "error"
    BY RunsInRange DEF Order, ActiveInOrder
  <2>2. ASSUME NEW t \in Thread, thread[t].run = r, At(t, "raise") PROVE FALSE
    <3>1. faults > 0 \/ active # thread[t].run
      BY <2>2 DEF Order, ThreadInOrder
    <3>2. QED
      BY <2>2, <3>1
  <2>3. QED
    BY <2>1, <2>2
<1>2. QED
  BY <1>1, OrderAlways, IInvAlways, PTL

\* Where one handler or task ends before the next begins, the steps of a run
\* complete in STEP_ORDER, none twice and none left out, with the two ways back
\* from refresh_token (step_flow_server.py _execute_and_advance,
\* _complete_refresh_transition).
THEOREM SerialStepsInOrder == Spec /\ []Serial => StepsInOrder
<1>1. ASSUME IInv, Order, Serial, Next, NEW t \in Thread, Completes(t)
      PROVE  Follows(thread'[t].actual, last[thread[t].run])
  <2>1. thread[t].pc \in {"execute", "call"} /\ thread'[t].pc = "advance"
    BY <1>1 DEF Completes, At
  <2>2. ASSUME NEW b \in Browser, Events(b) PROVE FALSE
    BY <1>1, <2>1, <2>2, EventEffect DEF IsFree
  <2>3. PICK u \in Thread : ThreadSteps(u)
    BY <1>1, <2>2 DEF Next
  <2>4. u = t
    BY <1>1, <2>1, <2>3, ThreadEffect
  <2>5. Follows(STEP_ORDER[Of(t).step], last[thread[t].run])
    BY <1>1, <2>1, AboutToExecute
  <2>6. CASE LocalStep(t) \/ ServerAnswers(t) \/ CallFails(t)
    BY <1>1, <2>5, <2>6, LocalStepInOrder, ServerAnswersInOrder, CallFailsInOrder
  <2>7. CASE CallServer(t)
    <3>1. thread'[t].pc \in {"raise", "call"}
      BY <1>1, <2>7 DEF CallServer, Goto, IInv, ThreadsFine, ThreadState, ThreadFields
    <3>2. QED
      BY <2>1, <3>1
  <2>8. QED
    BY <1>1, <2>1, <2>3, <2>4, <2>6, <2>7 DEF ThreadSteps, At, Initialized, RunNext, Started,
       CompleteInteractive, Advance, Raise, RefreshTransition
<1>2. IInv /\ Order /\ Serial /\ [Next]_vars =>
        [\A t \in Thread : Completes(t) => Follows(thread'[t].actual, last[thread[t].run])]_vars
  BY <1>1
<1>3. QED
  BY <1>2, IInvAlways, OrderAlways, PTL DEF Spec, StepsInOrder
=============================================================================
