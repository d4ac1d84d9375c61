------------------------------ MODULE StepFlow ------------------------------
(***************************************************************************)
(* The step-flow server: one guided run of handshake, login and token use, *)
(* driven over Socket.IO by any browser that is connected.                 *)
(*                                                                         *)
(* The run is a global object, _active_session, and its id another global, *)
(* _active_run_id.  Every event handler and every background task is a     *)
(* thread of its own, and there is no lock.  A thread is cut where it      *)
(* reads a global, emits events, waits for a server or sleeps; a background *)
(* task is always started as the last act of a thread, so it takes over    *)
(* that thread's slot.                                                     *)
(***************************************************************************)
EXTENDS KemtlsMessages, Naturals, FiniteSets

CONSTANTS Browser,      \* the browsers that may connect
          Thread,       \* slots for handlers and background tasks
          None,         \* no session, no run id, nothing obtained yet
          MaxRuns,      \* bounds for model checking: runs started,
          MaxFaults,    \*   calls to the servers that fail
          Patient,      \* browsers keep to the rules of the front end
          AutoAdvance,  \* the values of autoAdvance each run may be started with
          Simulation    \* SIMULATION_MODE

ASSUME StepFlowAssumption ==
  /\ {MaxRuns, MaxFaults} \subseteq Nat /\ IsFiniteSet(Thread)
  /\ {Patient, Simulation} \subseteq BOOLEAN
  /\ AutoAdvance \in [1..MaxRuns -> SUBSET BOOLEAN]

\* Run ids are numbers here.
ASSUME NoneAssumption == None \notin Nat

\* None is neither a refresh token nor a message of a run's handshake.
ASSUME ObtainedAssumption ==
  /\ None \notin {"live", "revoked"}
  /\ \A r \in 1..MaxRuns :
       LET cke == ClientKeyExchange(r, ServerHello(r))
           sf == ServerFinished(Encapsulated(cke), <<ClientHello(r), ServerHello(r)>>)
       IN  None \notin {ClientHello(r), cke, sf}

STEP_ORDER == <<"hello", "server", "derive", "finished", "authorize", "account_auth",
                "consent", "token_exchange", "session_bind", "resource_access",
                "refresh_token">>
INTERACTIVE_STEPS == {"account_auth", "consent"}
max_refresh_loops == 1
Steps == DOMAIN STEP_ORDER
Index(step) == CHOOSE i \in Steps : STEP_ORDER[i] = step

VARIABLES active,     \* _active_session: the run it is the state of, or None
          active_id,  \* _active_run_id
          run,        \* run[r]: HandshakeSessionState of the r-th run
          thread,     \* thread[t]: the handler or background task in slot t
          connected,  \* the browsers connected
          faults,     \* calls that failed so far
          raised,     \* handlers that ended with an exception nobody catches
          last        \* history: last[r] = the last step run r completed

vars == <<active, active_id, run, thread, connected, faults, raised, last>>
Browsers == <<connected, raised, faults>>

Free == [pc |-> "free", run |-> None, step |-> "none", actual |-> "none",
         arg |-> None, valid |-> FALSE]
IsFree(t) == thread[t].pc = "free"
At(t, pc) == thread[t].pc = pc
Of(t) == run[thread[t].run]
Goto(t, pc) == thread' = [thread EXCEPT ![t].pc = pc]
Ends(t) == thread' = [thread EXCEPT ![t] = Free]

\* Mutant: the position of a new run is counted from 0.
NewRunFromZero(b, auto) ==
  [client_sid |-> b, auto_advance |-> auto, step |-> 0, status |-> "running",
   client |-> <<>>, server |-> <<>>, ch |-> None, sh |-> None, cke |-> None, sf |-> None,
   secret |-> None, established |-> FALSE, verifier |-> 0, code |-> None, redeemed |-> FALSE,
   token |-> FALSE, refresh |-> None, loops |-> 0]

\* step is the position in STEP_ORDER, from 1; refresh the newest refresh token.
NewRun(b, auto) ==
  [client_sid |-> b, auto_advance |-> auto, step |-> 1, status |-> "running",
   client |-> <<>>, server |-> <<>>, ch |-> None, sh |-> None, cke |-> None, sf |-> None,
   secret |-> None, established |-> FALSE, verifier |-> 0, code |-> None, redeemed |-> FALSE,
   token |-> FALSE, refresh |-> None, loops |-> 0]

\* _close_active_session, _reset_active_run.
ResetActive == active' = None /\ active_id' = None

\* on_connect, on_continue, on_reset and on_get_state make the browser the one
\* that gets the run's events.
TakenOver(b) == IF active = None THEN run ELSE [run EXCEPT ![active].client_sid = b]
-----------------------------------------------------------------------------
(* Socket.IO events.                                                       *)

OnConnect(b) ==
  /\ b \notin connected
  /\ connected' = connected \cup {b}
  /\ run' = TakenOver(b)
  /\ UNCHANGED <<active, active_id, thread, faults, raised, last>>

OnGetState(b) ==
  /\ b \in connected
  /\ run' = TakenOver(b)
  /\ UNCHANGED <<active, active_id, thread, Browsers, last>>

OnDisconnect(b) ==
  /\ b \in connected
  /\ connected' = connected \ {b}
  /\ ResetActive
  /\ UNCHANGED <<run, thread, faults, raised, last>>

OnReset(b, id) ==
  /\ b \in connected
  /\ run' = TakenOver(b)
  /\ IF active_id # None /\ id # None /\ id # active_id
       THEN UNCHANGED <<active, active_id>>
       ELSE ResetActive
  /\ UNCHANGED <<thread, Browsers, last>>

\* The rules of the front end: a new run when there is none, a click when the
\* run is paused, and neither before the last click has had its effect.  Threads
\* of a run that was reset may still be at work.
Answering(t) ==
  \/ thread[t].pc \in {"init", "complete"}
  \/ At(t, "next") /\ thread[t].run = None
Settled == \A t \in Thread : ~Answering(t)
MayStart == Patient => Settled /\ active = None
MayContinue == Patient => Settled /\ active # None /\ run[active].status = "paused"

\* on_start_step_flow up to the new id; _initialize_state takes its time.
OnStart(b, t, auto) ==
  /\ b \in connected /\ IsFree(t) /\ MayStart
  /\ Len(run) < MaxRuns /\ auto \in AutoAdvance[Len(run) + 1]
  /\ LET r == Len(run) + 1
     IN  /\ run' = Append(run, NewRun(b, auto))
         /\ active_id' = r
         /\ thread' = [thread EXCEPT ![t] = [Free EXCEPT !.pc = "init", !.run = r]]
         /\ last' = Append(last, "none")
  /\ UNCHANGED <<active, Browsers>>

\* The rest of it: the session before is dropped, not closed.
Initialized(t) ==
  /\ At(t, "init")
  /\ active' = thread[t].run
  /\ Goto(t, "next")
  /\ UNCHANGED <<active_id, run, Browsers, last>>

\* on_continue_step_flow: a stale id is refused; with no session the handler
\* raises AttributeError before it comes to the message for that case.
OnContinue(b, t, id) ==
  /\ b \in connected /\ IsFree(t) /\ MayContinue
  /\ run' = TakenOver(b)
  /\ IF active_id # None /\ id # None /\ id # active_id
       THEN UNCHANGED <<thread, raised>>
     ELSE IF active = None
       THEN raised' = raised \cup {"on_continue"} /\ UNCHANGED thread
     ELSE
       /\ LET s == run[active]
              paused_at == s.step \in Steps /\ STEP_ORDER[s.step] \in INTERACTIVE_STEPS
                           /\ s.status = "paused"
          IN  thread' = [thread EXCEPT ![t].pc = IF paused_at THEN "complete" ELSE "next"]
       /\ UNCHANGED raised
  /\ UNCHANGED <<active, active_id, connected, faults, last>>
-----------------------------------------------------------------------------
(* _run_next_step_for_client and _complete_interactive_step read the global *)
(* session: whatever run is active by then.                                *)

\* Mutant: a background task works on the run it was started for.
DrivenOwn(t) == IF thread[t].run # None THEN thread[t].run ELSE active

Driven(t) == active

RunNext(t) ==
  /\ At(t, "next")
  /\ LET r == Driven(t)
     IN  IF r = None
           THEN Ends(t) /\ UNCHANGED run
         ELSE IF run[r].step \notin Steps
           THEN Ends(t) /\ run' = [run EXCEPT ![r].status = "done"]
         ELSE /\ run' = [run EXCEPT ![r].status = "running"]
              /\ thread' = [thread EXCEPT ![t] = [Free EXCEPT
                              !.pc = "started", !.run = r, !.step = STEP_ORDER[run[r].step]]]
  /\ UNCHANGED <<active, active_id, Browsers, last>>

\* An interactive step only starts, and pauses for the user.
AwaitsUser(s, step) == step \in INTERACTIVE_STEPS /\ ~s.auto_advance

Started(t) ==
  /\ At(t, "started")
  /\ IF AwaitsUser(Of(t), thread[t].step)
       THEN /\ run' = [run EXCEPT ![thread[t].run].status = "paused"]
            /\ Ends(t)
       ELSE Goto(t, "execute") /\ UNCHANGED run
  /\ UNCHANGED <<active, active_id, Browsers, last>>

CompleteInteractive(t) ==
  /\ At(t, "complete")
  /\ IF active # None /\ run[active].step \in Steps
       THEN thread' = [thread EXCEPT ![t] = [Free EXCEPT
                         !.pc = "execute", !.run = active,
                         !.step = STEP_ORDER[run[active].step]]]
       ELSE Ends(t)
  /\ UNCHANGED <<active, active_id, run, Browsers, last>>
-----------------------------------------------------------------------------
(* _execute_and_advance on the state a thread holds.  _run_current_step     *)
(* looks the step up once more.                                            *)

Completed(t, s) ==
  /\ run' = [run EXCEPT ![thread[t].run] = s]
  /\ last' = [last EXCEPT ![thread[t].run] = thread'[t].actual]

\* The Finished messages look at the first three messages of a transcript; the
\* later ones are left out.
Heard(transcript, messages) ==
  LET all == transcript \o messages
  IN  SubSeq(all, 1, IF Len(all) < 3 THEN Len(all) ELSE 3)

Hello(r, s) ==
  [s EXCEPT !.ch = ClientHello(r), !.client = Heard(@, <<ClientHello(r)>>)]

Server(r, s) ==
  LET sh == ServerHello(r)
      cke == ClientKeyExchange(r, sh)
  IN  [s EXCEPT !.sh = sh, !.cke = cke, !.server = Heard(@, <<s.ch, sh>>),
                !.client = Heard(@, <<sh, cke>>)]

Derive(r, s) ==
  LET secret == Decapsulate(r, s.cke)
      sf == ServerFinished(secret, s.server)
  IN  [s EXCEPT !.secret = secret, !.sf = sf, !.server = Heard(@, <<s.cke, sf>>)]

\* Mutant: the client's Finished is compared under its key only.
FinishedKeyVerifies(s) == ServerFinishedVerifies(s.sf, Encapsulated(s.cke), s.client)

\* Both Finished messages verify: the client against its transcript, the
\* server against its own.
FinishedVerifies(s) ==
  /\ ServerFinishedVerifies(s.sf, Encapsulated(s.cke), s.client)
  /\ ClientFinishedVerifies(ClientFinished(Encapsulated(s.cke), s.client), s.secret, s.server)

Finish(s) == [s EXCEPT !.established = TRUE]

LocalSteps == {"hello", "server", "derive", "finished", "account_auth", "consent",
               "session_bind"}

\* What a local step needs so as not to raise.
LocalReady(step, s) ==
  CASE step = "server" -> s.ch # None
    [] step = "derive" -> s.cke # None
    [] step = "finished" -> s.sf # None /\ FinishedVerifies(s)
    [] step = "session_bind" -> s.token
    [] OTHER -> TRUE

LocalDone(step, r, s) ==
  CASE step = "hello" -> Hello(r, s)
    [] step = "server" -> Server(r, s)
    [] step = "derive" -> Derive(r, s)
    [] step = "finished" -> Finish(s)
    [] OTHER -> s

\* Handshake messages, the synthetic UI steps, the comparison of the binding.
LocalStep(t) ==
  /\ At(t, "execute")
  /\ Of(t).step \in Steps
  /\ LET step == STEP_ORDER[Of(t).step]
     IN  /\ step \in LocalSteps
         /\ IF LocalReady(step, Of(t))
              THEN /\ thread' = [thread EXCEPT ![t].pc = "advance", ![t].actual = step]
                   /\ Completed(t, LocalDone(step, thread[t].run, Of(t)))
              ELSE Goto(t, "raise") /\ UNCHANGED <<run, last>>
  /\ UNCHANGED <<active, active_id, Browsers>>

\* Verifiers are told apart modulo 3: the one before and two under way.
NextVerifier(v) == (v + 1) % 3

\* What a step that calls a server needs before it does.
CallReady(step, s) ==
  CASE step = "authorize" -> TRUE
    [] step = "token_exchange" -> s.code # None
    [] step = "resource_access" -> s.token
    [] step = "refresh_token" -> s.loops >= max_refresh_loops \/ s.refresh # None

\* Up to the call.  start_auth draws a new verifier first; a position past the
\* end is an IndexError.
CallServer(t) ==
  /\ At(t, "execute")
  /\ IF Of(t).step \notin Steps
       THEN Goto(t, "raise") /\ UNCHANGED run
       ELSE LET step == STEP_ORDER[Of(t).step]
                v == NextVerifier(Of(t).verifier)
            IN  /\ step \notin LocalSteps
                /\ IF CallReady(step, Of(t))
                     THEN /\ thread' = [thread EXCEPT ![t].pc = "call", ![t].actual = step,
                                          ![t].arg = IF step = "authorize" THEN v ELSE @]
                          /\ run' = IF step = "authorize"
                                      THEN [run EXCEPT ![thread[t].run].verifier = v] ELSE run
                     ELSE Goto(t, "raise") /\ UNCHANGED run
  /\ UNCHANGED <<active, active_id, Browsers, last>>

\* Whether the server answers with success.
Accepts(step, s) ==
  CASE step = "token_exchange" -> s.code # None /\ s.code = s.verifier /\ ~s.redeemed
    [] step = "refresh_token" -> s.loops >= max_refresh_loops \/ s.refresh = "live"
    [] OTHER -> TRUE

\* Mutant: the refreshes are not counted.
AnsweredNoCount(step, s, arg) ==
  CASE step = "authorize" -> [s EXCEPT !.code = arg, !.redeemed = FALSE]
    [] step = "token_exchange" -> [s EXCEPT !.redeemed = TRUE, !.token = TRUE, !.refresh = "live"]
    [] step = "refresh_token" /\ s.loops < max_refresh_loops -> [s EXCEPT !.refresh = "revoked"]
    [] OTHER -> s

\* refresh_token: past max_refresh_loops an invalid token is sent on purpose;
\* otherwise the old token is sent again after the rotation, to see it refused,
\* for which the server revokes the family.
Answered(step, s, arg) ==
  CASE step = "authorize" -> [s EXCEPT !.code = arg, !.redeemed = FALSE]
    [] step = "token_exchange" -> [s EXCEPT !.redeemed = TRUE, !.token = TRUE, !.refresh = "live"]
    [] step = "refresh_token" /\ s.loops < max_refresh_loops ->
         [s EXCEPT !.refresh = "revoked", !.loops = @ + 1]
    [] OTHER -> s

\* The answer comes, and the step completes or raises.
ServerAnswers(t) ==
  /\ At(t, "call")
  /\ LET step == thread[t].actual
         s == Of(t)
     IN  IF Accepts(step, s)
           THEN /\ thread' = [thread EXCEPT ![t].pc = "advance", ![t].valid =
                                step = "refresh_token" /\ s.loops < max_refresh_loops]
                /\ Completed(t, Answered(step, s, thread[t].arg))
           ELSE Goto(t, "raise") /\ UNCHANGED <<run, last>>
  /\ UNCHANGED <<active, active_id, Browsers>>

\* The server cannot be reached, or the run's connections have been closed.
CallFails(t) ==
  /\ At(t, "call")
  /\ \/ faults < MaxFaults /\ faults' = faults + 1
     \/ thread[t].run # active /\ UNCHANGED faults
  /\ IF thread[t].actual = "resource_access" /\ Simulation
       THEN /\ thread' = [thread EXCEPT ![t].pc = "advance"]
            /\ Completed(t, Of(t))
       ELSE Goto(t, "raise") /\ UNCHANGED <<run, last>>
  /\ UNCHANGED <<active, active_id, connected, raised>>

\* Mutant: an automatic run passes the steps that wait for a user.
NextPositionSkips(s) ==
  IF s.auto_advance /\ STEP_ORDER[s.step] = "authorize" THEN s.step + 3 ELSE s.step + 1

NextPosition(s) == s.step + 1

\* Mutant: a run that waits for its user still counts as running.
StatusAfterRunning(s, n, goes_on) == IF n \in Steps THEN s.status ELSE "done"

StatusAfter(s, n, goes_on) ==
  CASE goes_on -> s.status
    [] n \in Steps /\ ~goes_on -> "paused"
    [] OTHER -> "done"

\* The position is advanced, or a refresh is held for three seconds.
Advance(t) ==
  /\ At(t, "advance")
  /\ LET r == thread[t].run
         n == NextPosition(Of(t))
         goes_on == n \in Steps /\ (Of(t).auto_advance \/ STEP_ORDER[n] \in INTERACTIVE_STEPS)
     IN  IF thread[t].step = "refresh_token"
           THEN /\ run' = [run EXCEPT ![r].status = "running"]
                /\ Goto(t, "hold")
           ELSE /\ run' = [run EXCEPT ![r].step = n,
                                      ![r].status = StatusAfter(Of(t), n, goes_on)]
                /\ IF goes_on THEN Goto(t, "next") ELSE Ends(t)
  /\ UNCHANGED <<active, active_id, Browsers, last>>

\* The except branch: the global session goes, whichever run it is.
Raise(t) ==
  /\ At(t, "raise")
  /\ run' = [run EXCEPT ![thread[t].run].status = "error"]
  /\ ResetActive
  /\ Ends(t)
  /\ UNCHANGED <<Browsers, last>>

\* Mutant: the transition does not look whose session it finds.
AnyRunCurrent(t) == active # None

StillCurrent(t) == active # None /\ active = thread[t].run

\* _complete_refresh_transition, after its sleep.
RefreshTransition(t) ==
  /\ At(t, "hold")
  /\ IF ~StillCurrent(t)
       THEN Ends(t) /\ UNCHANGED run
     ELSE IF thread[t].valid
       THEN /\ run' = [run EXCEPT ![active].step = Index("resource_access"),
                                  ![active].status = IF run[active].auto_advance
                                                       THEN "running" ELSE "paused"]
            /\ IF run[active].auto_advance THEN Goto(t, "next") ELSE Ends(t)
     ELSE /\ run' = [run EXCEPT ![active].step = Index("authorize"),
                                ![active].status = "paused", ![active].loops = 0,
                                ![active].code = None, ![active].token = FALSE,
                                ![active].refresh = None]
          /\ Ends(t)
  /\ UNCHANGED <<active, active_id, Browsers, last>>
-----------------------------------------------------------------------------
Init ==
  /\ active = None /\ active_id = None
  /\ run = <<>> /\ last = <<>>
  /\ thread = [t \in Thread |-> Free]
  /\ connected = {} /\ raised = {}
  /\ faults = 0

ThreadSteps(t) ==
  \/ Initialized(t) \/ RunNext(t) \/ Started(t) \/ CompleteInteractive(t)
  \/ LocalStep(t) \/ CallServer(t) \/ ServerAnswers(t) \/ CallFails(t)
  \/ Advance(t) \/ Raise(t) \/ RefreshTransition(t)

Events(b) ==
  \/ OnConnect(b) \/ OnGetState(b) \/ OnDisconnect(b)
  \/ \E id \in DOMAIN run \cup {None} : OnReset(b, id)
  \/ \E t \in Thread, auto \in BOOLEAN : OnStart(b, t, auto)
  \/ \E t \in Thread, id \in DOMAIN run \cup {None} : OnContinue(b, t, id)

Next == (\E b \in Browser : Events(b)) \/ \E t \in Thread : ThreadSteps(t)

Spec == Init /\ [][Next]_vars

\* Threads run, servers answer or fail, a sleep ends; users need do nothing.
FairSpec == Spec /\ \A t \in Thread : WF_vars(ThreadSteps(t))
-----------------------------------------------------------------------------
(* Properties.                                                             *)

\* The variables stay within their types (step_flow_server.py
\* HandshakeSessionState and the globals).  A position has no upper bound: each
\* thread that is past the check of step_index adds one, and clicks can bring
\* any number of threads there.
TypeOK ==
  /\ active \in DOMAIN run \cup {None} /\ active_id \in DOMAIN run \cup {None}
  /\ connected \subseteq Browser /\ faults \in 0..MaxFaults
  /\ \A t \in Thread :
       /\ thread[t].pc \in {"free", "init", "next", "started", "complete", "execute", "call",
                            "advance", "raise", "hold"}
       /\ thread[t].pc \in {"started", "execute", "call", "advance", "raise", "hold"} =>
            thread[t].run \in DOMAIN run
  /\ \A r \in DOMAIN run :
       /\ run[r].status \in {"running", "paused", "done", "error"}
       /\ run[r].step \in Nat \ {0}
       /\ run[r].client_sid \in Browser

\* The steps of a run complete in STEP_ORDER, none twice and none left out,
\* with the two ways back from refresh_token (step_flow_server.py
\* _execute_and_advance, _complete_refresh_transition).
Completes(t) == thread[t].pc \in {"execute", "call"} /\ At(t, "advance")'

Follows(step, after) ==
  \/ step = "hello" /\ after = "none"
  \/ \E i \in 2..Len(STEP_ORDER) : step = STEP_ORDER[i] /\ after = STEP_ORDER[i - 1]
  \/ step \in {"resource_access", "authorize"} /\ after = "refresh_token"

StepsInOrder ==
  [][\A t \in Thread : Completes(t) => Follows(thread'[t].actual, last[thread[t].run])]_vars

\* As long as no call to a server fails, no step of the active run does: each
\* finds what the steps before it have left, also the second time round
\* (step_flow_server.py _run_current_step, _complete_refresh_transition).
NoStepFails ==
  \A r \in DOMAIN run :
    faults = 0 /\ active = r => run[r].status # "error" /\ \A t \in Thread :
                                  thread[t].run = r => ~At(t, "raise")

\* A run that has been replaced or reset is let go: each thread that is at
\* work on it finishes its step, and no thread takes it up again, background
\* tasks it has started included (step_flow_server.py
\* _run_next_step_for_client, on_reset_step_flow, on_disconnect).
Holders(r) == {t \in Thread : thread[t].run = r /\ thread[t].pc \notin {"next", "init"}}
RunIsLetGo ==
  [][\A r \in DOMAIN run : active # r /\ active' # r => Holders(r)' \subseteq Holders(r)]_vars

\* The delayed transition of one run never moves another, whatever was started
\* during its three seconds (step_flow_server.py _complete_refresh_transition).
TransitionStaysInRun ==
  [][\A t \in Thread : At(t, "hold") /\ thread'[t].pc # "hold" =>
       \A r \in DOMAIN run : r # thread[t].run => run'[r] = run[r]]_vars

\* A run that is active and running does not stay so for ever: it is paused
\* for the user, ends, fails or is replaced (step_flow_server.py
\* _execute_and_advance, _complete_refresh_transition).
RunSettles ==
  \A r \in 1..MaxRuns :
    (active = r /\ run[r].status = "running") ~> (active # r \/ run[r].status # "running")

\* A server session is established only with a client that has seen the same
\* first three messages, however often a step was executed
\* (step_flow_server.py _run_current_step, handshake.py verify_client_finished).
SessionsMatch ==
  \A r \in DOMAIN run :
    run[r].established => T2(run[r].client) = T2(run[r].server)

\* "stale session state cleared after step failure"
\* (step_flow_server.py:751): a failed step takes only its own run down.
FailureStaysInRun ==
  [][\A t \in Thread : At(t, "raise") /\ IsFree(t)' =>
       active \in {None, thread[t].run} \/ active' = active]_vars
-----------------------------------------------------------------------------
(* What the source says and the code does not do either; no run checks     *)
(* these five, the README says in section 4 how each fails.                *)

\* "Steps where the backend should only emit start and pause, waiting for the
\* user to interact before completing" (step_flow_server.py:610): in a run
\* without autoAdvance no token is fetched unless consent was completed.
ConsentBeforeTokens ==
  [][\A t \in Thread : Completes(t) /\ thread'[t].actual = "token_exchange" =>
       last[thread[t].run] = "consent"]_vars

\* "Click next step node to continue" (step_flow_server.py:848): what moves a
\* run without autoAdvance is its start, its user, or a task of its own.
ManualRunWaits ==
  [][\A t \in Thread : At(t, "next") /\ thread[t].run # None /\ At(t, "started")' =>
       run[thread'[t].run].auto_advance \/ thread'[t].run = thread[t].run]_vars

\* "Holding node 11 for 3s, then routing back" (step_flow_server.py:688): while
\* a transition is pending, its run executes nothing.
NodeIsHeld ==
  \A t, u \in Thread :
    At(t, "hold") /\ active = thread[t].run /\ u # t /\ thread[u].run = active
      => thread[u].pc \notin {"execute", "call", "advance"}

\* "do not keep an in-memory run alive across client reconnects"
\* (step_flow_server.py:820): the browser of an active run is connected.
NoOrphanRun == active # None => run[active].client_sid \in connected

\* "No active step-flow session." (step_flow_server.py:618): a click without a
\* session is answered, not answered with an exception.
ContinueIsAnswered == raised = {}
=============================================================================
