--------------------------- MODULE RequestExchange ---------------------------
(***************************************************************************)
(* What KEMTLSClient.request promises over either transport: a request is  *)
(* executed by the server's application at most once, and a caller that    *)
(* gets a response gets the one its own request produced.  A request may   *)
(* fail at any time, and the caller of one that failed does not know       *)
(* whether it was, or still will be, executed.                             *)
(***************************************************************************)
CONSTANT Request

VARIABLES caller,     \* caller[r]: what the caller of request r has seen
          executed    \* executed[r]: how often the application ran r

vars == <<caller, executed>>

Init == /\ caller = [r \in Request |-> <<"idle">>]
        /\ executed = [r \in Request |-> 0]

Send(r) ==
  /\ caller[r] = <<"idle">>
  /\ caller' = [caller EXCEPT ![r] = <<"waiting">>]
  /\ UNCHANGED executed

Execute(r) ==
  /\ caller[r] \in {<<"waiting">>, <<"failed">>}
  /\ executed[r] = 0
  /\ executed' = [executed EXCEPT ![r] = 1]
  /\ UNCHANGED caller

Respond(r) ==
  /\ caller[r] = <<"waiting">>
  /\ executed[r] = 1
  /\ caller' = [caller EXCEPT ![r] = <<"answered", r>>]
  /\ UNCHANGED executed

Fail(r) ==
  /\ caller[r] = <<"waiting">>
  /\ caller' = [caller EXCEPT ![r] = <<"failed">>]
  /\ UNCHANGED executed

Next == \E r \in Request : Send(r) \/ Execute(r) \/ Respond(r) \/ Fail(r)

Spec == Init /\ [][Next]_vars
=============================================================================
