--------------------------- MODULE RefreshRotation ---------------------------
(***************************************************************************)
(* What refresh-token rotation promises, with no server, clock or client   *)
(* in it.  Tokens come in families.  A family begins with one live token;  *)
(* a live token is exchanged for exactly one successor; once a used token  *)
(* is seen again the whole family is dead, and nothing revives it.         *)
(*                                                                         *)
(* TokenService implements this module when requests are served one at a   *)
(* time; TokenThreads shows what is left of it with a thread per client.   *)
(***************************************************************************)
CONSTANTS Token,     \* token values the server may ever hand out
          NoFamily   \* the family of a token that does not exist yet

VARIABLES status,    \* status[t]: where token t is in its life
          family     \* family[t]: the first token of the family t belongs to

vars == <<status, family>>

Status == {"fresh", "live", "used", "revoked"}

TypeOK == /\ status \in [Token -> Status]
          /\ family \in [Token -> Token \cup {NoFamily}]

Init == /\ status = [t \in Token |-> "fresh"]
        /\ family = [t \in Token |-> NoFamily]

Members(f) == {t \in Token : family[t] = f}

Begin(t) ==
  /\ status[t] = "fresh"
  /\ status' = [status EXCEPT ![t] = "live"]
  /\ family' = [family EXCEPT ![t] = t]

Rotate(t, u) ==
  /\ status[t] = "live"
  /\ status[u] = "fresh"
  /\ status' = [status EXCEPT ![t] = "used", ![u] = "live"]
  /\ family' = [family EXCEPT ![u] = family[t]]

Expire(t) ==
  /\ status[t] \in {"live", "used"}
  /\ status' = [status EXCEPT ![t] = "revoked"]
  /\ UNCHANGED family

\* A used token was presented again.
DetectReuse(t) ==
  /\ status[t] = "used"
  /\ status' = [x \in Token |-> IF x \in Members(family[t]) THEN "revoked"
                                                            ELSE status[x]]
  /\ UNCHANGED family

Next == \E t \in Token : \/ Begin(t)
                         \/ \E u \in Token : Rotate(t, u)
                         \/ Expire(t)
                         \/ DetectReuse(t)

Spec == Init /\ [][Next]_vars

\* A client of the service relies on this: of all the tokens ever issued in a
\* family, at most one can still buy anything.
OneLivePerFamily ==
  \A t, u \in Token :
    /\ status[t] = "live"
    /\ status[u] = "live"
    /\ family[t] = family[u]
    => t = u
=============================================================================
