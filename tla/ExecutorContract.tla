-------------------------- MODULE ExecutorContract --------------------------
(***************************************************************************)
(* What an executor promises whoever placed it: the exit code, read with   *)
(* the API's own record, says whether the attempt is settled.  The         *)
(* launcher reports an attempt failed on any code but these three.         *)
(***************************************************************************)

VARIABLES
  held,   \* the API holds an outcome of the attempt, or the attempt is over for it
  told,   \* the executor was told to stop
  exit    \* its exit code

vars == <<held, told, exit>>

OwnCodes == {"completed", "failed", "stopped"}
Codes    == OwnCodes \cup {"unreported", "killed"}

Init == ~held /\ ~told /\ exit = "none"

Hold == ~held /\ held' /\ UNCHANGED <<told, exit>>
Tell == ~told /\ told' /\ UNCHANGED <<held, exit>>

\* It takes an outcome's code only once the API has one, and the stop's only after a stop.
Exit(c) ==
  /\ exit = "none"
  /\ c \in {"completed", "failed"} => held
  /\ c = "stopped" => told
  /\ exit' = c
  /\ UNCHANGED <<held, told>>

Next == Hold \/ Tell \/ \E c \in Codes : Exit(c)

Spec == Init /\ [][Next]_vars

=============================================================================
