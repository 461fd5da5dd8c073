------------------------------ MODULE AsyncRun ------------------------------
(***************************************************************************)
(* What the parts of pi-subagents around a background run rely on: the     *)
(* runner process owns a status file and, once, a result file.  The status *)
(* may say that the run is paused or failed while its children still end;  *)
(* when the runner has settled the outcome it writes the final status,     *)
(* then the result, and the result says what the final status says.  The   *)
(* runner may die at any moment, and writing the result may fail.          *)
(* AsyncRunner implements this module; AsyncDelivery reads these files.    *)
(***************************************************************************)
EXTENDS AsyncFiles

VARIABLES phase, status, result

asyncVars == <<phase, status, result>>

File == [phase |-> phase, status |-> status, result |-> result]

AsyncTypeOK ==
  /\ phase \in {"running", "settled", "over", "dead"}
  /\ status \in {"running"} \cup FinalStates
  /\ result \in {"none"} \cup FinalStates

AsyncInit == phase = "running" /\ status = "running" /\ result = "none"

AsyncNext == File' \in Leaving(File) \cup Settling(File) \cup Ending(File) \cup Dying(File)

AsyncSpec == AsyncInit /\ [][AsyncNext]_asyncVars
=============================================================================
