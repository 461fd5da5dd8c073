----------------------------- MODULE AsyncFiles -----------------------------
(***************************************************************************)
(* The two files of a background run, and what its runner may do to them:  *)
(* a record [phase, status, result] of the life of the process, the state  *)
(* in its status file and the state in its result file.                    *)
(***************************************************************************)
FinalStates == {"paused", "failed", "complete"}

\* A stop request, or a fanout that cannot be materialised, is written into
\* the status while children still end.
Leaving(f) ==
  IF f.phase = "running" /\ f.status = "running"
  THEN {[f EXCEPT !.status = s] : s \in {"paused", "failed"}} ELSE {}

\* The outcome is settled and the final status written.  A stopped run stays
\* paused.
Settling(f) ==
  IF f.phase = "running"
  THEN {[f EXCEPT !.phase = "settled", !.status = s] :
          s \in IF f.status = "paused" THEN {"paused"} ELSE {"failed", "complete"}}
  ELSE {}

\* The result says what the final status says; an error of writing it is only
\* logged.
Ending(f) ==
  IF f.phase = "settled"
  THEN {[f EXCEPT !.phase = "over", !.result = f.status], [f EXCEPT !.phase = "over"]}
  ELSE {}

Dying(f) ==
  IF f.phase \in {"running", "settled"} THEN {[f EXCEPT !.phase = "dead"]} ELSE {}
=============================================================================
