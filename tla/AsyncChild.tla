----------------------------- MODULE AsyncChild -----------------------------
(***************************************************************************)
(* One child process of a background run: runPiStreaming of                *)
(* runs/background/subagent-runner.ts.  The child writes messages, may be  *)
(* asked to stop by an interrupt, by the drain that follows its final      *)
(* message or by its time limit, and the promise of the runner resolves    *)
(* when its streams are closed.  A child is a record; every handler and    *)
(* every timer is an operator from a child to a child.                     *)
(*   proc      the process: running, exited (streams still open), closed   *)
(*   code      how it ended                                                *)
(*   sig       the strongest signal it was sent                            *)
(*   drain     finalDrainTimer and finalHardKillTimer                      *)
(*   limit     timeoutTimer and timeoutKillTimer                           *)
(*   intTimer  the timer from SIGINT to SIGTERM                            *)
(*   the rest  the local variables of the same names                       *)
(***************************************************************************)

NoChild == [proc |-> "none"]

Procs == {"running", "exited", "closed"}
Codes == {"zero", "nonzero", "signal", "spawnError"}
Signals == {"none", "INT", "TERM", "KILL"}
ChildErrors == {"none", "interrupted", "noExit", "timeout", "spawnError"}

ChildType ==
  [proc : Procs, code : Codes, sig : Signals,
   drain : {"off", "grace", "hard", "spent"},
   limit : {"armed", "hard", "spent"},
   intTimer : BOOLEAN, interrupted : BOOLEAN, timedOut : BOOLEAN,
   forced : BOOLEAN, clean : BOOLEAN, assistantError : BOOLEAN,
   error : ChildErrors]

Spawned ==
  [proc |-> "running", code |-> "zero", sig |-> "none", drain |-> "off",
   limit |-> "armed", intTimer |-> FALSE, interrupted |-> FALSE,
   timedOut |-> FALSE, forced |-> FALSE, clean |-> FALSE,
   assistantError |-> FALSE, error |-> "none"]

\* trySignalChild: a stronger signal is not undone by a weaker one.
Signal(c, s) ==
  [c EXCEPT !.sig = IF \/ @ = "KILL"
                       \/ @ = "TERM" /\ s = "INT" THEN @ ELSE s]

\* An assistant message that does not end the run, with an error or not.
AssistantFails(c) == [c EXCEPT !.assistantError = TRUE]

\* startFinalDrain: the first final message starts the grace period.
StartFinalDrain(c) == [c EXCEPT !.drain = IF @ = "off" THEN "grace" ELSE @]

\* A final assistant message, stop reason "stop" and no tool call: with an
\* error of the provider, or clean, with a text that clears older errors.
AssistantStops(c, failed, hasText) ==
  StartFinalDrain([c EXCEPT
    !.assistantError = IF failed THEN TRUE ELSE @ /\ ~hasText,
    !.clean = @ \/ ~failed])

\* The grace period is over and the process is still there: SIGTERM.
FinalDrainFires(c) ==
  [Signal(c, "TERM") EXCEPT
     !.drain = "hard", !.forced = TRUE,
     !.error = IF ~c.clean /\ @ = "none" /\ ~c.assistantError
               THEN "noExit" ELSE @]

HardKillFires(c) == [Signal(c, "KILL") EXCEPT !.drain = "spent"]

\* Mutant: a child that ignores SIGTERM is not killed.
TimeoutFiresOnce(c) ==
  [Signal(c, "TERM") EXCEPT
     !.limit = "spent", !.timedOut = TRUE, !.forced = TRUE,
     !.error = IF @ = "none" THEN "timeout" ELSE @]

\* The time limit of the child: SIGTERM, and SIGKILL five seconds later.
TimeoutFires(c) ==
  [Signal(c, "TERM") EXCEPT
     !.limit = "hard", !.timedOut = TRUE, !.forced = TRUE,
     !.error = IF @ = "none" THEN "timeout" ELSE @]

TimeoutKillFires(c) == [Signal(c, "KILL") EXCEPT !.limit = "spent"]

\* The function the child registered with the runner.
InterruptChild(c) ==
  IF c.proc = "closed" THEN c
  ELSE [Signal(c, "INT") EXCEPT
          !.interrupted = TRUE, !.intTimer = TRUE,
          !.error = IF @ = "none" THEN "interrupted" ELSE @]

InterruptTermFires(c) == [Signal(c, "TERM") EXCEPT !.intTimer = FALSE]

\* The exit handler clears the timers of the run.
Exits(c, code) ==
  [c EXCEPT !.proc = "exited", !.code = code, !.drain = "spent",
            !.limit = "spent"]

\* The streams end, or attachPostExitStdioGuard destroys them after the exit.
Closes(c) == [c EXCEPT !.proc = "closed", !.intTimer = FALSE]

\* The process could not be spawned: settled without an exit.
FailsToSpawn(c) ==
  [c EXCEPT !.proc = "closed", !.code = "spawnError", !.drain = "spent",
            !.limit = "spent", !.intTimer = FALSE,
            !.error = IF @ = "none" THEN "spawnError" ELSE @]

(***************************************************************************)
(* What the promise resolves to when the child is closed.  The error of an *)
(* interrupted child and of one that was drained after a clean final       *)
(* message is dropped, and its exit code is 0.                             *)
(***************************************************************************)
HasFinalError(c) == c.error # "none" \/ c.assistantError

DrainedAfterSuccess(c) == c.forced /\ c.clean /\ ~HasFinalError(c)

StreamingResult(c) ==
  [exit |-> IF c.code = "spawnError" THEN 1
            ELSE IF c.interrupted \/ DrainedAfterSuccess(c) THEN 0
            ELSE IF c.timedOut THEN 1
            ELSE IF c.code = "zero" THEN 0 ELSE 1,
   error |-> \/ c.code = "spawnError"
             \/ /\ ~(c.interrupted \/ DrainedAfterSuccess(c))
                /\ HasFinalError(c),
   interrupted |-> c.interrupted /\ c.code # "spawnError"]
=============================================================================
