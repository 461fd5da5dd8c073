--------------------------- MODULE ForegroundChild --------------------------
(***************************************************************************)
(* One child process of a foreground run: runSingleAttempt of              *)
(* runs/foreground/execution.ts.  The call that started it awaits the      *)
(* child, until its streams are closed or until it is detached: to the     *)
(* background, where its status and result files stand for it, or for a    *)
(* talk with its supervisor, where nothing does.  A child is a record;     *)
(* every handler and every timer is an operator from a child to a child.   *)
(*   proc      running, exited (streams still open), closed                *)
(*   code      the exit code, or "nonzero" for a signal                    *)
(*   killed    SIGKILL was sent.  A process may ignore SIGINT and SIGTERM, *)
(*             so that sending them leaves no other mark than forced; the  *)
(*             SIGTERM one second after an interrupt and the SIGTERM of an *)
(*             abort, which no SIGKILL follows, leave none                 *)
(*   drain     finalDrainTimer and finalHardKillTimer                      *)
(*   limit     timeoutTimer and timeoutKillTimer; hard and spent: timedOut *)
(*   detached  not at all, to the background, for intercom coordination    *)
(*   intercom  intercomStarted                                             *)
(*   the rest  the local variables of the same names                       *)
(***************************************************************************)

NoChild == [proc |-> "none"]

ChildErrors == {"none", "noExit", "timeout", "other"}

ChildType ==
  [proc : {"running", "exited", "closed"}, code : {"zero", "nonzero"},
   killed : BOOLEAN, drain : {"off", "grace", "hard", "spent"},
   limit : {"armed", "hard", "spent"},
   detached : {"no", "background", "intercom"}, intercom : BOOLEAN,
   interrupted : BOOLEAN, forced : BOOLEAN, clean : BOOLEAN,
   assistantError : BOOLEAN, error : ChildErrors]

Spawned ==
  [proc |-> "running", code |-> "zero", killed |-> FALSE, drain |-> "off",
   limit |-> "armed", detached |-> "no", intercom |-> FALSE,
   interrupted |-> FALSE, forced |-> FALSE, clean |-> FALSE,
   assistantError |-> FALSE, error |-> "none"]

Live(c) == c.proc \in {"running", "exited"}

\* The call still awaits the child: neither processClosed, settled nor detached.
Awaited(c) == Live(c) /\ c.detached = "no"

(***************************************************************************)
(* What the child writes.  A detached child is still read, but no drain    *)
(* starts for it.                                                          *)
(***************************************************************************)
AssistantFails(c) == [c EXCEPT !.assistantError = TRUE]

IntercomStarts(c) == [c EXCEPT !.intercom = TRUE]

StartFinalDrain(c) ==
  [c EXCEPT !.drain = IF @ = "off" /\ Awaited(c) THEN "grace" ELSE @]

\* A final assistant message: with an error of the provider, or clean, with a
\* text that clears older errors.
AssistantStops(c, failed, hasText) ==
  StartFinalDrain([c EXCEPT
    !.assistantError = IF failed THEN TRUE ELSE @ /\ ~hasText,
    !.clean = @ \/ (Awaited(c) /\ ~failed)])

(***************************************************************************)
(* The timers of an awaited child.                                         *)
(***************************************************************************)
FinalDrainFires(c) ==
  [c EXCEPT !.drain = "hard", !.forced = TRUE,
            !.error = IF ~c.clean /\ @ = "none" /\ ~c.assistantError
                      THEN "noExit" ELSE @]

HardKillFires(c) == [c EXCEPT !.drain = "spent", !.killed = TRUE]

\* Mutant: a child that ignores SIGTERM is not killed.
TimeoutFiresOnce(c) ==
  [c EXCEPT !.limit = "spent", !.error = IF @ = "none" THEN "timeout" ELSE @]

TimeoutFires(c) ==
  [c EXCEPT !.limit = "hard", !.error = IF @ = "none" THEN "timeout" ELSE @]

TimeoutKillFires(c) == [c EXCEPT !.limit = "spent", !.killed = TRUE]

(***************************************************************************)
(* Requests from outside.  A child that is no longer awaited ignores them. *)
(***************************************************************************)
InterruptChild(c) == IF Awaited(c) THEN [c EXCEPT !.interrupted = TRUE] ELSE c

\* finish(-2): the call goes on without the child; its timers are cleared.
\* What the child had been sent before, it has been sent.
Detach(c, how) ==
  [c EXCEPT !.detached = how, !.drain = "spent", !.limit = "spent",
            !.clean = FALSE, !.forced = FALSE]

\* The request of the intercom names no child: all that talk answer it.
DetachForIntercom(c) ==
  IF Awaited(c) /\ c.intercom THEN Detach(c, "intercom") ELSE c

(***************************************************************************)
(* The end of the process.  Its exit clears the drain, not the time limit. *)
(***************************************************************************)
Exits(c, code) ==
  [c EXCEPT !.proc = "exited", !.code = code, !.drain = "spent"]

HasError(c) == c.error # "none" \/ c.assistantError

DrainedAfterSuccess(c) == c.forced /\ c.clean /\ ~HasError(c)

\* What is on stderr becomes the error of a child that failed without one.  A
\* detached child is told nothing of the drain it may have been through.
StderrCounts(c) ==
  /\ c.code = "nonzero" /\ ~HasError(c)
  /\ c.detached # "no" \/ ~DrainedAfterSuccess(c)

Closes(c, stderr) ==
  [c EXCEPT !.proc = "closed",
            !.error = IF @ # "none" THEN @
                      ELSE IF c.assistantError \/ (stderr /\ StderrCounts(c))
                      THEN "other" ELSE "none"]

FailsToSpawn(c) ==
  [c EXCEPT !.proc = "closed", !.code = "nonzero",
            !.error = IF @ = "none" THEN "other" ELSE @]

(***************************************************************************)
(* What runSingleAttempt returns.  An interrupt outweighs everything and   *)
(* drops the error; a detached child counts as exit code 0 and keeps it.   *)
(* An attempt that ended well may still hide an error in its last tool     *)
(* results, whose text may even name exit code 0.                          *)
(***************************************************************************)
FinalCode(c) ==
  IF c.limit # "armed" THEN 1
  ELSE IF DrainedAfterSuccess(c) THEN 0
  ELSE IF c.code = "zero" THEN 0 ELSE 1

HiddenErrors(c) ==
  IF c.interrupted \/ c.detached # "no" \/ FinalCode(c) # 0 \/ c.error # "none"
  THEN {"none"} ELSE {"none", "fails", "exitZero"}

AttemptResult(c, hidden) ==
  [exit |-> IF c.interrupted \/ c.detached # "no" THEN 0
            ELSE IF hidden = "exitZero" THEN 0
            ELSE IF hidden = "fails" \/ c.error # "none" THEN 1
            ELSE FinalCode(c),
   error |-> IF c.interrupted THEN "none"
             ELSE IF hidden # "none" THEN "other" ELSE c.error,
   interrupted |-> c.interrupted,
   detached |-> c.detached # "no"]

AttemptSucceeds(r) == r.exit = 0 /\ r.error = "none"

\* isRetryableModelFailure: the message of a time limit always matches, that of
\* a child that did not leave and a missing one never do; others may.
Retryable(r) ==
  CASE r.error = "timeout" -> {TRUE}
    [] r.error = "other" -> BOOLEAN
    [] OTHER -> {FALSE}

(***************************************************************************)
(* The files of a child that was detached to the background, written when  *)
(* it closes.  The result asks for the error, the status does not.         *)
(***************************************************************************)
BackgroundExit(c) == IF c.code = "zero" THEN 0 ELSE 1

\* Mutant: the status says nothing of an interrupt.
BackgroundStatusOfExit(c) ==
  IF BackgroundExit(c) = 0 THEN "complete" ELSE "failed"

BackgroundStatus(c) ==
  IF c.interrupted THEN "paused"
  ELSE IF BackgroundExit(c) = 0 THEN "complete" ELSE "failed"

BackgroundResult(c) ==
  IF c.interrupted THEN "paused"
  ELSE IF BackgroundExit(c) = 0 /\ c.error = "none" THEN "complete"
  ELSE "failed"
=============================================================================
