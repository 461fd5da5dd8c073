----------------------------- MODULE GoalRecovery -----------------------------
(***************************************************************************)
(* The recovery machine of pi-codex-goal: what the extension remembers of  *)
(* provider errors and context overflows while the host retries and        *)
(* compacts.                                                               *)
(* Source: packages/pi-codex-goal/src/recovery-machine.ts,                 *)
(* recovery-phase.ts, recovery.ts.                                         *)
(*                                                                         *)
(* The four phases of the code are the four values of two flags: the host  *)
(* is recovering from an overflow, and only a user's message may start the *)
(* next goal turn.  The counter of transient attempts and the failure      *)
(* signature it belongs to are kept by the code but decide nothing, and    *)
(* are left out.                                                           *)
(***************************************************************************)
EXTENDS Naturals

MaxContextCompactionRetries == 1

\* RecoveryAttention: none, pending for one of two reasons, or paused.
Attentions == {"none", "hostOverflow", "provider", "paused"}

Recoveries ==
    [attempts : Nat,            \* counters.compactionAttempts
     attention : Attentions,
     recovering : BOOLEAN,      \* phase hostOverflowRecovering...
     needsUser : BOOLEAN]       \* phase ...NeedsUserStart

FreshRecovery ==
    [attempts |-> 0, attention |-> "none", recovering |-> FALSE, needsUser |-> FALSE]

IsPending(r) == r.attention \in {"hostOverflow", "provider"}

ClearHostOverflowActive(r) == [r EXCEPT !.recovering = FALSE]

ApplyPersistedUserReset(r, needsReset) == [r EXCEPT !.needsUser = needsReset]

ResetCounters(r) == [r EXCEPT !.attempts = 0, !.attention = "none"]

ResetMachine(r) == ClearHostOverflowActive(ResetCounters(r))

OnSessionCompact(r) ==
    IF r.attention = "hostOverflow" THEN [r EXCEPT !.attention = "none"] ELSE r

BeginHostOverflowRecovery(r) ==
    [r EXCEPT !.recovering = TRUE, !.needsUser = TRUE, !.attention = "hostOverflow"]

RequireUserReset(r) == ApplyPersistedUserReset(r, TRUE)

-----------------------------------------------------------------------------
(***************************************************************************)
(* How an assistant message ended, and what is planned for an error.       *)
(* "silent" is an overflow without an error message.                       *)
(***************************************************************************)
Errors == {"overflow", "transient", "fatal"}
Outcomes == {"stop", "toolUse", "silent", "aborted"} \cup Errors

IsOverflow(outcome) == outcome \in {"overflow", "silent"}

Action(r, action) == [rec |-> r, action |-> action]

\* Mutant: the compaction that is one too many is let through.
PlanForOverflowLate(r) ==
    LET next == [r EXCEPT !.attempts = @ + 1]
    IN  Action(next, IF next.attempts > MaxContextCompactionRetries + 1
                     THEN "pause" ELSE "noop")

\* incrementOverflowCompactionAttempts
PlanForOverflow(r) ==
    LET next == [r EXCEPT !.attempts = @ + 1]
    IN  Action(next, IF next.attempts > MaxContextCompactionRetries
                     THEN "pause" ELSE "noop")

\* planRecoveryForAssistantError, planRecoveryForSilentContextOverflow
PlanForOutcome(r, outcome) ==
    CASE IsOverflow(outcome)    -> PlanForOverflow(r)
      [] outcome = "fatal"     -> Action(r, "pause")
      [] outcome = "transient" -> Action(r, "pending")
=============================================================================
