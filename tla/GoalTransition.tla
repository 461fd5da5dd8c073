--------------------------- MODULE GoalTransition ---------------------------
(***************************************************************************)
(* The transition planner of pi-codex-goal: every change of the goal is    *)
(* first a plan - the next goal, how it is persisted, and the effects on   *)
(* the rest of the runtime before and after that - which the state         *)
(* controller then carries out.                                            *)
(* Source: packages/pi-codex-goal/src/goal-transition.ts.                  *)
(*                                                                         *)
(* The effects of one plan never undo each other, so a plan holds sets of  *)
(* effect names where the code holds duplicate-free arrays.                *)
(***************************************************************************)
EXTENDS GoalState

Effects == {"clearContinuation", "clearActiveAccounting", "resetRecovery",
            "clearBudgetWarning", "clearHostOverflowRecovery",
            "setRecoveryPausedAttention", "markContinuationQueued",
            "stopStatusRefresh"}

PersistKinds == {"skip", "defer", "set", "clear"}

Plans == [persist : PersistKinds, next : GoalOrNull, source : {"command", "tool", "runtime"},
          before : SUBSET Effects, after : SUBSET Effects]

ForgetGoal == {"clearContinuation", "clearActiveAccounting", "resetRecovery",
               "clearBudgetWarning"}

GoalIdChanged(current, next) == current = Null \/ current.id # next.id

\* Mutant: the accounting of a goal that reached its budget keeps running.
MemoryEffectsKeepLimited(current, next) ==
    UNION {
      IF GoalIdChanged(current, next) THEN ForgetGoal ELSE {},
      IF next.status \in RuntimeStatuses
      THEN {} ELSE {"clearContinuation", "clearActiveAccounting"},
      IF next.status \in {"complete", "budgetLimited"} THEN {"resetRecovery"} ELSE {},
      IF next.status = "budgetLimited" THEN {} ELSE {"clearBudgetWarning"} }

\* memoryEffectsFromGoalChange
MemoryEffects(current, next) ==
    UNION {
      IF GoalIdChanged(current, next) THEN ForgetGoal ELSE {},
      IF next.status = "active" THEN {} ELSE {"clearContinuation", "clearActiveAccounting"},
      IF next.status \in {"complete", "budgetLimited"} THEN {"resetRecovery"} ELSE {},
      IF next.status = "budgetLimited" THEN {} ELSE {"clearBudgetWarning"} }

\* commandAfterPersistEffects
CommandEffects(current, next) ==
    UNION {
      IF next.status = "active" THEN {"markContinuationQueued"} ELSE {},
      IF /\ ~GoalIdChanged(current, next)
         /\ \/ next.status = "paused"
            \/ next.status = "active" /\ current.status = "paused"
      THEN {"resetRecovery"} ELSE {} }

DeriveGoalWithStatus(current, status, t) ==
    [current EXCEPT
        !.status = StatusAfterBudgetLimit(status, current.tokens, current.budget),
        !.updatedAt = UnixSeconds(t)]

-----------------------------------------------------------------------------
SetPlan(current, next, source) ==
    [persist |-> IF current = next THEN "skip" ELSE "set",
     next    |-> next,
     source  |-> source,
     before  |-> IF current = next THEN {} ELSE MemoryEffects(current, next),
     after   |-> IF source = "command" THEN CommandEffects(current, next) ELSE {}]

ClearPlan ==
    [persist |-> "clear", next |-> Null, source |-> "command",
     before |-> ForgetGoal, after |-> {"stopStatusRefresh"}]

\* planDerivedActiveToPausedTransition; its callers have checked that the
\* goal is active.
PausePlan(current, extra, t) ==
    LET next == DeriveGoalWithStatus(current, "paused", t)
    IN  [persist |-> "set", next |-> next, source |-> "runtime",
         before |-> extra \cup MemoryEffects(current, next), after |-> {}]

AbortPausePlan(current, t) == PausePlan(current, ForgetGoal, t)

RecoveryPausePlan(current, t) ==
    PausePlan(current, {"clearContinuation", "setRecoveryPausedAttention"}, t)

RecoveryShutdownPausePlan(current, t) ==
    PausePlan(current, {"clearContinuation", "clearHostOverflowRecovery",
                        "setRecoveryPausedAttention"}, t)

\* The caller has checked that the goal is paused.
ResumeActivePlan(current, t) ==
    LET next == DeriveGoalWithStatus(current, "active", t)
    IN  [persist |-> "set", next |-> next, source |-> "runtime",
         before |-> {"clearContinuation", "resetRecovery"} \cup MemoryEffects(current, next),
         after |-> {}]

\* validateRuntimeAccounting: the plan is refused, with an exception, when
\* this does not hold.
ValidRuntimeAccounting(current, next) ==
    /\ current # Null
    /\ current.id = next.id
    /\ IsRuntimeUsageGoalStatus(current.status)
    /\ IsRuntimeUsageGoalStatus(next.status)
    /\ ~(current.status = "budgetLimited" /\ next.status = "active")
    /\ current.budget = next.budget
    /\ next.updatedAt >= current.updatedAt
    /\ next.tokens >= current.tokens
    /\ next.seconds >= current.seconds
    /\ \/ next.tokens > current.tokens
       \/ next.seconds > current.seconds
       \/ next.status # current.status
    /\ next.status = "budgetLimited" =>
         next.budget # Null /\ next.tokens >= next.budget

\* Crossing the budget is written at once; other usage waits for a flush.
RuntimeAccountingPlan(current, next) ==
    [persist |-> IF current.status # "budgetLimited" /\ next.status = "budgetLimited"
                 THEN "set" ELSE "defer",
     next |-> next, source |-> "runtime",
     before |-> MemoryEffects(current, next), after |-> {}]
=============================================================================
