------------------------ MODULE ContinuationScheduler ------------------------
(***************************************************************************)
(* The memory of pi-codex-goal that continuation and recovery share, the   *)
(* scheduler that keeps an active goal going, and what a change of the     *)
(* goal does to both.                                                      *)
(* Source: packages/pi-codex-goal/src/continuation-scheduler.ts,           *)
(* goal-state-controller.ts, recovery-runtime.ts; the effects of a change  *)
(* are those GoalTransition plans.                                         *)
(*                                                                         *)
(* Every operation is a function on the memory, so that a handler can      *)
(* apply several of them in the code's order.  A timer may fire at any     *)
(* time after it is set, so its delay (none, or CONTINUATION_RETRY_MS) is  *)
(* left out, and with it the rule that a shorter delay replaces a longer.  *)
(* Input that only looks like a continuation is left out too.              *)
(***************************************************************************)
EXTENDS GoalRecovery, Sequences, SequencesExt

CONSTANTS GoalIds, Null

T == INSTANCE GoalTransition WITH TicksPerSecond <- 1
W == INSTANCE StaleQueuedWork

Statuses == {"active", "paused", "budgetLimited", "complete"}
Goals == [id : GoalIds, status : Statuses]
NoGoalOr == Goals \cup {Null}

ASSUME NullAssumption == Null \notin Goals \cup GoalIds

\* A message on its way to the host: a hidden continuation, the hidden start
\* of a goal, a goal's prompt sent as the user, the budget warning, or what
\* the user typed.
GoalKinds == {"continuation", "start", "goalUser"}
Messages == [kind : GoalKinds, id : GoalIds] \cup [kind : {"budget", "user"}, id : {Null}]
Message(kind, id) == [kind |-> kind, id |-> id]

Memories ==
    [goal : NoGoalOr,
     cap : BOOLEAN,                  \* what the log's last host_overflow_cap_reset says
     rec : Recoveries,               \* runtimeState.recoveryState
     queuedFor : GoalIds \cup {Null},\* continuationQueuedFor
     timerFor : GoalIds \cup {Null}, \* continuationScheduledFor, while the timer runs
     fallback : {"none", "armed", "overtaken"},
     guard : W!GuardStates,          \* staleQueuedWorkGuard's state
     warned : GoalIds \cup {Null},   \* accounting.budgetWarningSentFor
     queue : Seq(Messages),          \* sendMessage: the host's follow-ups
     inbox : Seq(Messages)]          \* sendUserMessage: before onInput has run

IsActive(m) == m.goal # Null /\ m.goal.status = "active"
IsCurrentActive(m, id) == IsActive(m) /\ m.goal.id = id

-----------------------------------------------------------------------------
(***************************************************************************)
(* The scheduler.                                                          *)
(***************************************************************************)
ClearContinuationTimer(m) == [m EXCEPT !.timerFor = Null]

ClearContinuationState(m) == [m EXCEPT !.timerFor = Null, !.queuedFor = Null]

\* Mutant: the mark survives.
ClearContinuationTimerFor(m, id) == [m EXCEPT !.timerFor = IF @ = id THEN Null ELSE @]

ClearContinuationStateFor(m, id) ==
    [m EXCEPT !.queuedFor = IF @ = id THEN Null ELSE @,
              !.timerFor = IF @ = id THEN Null ELSE @]

MarkContinuationQueued(m, id) == [m EXCEPT !.queuedFor = id]

CanPlanContinuation(m) ==
    /\ m.guard.kind # "aborting"
    /\ IsActive(m)
    /\ m.queuedFor # m.goal.id
    /\ ~IsPending(m.rec)
    /\ ~m.rec.recovering

ScheduleContinuationCheck(m) == [m EXCEPT !.timerFor = m.goal.id]

SendContinuation(m) ==
    [m EXCEPT !.queuedFor = m.goal.id,
              !.queue = Append(@, Message("continuation", m.goal.id))]

\* Mutant: a busy host is not asked again.
MaybeContinueOnce(m, isIdle) ==
    IF CanPlanContinuation(m) /\ isIdle /\ m.queue = <<>>
    THEN SendContinuation(ClearContinuationTimer(m))
    ELSE m

\* Mutant: the context kept for the timer always says that the host is busy.
MaybeContinueStaleContext(m, isIdle) ==
    IF CanPlanContinuation(m) THEN ScheduleContinuationCheck(m) ELSE m

\* ctx.hasPendingMessages() is a queue that is not empty.
MaybeContinue(m, isIdle) ==
    IF ~CanPlanContinuation(m) THEN m
    ELSE IF ~isIdle \/ m.queue # <<>> THEN ScheduleContinuationCheck(m)
    ELSE SendContinuation(ClearContinuationTimer(m))

MaybeContinueAfterCurrentEvent(m) ==
    IF CanPlanContinuation(m) THEN ScheduleContinuationCheck(m) ELSE m

-----------------------------------------------------------------------------
(***************************************************************************)
(* Changes of the goal, with the effects their plans name.                 *)
(***************************************************************************)
ResetErrorRecovery(m) == [m EXCEPT !.rec = ResetMachine(@)]

\* applyGoalTransitionEffects; the accounting is the ledger's.
ApplyEffects(m, effects) ==
    LET a == IF "clearContinuation" \in effects THEN ClearContinuationState(m) ELSE m
        b == IF "resetRecovery" \in effects THEN ResetErrorRecovery(a) ELSE a
        c == IF "clearBudgetWarning" \in effects THEN [b EXCEPT !.warned = Null] ELSE b
        d == IF "clearHostOverflowRecovery" \in effects
             THEN [c EXCEPT !.rec = ClearHostOverflowActive(@)] ELSE c
        e == IF "setRecoveryPausedAttention" \in effects
             THEN [d EXCEPT !.rec.attention = "paused"] ELSE d
    IN  IF "markContinuationQueued" \in effects
        THEN MarkContinuationQueued(e, e.goal.id) ELSE e

\* applyGoalTransition: the effects of the plan, around the change itself.
Transition(m, next, before, after) ==
    ApplyEffects([ApplyEffects(m, before) EXCEPT !.goal = next], after)

SetGoalByCommand(m, next) ==
    Transition(m, next, T!MemoryEffects(m.goal, next), T!CommandEffects(m.goal, next))

SetGoalByTool(m, next) == Transition(m, next, T!MemoryEffects(m.goal, next), {})

ClearGoal(m) == Transition(m, Null, T!ForgetGoal, {})

WithStatus(m, status) == [m.goal EXCEPT !.status = status]

\* abort_pause, recovery_pause, recovery_shutdown_pause: only of an active goal.
PauseWith(m, effects) ==
    IF ~IsActive(m) THEN m
    ELSE Transition(m, WithStatus(m, "paused"),
                    effects \cup T!MemoryEffects(m.goal, WithStatus(m, "paused")), {})

\* Mutant: the recovery of the turn before is kept.
PauseForAbortOnly(m) == PauseWith(m, {"clearContinuation"})

PauseForAbort(m) == PauseWith(m, T!ForgetGoal)

PauseForRecovery(m) == PauseWith(m, {"clearContinuation", "setRecoveryPausedAttention"})

PauseForShutdown(m) ==
    PauseWith(m, {"clearContinuation", "clearHostOverflowRecovery",
                  "setRecoveryPausedAttention"})

ResumePausedGoal(m) ==
    Transition(m, WithStatus(m, "active"),
               {"clearContinuation", "resetRecovery"}
                 \cup T!MemoryEffects(m.goal, WithStatus(m, "active")), {})

-----------------------------------------------------------------------------
(***************************************************************************)
(* The overflow flag in the log, and errors.                               *)
(***************************************************************************)
OverflowBegun(m) ==
    IF IsActive(m)
    THEN [ClearContinuationState(m) EXCEPT !.rec = BeginHostOverflowRecovery(@)]
    ELSE [m EXCEPT !.rec = RequireUserReset(@)]

\* Mutant: an overflow while no goal is active is not written down.
BeginOverflowRecoveryOfGoal(m) ==
    IF m.rec.needsUser \/ ~IsActive(m) THEN OverflowBegun(m)
    ELSE [OverflowBegun(m) EXCEPT !.cap = TRUE]

\* An entry is appended only if the flag was not set.
BeginOverflowRecovery(m) ==
    IF m.rec.needsUser THEN OverflowBegun(m) ELSE [OverflowBegun(m) EXCEPT !.cap = TRUE]

PersistUserReset(m, needsReset) ==
    IF m.rec.needsUser = needsReset THEN m
    ELSE [m EXCEPT !.rec = ApplyPersistedUserReset(@, needsReset), !.cap = needsReset]

\* handlePersistentAssistantError, handleSilentContextOverflow
HandlePersistentError(m, outcome) ==
    LET plan == PlanForOutcome(m.rec, outcome)
        noted == [m EXCEPT !.rec = plan.rec]
    IN  IF ~IsActive(m) THEN m
        ELSE CASE plan.action = "noop"    -> noted
               [] plan.action = "pause"   -> PauseForRecovery(noted)
               [] plan.action = "pending" ->
                    [ClearContinuationState(noted) EXCEPT !.rec.attention = "provider"]

\* Mutant: the flag in memory is kept.
ReloadGoalFromSession(m, goal, cap) ==
    ClearContinuationState([m EXCEPT !.goal = goal, !.cap = cap])

\* reloadFromSession, with what the branch of the log says.
ReloadFromSession(m, goal, cap) ==
    LET read == [m EXCEPT !.goal = goal, !.cap = cap,
                          !.rec = ApplyPersistedUserReset(@, cap)]
        idOf(g) == IF g = Null THEN Null ELSE g.id
    IN  ApplyEffects(read, {"clearContinuation"} \cup
                           IF idOf(goal) # idOf(m.goal) THEN {"resetRecovery"} ELSE {})
=============================================================================
