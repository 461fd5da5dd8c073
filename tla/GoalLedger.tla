----------------------------- MODULE GoalLedger -----------------------------
(***************************************************************************)
(* The goal, its durable copy and its accounting: what pi-codex-goal keeps *)
(* in memory, what it appends to the session log, and how the one is read  *)
(* back from the other after a crash, a restart or a move in the session   *)
(* tree.                                                                   *)
(* Source: packages/pi-codex-goal/src/goal-persistence.ts,                 *)
(* goal-accounting.ts, goal-state-controller.ts, commands.ts, tools.ts and *)
(* the goal-changing part of the goal-runtime-*-handlers.ts.               *)
(*                                                                         *)
(* A handler runs without interruption, but calls several operations, each *)
(* on the result of the one before: account, then flush, then pause.  The  *)
(* operations are therefore functions on the ledger, a record, and one     *)
(* handler is one action.  Continuation, recovery and the guard against    *)
(* stale work are other components; here they show as choices (a recovery  *)
(* gives up or not, the guard drops the accounting).                       *)
(***************************************************************************)
EXTENDS GoalTransition

CONSTANTS
    TokenBudgets,     \* budgets create_goal may be called with
    TurnTokens,       \* token counts a turn may report
    PersistInterval,  \* RUNTIME_PERSIST_INTERVAL_MS, in seconds
    MaxNow,           \* bound: the last instant of the wall clock, and the
                      \* seconds a goal may have when a handler starts
    MaxLog,           \* bound: handlers start with shorter logs only
    MaxSpent,         \* bound: tokens all turns together may report
    MaxNavs           \* bound: moves in the session tree

ASSUME GoalLedgerAssumption ==
    /\ TokenBudgets \subseteq Nat \ {0}
    /\ TurnTokens \subseteq Nat
    /\ PersistInterval \in Nat \ {0}
    /\ MaxNow \in Nat /\ MaxLog \in Nat /\ MaxSpent \in Nat /\ MaxNavs \in Nat

\* null is no goal to the life cycle either, which sees id and status alone.
ASSUME ViewAssumption == Null \notin [id : GoalIds, status : Statuses]

VARIABLES
    led,      \* the ledger: the goal in memory, its durable copy, the log
    alive,    \* a session is open: session_start has run
    run,      \* the host's agent run: where it is, what its last turn was
    dialog,   \* the confirmation the user is looking at
    now,      \* the wall clock, in ticks
    usedIds,  \* goal ids given out
    spent,    \* tokens all turns reported (only counted, never read)
    navs      \* moves in the session tree (only counted, never read)

vars == <<led, alive, run, dialog, now, usedIds, spent, navs>>

Instants == Nat \cup {Null}

Ledgers == [goal : GoalOrNull,          \* createGoalPersistence: goal
            persisted : GoalOrNull,     \* lastPersistedGoal
            persistedAt : Instants,     \* lastRuntimePersistAt
            owner : GoalIds \cup {Null},\* accounting.activeGoalId
            since : Instants,           \* accounting.lastAccountedAt
            log : Seq(Entries)]         \* the entries of the session branch

\* What a new process holds before session_start.
FreshLedger(log) ==
    [goal |-> Null, persisted |-> Null, persistedAt |-> Null,
     owner |-> Null, since |-> Null, log |-> log]

-----------------------------------------------------------------------------
(***************************************************************************)
(* Persistence and transitions.                                            *)
(***************************************************************************)
\* Mutant: the durable goal's status is not looked at.
CanPersistUsageOfAnyGoal(goal, persisted) ==
    /\ persisted # Null
    /\ goal.id = persisted.id
    /\ goal.budget = persisted.budget
    /\ IsRuntimeUsageGoalStatus(goal.status)

CanPersistRuntimeUsageEntry(goal, persisted) ==
    /\ persisted # Null
    /\ goal.id = persisted.id
    /\ goal.budget = persisted.budget
    /\ IsRuntimeUsageGoalStatus(goal.status)
    /\ IsRuntimeUsageGoalStatus(persisted.status)

FlushedEntry(m, source) ==
    IF source = "runtime" /\ CanPersistRuntimeUsageEntry(m.goal, m.persisted)
    THEN RuntimeUsageEntry(m.goal)
    ELSE SetEntry(m.goal)

FlushGoalPersistence(m, source, t) ==
    IF m.goal = Null \/ m.goal = m.persisted
    THEN m
    ELSE [m EXCEPT !.log = Append(@, FlushedEntry(m, source)),
                   !.persisted = m.goal, !.persistedAt = t]

\* Mutant: a flush is due one tick late.
RuntimeFlushDueLate(m, t) ==
    /\ m.goal # Null
    /\ m.goal.status = "active"
    /\ m.persistedAt = Null \/ t - m.persistedAt > PersistInterval * TicksPerSecond

RuntimeFlushDue(m, t) ==
    /\ m.goal # Null
    /\ m.goal.status = "active"
    /\ m.persistedAt = Null \/ t - m.persistedAt >= PersistInterval * TicksPerSecond

MaybeFlushRuntimePersistence(m, t) ==
    IF RuntimeFlushDue(m, t) THEN FlushGoalPersistence(m, "runtime", t) ELSE m

ClearActiveAccounting(m) == [m EXCEPT !.owner = Null, !.since = Null]

\* The one effect of a plan that reaches the ledger.
ApplyEffects(m, effects) ==
    IF "clearActiveAccounting" \in effects THEN ClearActiveAccounting(m) ELSE m

ApplyGoalTransition(m, plan, t) ==
    LET b == ApplyEffects(m, plan.before)
    IN  CASE plan.persist = "clear" ->
               [b EXCEPT !.goal = Null, !.persisted = Null, !.persistedAt = Null,
                         !.log = Append(@, ClearEntry)]
          [] plan.persist = "skip"  -> b
          [] plan.persist = "defer" -> [b EXCEPT !.goal = plan.next]
          [] plan.persist = "set"   ->
               FlushGoalPersistence([b EXCEPT !.goal = plan.next], plan.source, t)

SetGoal(m, next, source, t) ==
    ApplyGoalTransition(m, SetPlan(m.goal, next, source), t)

PauseForAbort(m, t) ==
    IF m.goal # Null /\ m.goal.status = "active"
    THEN ApplyGoalTransition(m, AbortPausePlan(m.goal, t), t) ELSE m

PauseForRecovery(m, t) ==
    IF m.goal # Null /\ m.goal.status = "active"
    THEN ApplyGoalTransition(m, RecoveryPausePlan(m.goal, t), t) ELSE m

PauseForShutdown(m, t) ==
    IF m.goal # Null /\ m.goal.status = "active"
    THEN ApplyGoalTransition(m, RecoveryShutdownPausePlan(m.goal, t), t) ELSE m

ResumePausedGoal(m, t) ==
    IF m.goal # Null /\ m.goal.status = "paused"
    THEN ApplyGoalTransition(m, ResumeActivePlan(m.goal, t), t) ELSE m

-----------------------------------------------------------------------------
(***************************************************************************)
(* Accounting.                                                             *)
(***************************************************************************)
BeginAccounting(m, t) ==
    IF m.goal # Null /\ m.goal.status = "active"
    THEN [m EXCEPT !.owner = m.goal.id, !.since = t]
    ELSE ClearActiveAccounting(m)

\* The accounting under way is this goal's, and the goal takes usage.
AccountsFor(m, accountBudgetLimited) ==
    CanAccount(m.goal, accountBudgetLimited) /\ m.owner = m.goal.id

Elapsed(m, t) == IF m.since = Null THEN 0 ELSE ElapsedSeconds(m.since, t)

NextUsage(m, tokens, t) == ApplyUsage(m.goal, tokens, Elapsed(m, t), t)

UsageChanges(m, tokens, t) == tokens > 0 \/ Elapsed(m, t) > 0

AccountProgress(m, tokens, accountBudgetLimited, t) ==
    LET touched == [m EXCEPT !.since = t]
        next == NextUsage(m, tokens, t)
    IN  IF ~AccountsFor(m, accountBudgetLimited) THEN BeginAccounting(m, t)
        ELSE IF UsageChanges(m, tokens, t) /\ ValidRuntimeAccounting(m.goal, next)
        THEN ApplyGoalTransition(touched, RuntimeAccountingPlan(m.goal, next), t)
        ELSE touched

\* The plan is refused: the handler that called accountProgress ends there.
AccountingThrows(m, tokens, accountBudgetLimited, t) ==
    /\ AccountsFor(m, accountBudgetLimited)
    /\ UsageChanges(m, tokens, t)
    /\ ~ValidRuntimeAccounting(m.goal, NextUsage(m, tokens, t))

-----------------------------------------------------------------------------
(***************************************************************************)
(* Handlers, as functions on the ledger.                                   *)
(***************************************************************************)
\* reloadFromSession
ReloadFromSession(m) ==
    LET goal == ReconstructGoal(m.log)
        r == [m EXCEPT !.goal = goal, !.persisted = goal, !.persistedAt = Null]
    IN  IF goal # Null /\ goal.status = "active" THEN r ELSE ClearActiveAccounting(r)

\* onToolExecutionEnd
ToolExecutionEndLedger(m, t) ==
    LET a == AccountProgress(m, 0, TRUE, t)
    IN  IF AccountingThrows(m, 0, TRUE, t) THEN a ELSE MaybeFlushRuntimePersistence(a, t)

\* Mutant: the end of a turn only flushes when the interval has passed.
TurnEndLedgerMayFlush(m, tokens, aborted, t) ==
    LET a == AccountProgress(m, tokens, FALSE, t)
        f == MaybeFlushRuntimePersistence(a, t)
    IN  IF AccountingThrows(m, tokens, FALSE, t) THEN a
        ELSE IF aborted THEN PauseForAbort(f, t)
        ELSE f

\* Mutant: the pause is planned from the goal read before the accounting.
TurnEndLedgerStaleGoal(m, tokens, aborted, t) ==
    LET a == AccountProgress(m, tokens, FALSE, t)
        f == FlushGoalPersistence(a, "runtime", t)
    IN  IF AccountingThrows(m, tokens, FALSE, t) THEN a
        ELSE IF aborted /\ m.goal # Null /\ m.goal.status = "active"
        THEN ApplyGoalTransition(f, AbortPausePlan(m.goal, t), t)
        ELSE f

\* onTurnEnd
TurnEndLedger(m, tokens, aborted, t) ==
    LET a == AccountProgress(m, tokens, FALSE, t)
        f == FlushGoalPersistence(a, "runtime", t)
    IN  IF AccountingThrows(m, tokens, FALSE, t) THEN a
        ELSE IF aborted THEN PauseForAbort(f, t)
        ELSE f

\* onAgentEnd; gaveUp says that recovery turns the last error into a pause.
AgentEndLedger(m, aborted, abortedTokens, gaveUp, t) ==
    LET a == AccountProgress(m, abortedTokens, TRUE, t)
        f == FlushGoalPersistence(a, "runtime", t)
    IN  IF AccountingThrows(m, abortedTokens, TRUE, t) THEN a
        ELSE IF aborted THEN PauseForAbort(f, t)
        ELSE IF gaveUp THEN PauseForRecovery(f, t)
        ELSE f

\* onSessionBeforeCompact
BeforeCompactLedger(m, t) ==
    LET a == AccountProgress(m, 0, TRUE, t)
    IN  IF AccountingThrows(m, 0, TRUE, t) THEN a ELSE FlushGoalPersistence(a, "runtime", t)

\* onSessionShutdown; dropped says that the guard against stale work drops
\* the accounting first, pending that a recovery was waiting for the host.
ShutdownLedger(m, dropped, pending, t) ==
    LET b == IF dropped THEN ClearActiveAccounting(m) ELSE m
        a == AccountProgress(b, 0, TRUE, t)
        f == FlushGoalPersistence(a, "runtime", t)
    IN  IF AccountingThrows(b, 0, TRUE, t) THEN a
        ELSE IF pending THEN PauseForShutdown(f, t)
        ELSE f

\* completeGoal: idempotent on a complete goal, an error without one.
CompleteGoalLedger(m, t) ==
    LET a == AccountProgress(m, 0, TRUE, t)
    IN  IF AccountingThrows(m, 0, TRUE, t) \/ ~MayUpdateGoalStatus(a.goal, "complete") THEN a
        ELSE SetGoal(a, UpdateGoalStatus(a.goal, "complete", t), "tool", t)

\* What commands and tools see and, for pause and resume, store.
GoalForDisplay(m, t) == GoalWithLiveUsage(m.goal, m.owner, m.since, t)

-----------------------------------------------------------------------------
IdleRun == [phase |-> "idle", goal |-> Null, aborted |-> FALSE, tokens |-> 0]

Init ==
    /\ led = FreshLedger(<<>>)
    /\ alive = FALSE
    /\ run = IdleRun
    /\ dialog = "none"
    /\ now = 0
    /\ usedIds = {}
    /\ spent = 0
    /\ navs = 0

\* The bounds on the log and on the seconds a goal can collect while the
\* clock jumps to and fro.
Room ==
    /\ Len(led.log) < MaxLog
    /\ led.goal # Null => led.goal.seconds <= MaxNow

\* The goal a turn works for: the one it starts under, or the one it
\* creates itself.  Only properties read it.
CurrentGoalId == IF led.goal = Null THEN Null ELSE led.goal.id

\* Date.now() is the wall clock: it may jump ahead and be set back.
ClockChanges ==
    /\ now' \in 0..MaxNow
    /\ UNCHANGED <<led, alive, run, dialog, usedIds, spent, navs>>

-----------------------------------------------------------------------------
(***************************************************************************)
(* The session: start, resume, tree navigation, compaction, end.           *)
(***************************************************************************)
SessionStart(resuming) ==
    /\ ~alive
    /\ alive' = TRUE
    /\ led' = BeginAccounting(ReloadFromSession(led), now)
    /\ dialog' = IF resuming /\ led'.goal # Null /\ led'.goal.status = "paused"
                 THEN "resume" ELSE "none"
    /\ UNCHANGED <<run, now, usedIds, spent, navs>>

AnswerResume(yes) ==
    /\ alive /\ dialog = "resume" /\ Room
    /\ dialog' = "none"
    /\ led' = IF yes THEN BeginAccounting(ResumePausedGoal(led, now), now) ELSE led
    /\ UNCHANGED <<alive, run, now, usedIds, spent, navs>>

\* The host waits for the session_start handler, and so for the answer,
\* before it runs a turn or does anything else with the session.
Started == alive /\ dialog # "resume"

\* The user moves to an older point of the branch (session_tree).
SessionTree(n) ==
    /\ Started /\ run.phase = "idle"
    /\ navs < MaxNavs
    /\ navs' = navs + 1
    /\ led' = BeginAccounting(
                 ReloadFromSession([led EXCEPT !.log = SubSeq(@, 1, n)]), now)
    /\ UNCHANGED <<alive, run, dialog, now, usedIds, spent>>

SessionBeforeCompact ==
    /\ Started /\ run.phase = "idle" /\ Room
    /\ led' = BeforeCompactLedger(led, now)
    /\ UNCHANGED <<alive, run, dialog, now, usedIds, spent, navs>>

SessionCompact ==
    /\ Started /\ run.phase = "idle" /\ Room
    /\ led' = FlushGoalPersistence(led, "runtime", now)
    /\ UNCHANGED <<alive, run, dialog, now, usedIds, spent, navs>>

SessionEnds(log) ==
    /\ alive' = FALSE
    /\ led' = FreshLedger(log)
    /\ run' = IdleRun
    /\ dialog' = "none"
    /\ UNCHANGED <<now, usedIds, spent, navs>>

SessionShutdown(dropped, pending) ==
    /\ alive /\ Room
    /\ SessionEnds(ShutdownLedger(led, dropped, pending, now).log)

\* The process dies between two handlers; only the log is left.
Crash ==
    /\ alive
    /\ SessionEnds(led.log)

-----------------------------------------------------------------------------
(***************************************************************************)
(* Commands (commands.ts) and tools (tools.ts).                            *)
(***************************************************************************)
UserMayType == alive /\ dialog = "none" /\ Room

\* /goal <objective>: at once without a goal to replace, else after a
\* confirmation; what was confirmed is not looked at again.
StartGoal(id, budget, source) ==
    /\ id \in GoalIds \ usedIds
    /\ usedIds' = usedIds \cup {id}
    /\ led' = SetGoal(led, CreateThreadGoal(id, budget, now), source, now)
    /\ UNCHANGED <<alive, now, spent, navs>>

CommandStart(id) ==
    /\ UserMayType
    /\ MayCreateGoal(led.goal)
    /\ StartGoal(id, Null, "command")
    /\ UNCHANGED <<run, dialog>>

CommandAskReplace ==
    /\ UserMayType
    /\ ~MayCreateGoal(led.goal)
    /\ dialog' = "replace"
    /\ UNCHANGED <<led, alive, run, now, usedIds, spent, navs>>

AnswerReplaceYes(id) ==
    /\ alive /\ dialog = "replace" /\ Room
    /\ dialog' = "none"
    /\ StartGoal(id, Null, "command")
    /\ UNCHANGED run

AnswerReplaceNo ==
    /\ alive /\ dialog = "replace"
    /\ dialog' = "none"
    /\ UNCHANGED <<led, alive, run, now, usedIds, spent, navs>>

\* /goal pause and /goal resume
CommandSetStatus(status) ==
    /\ UserMayType
    /\ MayUpdateGoalStatus(led.goal, status)
    /\ led' = SetGoal(led, UpdateGoalStatus(GoalForDisplay(led, now), status, now),
                      "command", now)
    /\ UNCHANGED <<alive, run, dialog, now, usedIds, spent, navs>>

CommandClear ==
    /\ UserMayType
    /\ led.goal # Null
    /\ led' = ApplyGoalTransition(led, ClearPlan, now)
    /\ UNCHANGED <<alive, run, dialog, now, usedIds, spent, navs>>

\* create_goal
ToolCreateGoal(id, budget, replaceExisting) ==
    /\ alive /\ run.phase = "turn" /\ Room
    /\ replaceExisting \/ MayCreateGoal(led.goal)
    /\ StartGoal(id, budget, "tool")
    /\ run' = [run EXCEPT !.goal = id]
    /\ UNCHANGED dialog

\* update_goal
ToolCompleteGoal ==
    /\ alive /\ run.phase = "turn" /\ Room
    /\ led' = CompleteGoalLedger(led, now)
    /\ UNCHANGED <<alive, run, dialog, now, usedIds, spent, navs>>

-----------------------------------------------------------------------------
(***************************************************************************)
(* The agent run.                                                          *)
(***************************************************************************)
TurnStart ==
    /\ Started /\ run.phase # "turn" /\ ~run.aborted
    /\ led' = BeginAccounting(led, now)
    /\ run' = [IdleRun EXCEPT !.phase = "turn", !.goal = CurrentGoalId]
    /\ UNCHANGED <<alive, dialog, now, usedIds, spent, navs>>

ToolExecutionEnd ==
    /\ alive /\ run.phase = "turn" /\ Room
    /\ led' = ToolExecutionEndLedger(led, now)
    /\ UNCHANGED <<alive, run, dialog, now, usedIds, spent, navs>>

EndsTurn(tokens, aborted) ==
    /\ alive /\ run.phase = "turn" /\ Room
    /\ spent + tokens <= MaxSpent
    /\ spent' = spent + tokens
    /\ run' = [run EXCEPT !.phase = "ended", !.aborted = aborted, !.tokens = tokens]
    /\ UNCHANGED <<alive, dialog, now, usedIds, navs>>

TurnEnd(tokens, aborted) ==
    /\ EndsTurn(tokens, aborted)
    /\ led' = TurnEndLedger(led, tokens, aborted, now)

AbortedTokens == IF run.aborted THEN run.tokens ELSE 0

EndsRun ==
    /\ alive /\ run.phase = "ended" /\ Room
    /\ run' = IdleRun
    /\ UNCHANGED <<alive, dialog, now, usedIds, spent, navs>>

AgentEnd(gaveUp) ==
    /\ EndsRun
    /\ led' = AgentEndLedger(led, run.aborted, AbortedTokens, gaveUp, now)

\* The guard against stale work takes the handler's place: it skips it and
\* may drop the accounting (runStaleQueuedWorkPlan).
GuardSkips == led' = led \/ led' = ClearActiveAccounting(led)

GuardSkipsTurnEnd(tokens, aborted) == EndsTurn(tokens, aborted) /\ GuardSkips

GuardSkipsAgentEnd == EndsRun /\ GuardSkips

GuardDropsAccounting ==
    /\ alive
    /\ led' = ClearActiveAccounting(led)
    /\ UNCHANGED <<alive, run, dialog, now, usedIds, spent, navs>>

Next ==
    \/ ClockChanges
    \/ \E resuming \in BOOLEAN : SessionStart(resuming)
    \/ \E yes \in BOOLEAN : AnswerResume(yes)
    \/ \E n \in 0..Len(led.log) : SessionTree(n)
    \/ SessionBeforeCompact
    \/ SessionCompact
    \/ \E dropped, pending \in BOOLEAN : SessionShutdown(dropped, pending)
    \/ Crash
    \/ \E id \in GoalIds : CommandStart(id)
    \/ CommandAskReplace
    \/ \E id \in GoalIds : AnswerReplaceYes(id)
    \/ AnswerReplaceNo
    \/ \E status \in {"paused", "active"} : CommandSetStatus(status)
    \/ CommandClear
    \/ \E id \in GoalIds, budget \in TokenBudgets \cup {Null}, replaceExisting \in BOOLEAN :
          ToolCreateGoal(id, budget, replaceExisting)
    \/ ToolCompleteGoal
    \/ TurnStart
    \/ ToolExecutionEnd
    \/ \E tokens \in TurnTokens, aborted \in BOOLEAN : TurnEnd(tokens, aborted)
    \/ \E gaveUp \in BOOLEAN : AgentEnd(gaveUp)
    \/ \E tokens \in TurnTokens, aborted \in BOOLEAN : GuardSkipsTurnEnd(tokens, aborted)
    \/ GuardSkipsAgentEnd
    \/ GuardDropsAccounting

Spec == Init /\ [][Next]_vars

-----------------------------------------------------------------------------
(***************************************************************************)
(* Properties.                                                             *)
(***************************************************************************)
Phases == {"idle", "turn", "ended"}
Dialogs == {"none", "replace", "resume"}

\* The variables hold what the code's types say, and a closed session holds
\* nothing in memory.
TypeOK ==
    /\ led \in Ledgers
    /\ alive \in BOOLEAN
    /\ run \in [phase : Phases, goal : GoalIds \cup {Null}, aborted : BOOLEAN, tokens : Nat]
    /\ dialog \in Dialogs
    /\ now \in Nat
    /\ usedIds \subseteq GoalIds
    /\ spent \in Nat
    /\ navs \in Nat
    /\ ~alive => led = FreshLedger(led.log)

\* The extension believes that the log says lastPersistedGoal, and decides
\* from that belief whether a short usage entry will do.  The belief is
\* right: replaying the log gives exactly that goal, so no usage entry the
\* writer chose is one the reader skips.
DurableMirrorsPersisted == alive => ReconstructGoal(led.log) = led.persisted

\* Only elapsed time is ever kept back from the log: between two handlers
\* the goal and its durable copy have the same id, status, budget and
\* tokens, so a crash costs at most some seconds of activeSeconds.
SameButTime(g, h) ==
    /\ (g = Null) <=> (h = Null)
    /\ g # Null /\ h # Null =>
         /\ g.id = h.id /\ g.status = h.status
         /\ g.budget = h.budget /\ g.tokens = h.tokens

OnlyTimeIsDeferred == alive => SameButTime(led.goal, led.persisted)

\* The seconds kept back reach no further than one persist interval past
\* the last write ("bounded intervals during long tool-heavy runs").
DeferredTimeIsBounded ==
    led.goal # led.persisted =>
      /\ led.persistedAt # Null
      /\ led.goal.updatedAt * TicksPerSecond
           < led.persistedAt + PersistInterval * TicksPerSecond

\* A goal's status agrees with its budget: active below it, budgetLimited
\* only at or above it.
WithinBudget(g) ==
    g # Null =>
      /\ g.status \in {"active", "paused"} /\ g.budget # Null => g.tokens < g.budget
      /\ g.status = "budgetLimited" => g.budget # Null /\ g.tokens >= g.budget

\* The goal in memory agrees with its budget, and so does the goal read back
\* from every prefix of the log: wherever a crash cuts the log, or the user
\* moves in the session tree, the goal found there does.
StatusMatchesBudget ==
    /\ WithinBudget(led.goal)
    /\ \A n \in 0..Len(led.log) : WithinBudget(ReconstructGoal(SubSeq(led.log, 1, n)))

\* Usage is only ever collected for the goal of the session, while it is
\* active: no handler leaves the accounting of a goal that was replaced,
\* paused, limited, completed or cleared running.
AccountingFollowsGoal ==
    /\ (led.owner = Null) <=> (led.since = Null)
    /\ led.owner # Null => /\ led.goal # Null
                           /\ led.goal.status = "active"
                           /\ led.goal.id = led.owner

\* The tokens of one turn are never counted twice for a goal, although the
\* end of an aborted turn and the end of its run both report them.
NoDoubleCharge == led.goal # Null => led.goal.tokens <= spent

\* Calling update_goal, or anything else, on a complete goal writes no entry
\* as long as the goal stays ("idempotent and does not append duplicate
\* session entries").
CompleteGoalWritesNothing ==
    [][ (/\ led.goal # Null /\ led.goal.status = "complete"
         /\ led'.goal # Null /\ led'.goal.id = led.goal.id /\ navs' = navs)
        => led'.log = led.log ]_vars

\* What the log says a goal has used never goes down from one entry to the
\* next, so a reader of any part of it sees usage that only grows.
NeverRewinds(g, h) ==
    g # Null /\ h # Null /\ g.id = h.id =>
      g.tokens <= h.tokens /\ g.seconds <= h.seconds

DurableUsageNeverRewinds ==
    LET goalAfter == Replay(led.log)
    IN  \A i \in 1..Len(led.log) : NeverRewinds(goalAfter[i - 1], goalAfter[i])

\* The ledger implements the life cycle: map the goal in memory, or, while
\* no process runs, the goal the log holds, to its id and status.
View(g) == IF g = Null THEN Null ELSE [id |-> g.id, status |-> g.status]

Lifecycle ==
    INSTANCE GoalLifecycle
      WITH goal <- View(IF alive THEN led.goal ELSE ReconstructGoal(led.log))

ImplementsLifecycle == Lifecycle!Spec

\* Tokens of a turn that works for one goal are not charged to the goal the
\* user replaced it with meanwhile ("replacement during an in-flight turn
\* does not charge old tokens to the new goal").
OldTurnNeverChargesNewGoal ==
    [][ (/\ run.phase = "turn" /\ run'.phase = "ended"
         /\ led.goal # Null /\ led'.goal # Null
         /\ led'.goal.id = led.goal.id /\ run.goal \notin {Null, led.goal.id})
        => led'.goal.tokens = led.goal.tokens ]_vars
=============================================================================
