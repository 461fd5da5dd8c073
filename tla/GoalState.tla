------------------------------ MODULE GoalState ------------------------------
(***************************************************************************)
(* The pure part of pi-codex-goal: what a goal is, how its status and its  *)
(* usage may change, and how a goal is read back from the session log.     *)
(* Source: packages/pi-codex-goal/src/state.ts and types.ts.               *)
(*                                                                         *)
(* Data abstraction: a goal's objective and creation time never change     *)
(* once its id exists and nothing below depends on their text, so both are *)
(* left out; an entry's "source" and "at" fields are never read back.      *)
(***************************************************************************)
EXTENDS Integers, Sequences

CONSTANTS
    GoalIds,          \* randomUUID() values a goal can get
    Null,             \* TypeScript's null: no goal, no budget, no owner
    TicksPerSecond    \* Date.now() ticks in one of the seconds usage counts

Statuses == {"active", "paused", "budgetLimited", "complete"}
RuntimeStatuses == {"active", "budgetLimited"}
Budgets == {Null} \cup (Nat \ {0})

Goals == [id : GoalIds, status : Statuses, budget : Budgets,
          tokens : Nat, seconds : Nat, updatedAt : Nat]

GoalOrNull == Goals \cup {Null}

(***************************************************************************)
(* The custom entries the extension appends to the session.                *)
(***************************************************************************)
SetEntries   == [kind : {"set"}, goal : Goals]
UsageEntries == [kind : {"usage"}, goalId : GoalIds, status : RuntimeStatuses,
                 tokens : Nat, seconds : Nat, updatedAt : Nat]
ClearEntries == [kind : {"clear"}]
Entries == SetEntries \cup UsageEntries \cup ClearEntries

ASSUME GoalStateAssumption ==
    /\ Null \notin GoalIds
    /\ Null \notin Nat
    /\ Null \notin Goals
    /\ TicksPerSecond \in Nat \ {0}

-----------------------------------------------------------------------------
Larger(a, b) == IF a >= b THEN a ELSE b

\* unixSeconds(): the wall clock, floored to whole seconds.
UnixSeconds(t) == t \div TicksPerSecond

\* Whole seconds from an instant to a later one; a clock set back counts 0.
ElapsedSeconds(since, t) == Larger(0, (t - since) \div TicksPerSecond)

IsRuntimeUsageGoalStatus(status) == status \in RuntimeStatuses

\* Mutant: the budget has to be exceeded.
StatusAfterBudgetExceeded(status, tokens, budget) ==
    IF status = "active" /\ budget # Null /\ tokens > budget
    THEN "budgetLimited"
    ELSE status

\* An active goal whose tokens reach its budget is budget limited.
StatusAfterBudgetLimit(status, tokens, budget) ==
    IF status = "active" /\ budget # Null /\ tokens >= budget
    THEN "budgetLimited"
    ELSE status

CreateThreadGoal(id, budget, t) ==
    [id |-> id, status |-> "active", budget |-> budget,
     tokens |-> 0, seconds |-> 0, updatedAt |-> UnixSeconds(t)]

\* createGoal: only when there is no goal, or a complete one, to replace.
MayCreateGoal(current) == current # Null => current.status = "complete"

\* Mutant: any goal that is not complete can be paused.
MayUpdateUnfinishedGoalStatus(current, status) ==
    /\ current # Null
    /\ \/ status = "complete"
       \/ status = "paused" /\ current.status # "complete"
       \/ status = "active" /\ current.status = "paused"

\* updateGoalStatus: which status changes a command or a tool may ask for.
MayUpdateGoalStatus(current, status) ==
    /\ current # Null
    /\ \/ status = "complete"
       \/ status = "paused" /\ current.status = "active"
       \/ status = "active" /\ current.status = "paused"

\* Mutant: a complete goal is completed again, at a new time.
UpdateGoalStatusAgain(current, status, t) ==
    [current EXCEPT
        !.status = StatusAfterBudgetLimit(status, current.tokens, current.budget),
        !.updatedAt = UnixSeconds(t)]

UpdateGoalStatus(current, status, t) ==
    IF current.status = "complete"
    THEN current
    ELSE [current EXCEPT
            !.status = StatusAfterBudgetLimit(status, current.tokens, current.budget),
            !.updatedAt = UnixSeconds(t)]

-----------------------------------------------------------------------------
(***************************************************************************)
(* Usage accounting.                                                       *)
(***************************************************************************)
CanAccount(goal, accountBudgetLimited) ==
    /\ goal # Null
    /\ \/ goal.status = "active"
       \/ accountBudgetLimited /\ goal.status = "budgetLimited"

ApplyUsage(goal, tokens, seconds, t) ==
    [goal EXCEPT
        !.tokens = @ + tokens,
        !.seconds = @ + seconds,
        !.status = StatusAfterBudgetLimit(@, goal.tokens + tokens, goal.budget),
        !.updatedAt = UnixSeconds(t)]

\* goalWithLiveUsage: the goal the user and the tools see, with the seconds
\* since the last accounting added but not stored.
GoalWithLiveUsage(goal, owner, since, t) ==
    IF goal # Null /\ owner # Null /\ since # Null
         /\ goal.status = "active" /\ goal.id = owner
    THEN [goal EXCEPT !.seconds = @ + ElapsedSeconds(since, t)]
    ELSE goal

-----------------------------------------------------------------------------
(***************************************************************************)
(* The session log and what is read back from it.                          *)
(***************************************************************************)
SetEntry(goal) == [kind |-> "set", goal |-> goal]

RuntimeUsageEntry(goal) ==
    [kind |-> "usage", goalId |-> goal.id, status |-> goal.status,
     tokens |-> goal.tokens, seconds |-> goal.seconds,
     updatedAt |-> goal.updatedAt]

ClearEntry == [kind |-> "clear"]

\* A usage entry is skipped unless it moves the goal it names forward.
CanApplyRuntimeUsageEntry(goal, entry) ==
    /\ goal # Null
    /\ goal.id = entry.goalId
    /\ IsRuntimeUsageGoalStatus(goal.status)
    /\ ~(goal.status = "budgetLimited" /\ entry.status = "active")
    /\ entry.updatedAt >= goal.updatedAt
    /\ entry.tokens >= goal.tokens
    /\ entry.seconds >= goal.seconds

\* One iteration of the loop of reconstructGoal.
ApplyEntry(goal, entry) ==
    IF entry.kind = "clear" THEN Null
    ELSE IF entry.kind = "set" THEN entry.goal
    ELSE IF CanApplyRuntimeUsageEntry(goal, entry)
    THEN [goal EXCEPT !.status = entry.status, !.tokens = entry.tokens,
                      !.seconds = entry.seconds, !.updatedAt = entry.updatedAt]
    ELSE goal

\* The goal after each entry of a log, from no goal before the first.
Replay(log) ==
    LET goalAfter[i \in 0..Len(log)] ==
          IF i = 0 THEN Null ELSE ApplyEntry(goalAfter[i - 1], log[i])
    IN  goalAfter

ReconstructGoal(log) == Replay(log)[Len(log)]
=============================================================================
