-------------------------- MODULE StaleWorkRuntime --------------------------
(***************************************************************************)
(* The guard of StaleQueuedWork at work: the handlers of pi-codex-goal     *)
(* that consult it, the goal they act on, and the host that runs turns.    *)
(* Source: packages/pi-codex-goal/src/goal-runtime-*-handlers.ts; the host *)
(* (pi) is modelled from the order of events these handlers and their      *)
(* tests rely on: turn_start, message_start for each queued message,       *)
(* context, tool_execution_end, turn_end, and agent_end after the last     *)
(* turn.  Only the turn_end and the agent_end of a turn the guard aborted  *)
(* may come late, after later turns have begun, or never; those of several *)
(* aborted turns come in the order of the turns.  Accounting is reduced to *)
(* the goal it is kept for, recovery to nothing: GoalLedger has the rest.  *)
(***************************************************************************)
EXTENDS StaleQueuedWork

CONSTANT MaxTurns    \* bound: turns the host starts in a session

ASSUME TurnAssumption == MaxTurns \in Nat /\ Null \notin Nat \cup GoalIds

VARIABLES
    guard,         \* staleQueuedWorkGuard's state
    goal,          \* the session's goal: its id and whether it is active
    owner,         \* accounting.activeGoalId
    turn,          \* runtimeState.currentTurnIndex
    phase,         \* where the host's current turn is
    carried,       \* goal ids of the queued work the current run was given
    known,         \* goals the session has had: queued work exists only for them
    ran,           \* goals whose work was in a turn that reached the model
    stopped,       \* goals whose work was in a turn the guard aborted
    owedTurnEnds,  \* aborted turns whose turn_end has not come
    owedAgentEnds, \* aborted turns whose agent_end has not come
    handled,       \* terminal events whose handler ran (only properties read it)
    swallowed      \* terminal events the guard skipped (likewise)

host == <<turn, phase, carried, known, ran, stopped, owedTurnEnds, owedAgentEnds>>
outcome == <<handled, swallowed>>
vars == <<guard, goal, owner, host, outcome>>

NoGoal == [id |-> Null, active |-> FALSE]

\* isCurrentActiveGoalId
IsCurrentActive(id) == goal.active /\ goal.id = id

ActiveId(g) == IF g.active THEN g.id ELSE Null

\* The goal, after accountProgress and beginAccounting, owns the accounting
\* exactly if it is active.
Owned(g) == ActiveId(g)

Init ==
    /\ guard = Idle
    /\ goal = NoGoal
    /\ owner = Null
    /\ turn = Null
    /\ phase = "idle"
    /\ carried = {}
    /\ known = {}
    /\ ran = {} /\ stopped = {}
    /\ owedTurnEnds = {} /\ owedAgentEnds = {}
    /\ handled = {} /\ swallowed = {}

\* The guard's answer to an event, and what a plan does to the accounting.
Answer(result) == guard' = result.state
KeepOrClear(plan) == IF plan.clears THEN Null ELSE owner

-----------------------------------------------------------------------------
(***************************************************************************)
(* The goal: commands and tools at any time (GoalLedger has the details).  *)
(***************************************************************************)
StartOrReplace(id) ==
    /\ id \notin known
    /\ goal' = [id |-> id, active |-> TRUE]
    /\ known' = known \cup {id}
    /\ owner' = Null
    /\ UNCHANGED <<guard, turn, phase, carried, ran, stopped, owedTurnEnds, owedAgentEnds, outcome>>

StopGoal ==
    /\ goal.active
    /\ goal' = [goal EXCEPT !.active = FALSE]
    /\ owner' = Null
    /\ UNCHANGED <<guard, host, outcome>>

ResumeGoal ==
    /\ goal.id # Null /\ ~goal.active
    /\ goal' = [goal EXCEPT !.active = TRUE]
    /\ UNCHANGED <<guard, owner, host, outcome>>

-----------------------------------------------------------------------------
(***************************************************************************)
(* Input, and the start of a run.                                          *)
(***************************************************************************)
\* onInput by the user or with a continuation, and onBeforeAgentStart: they
\* release a turn that is being aborted.
ReleasesAbort ==
    LET r == ClearAbort(guard)
    IN  /\ Answer(r)
        /\ owner' = KeepOrClear(r.plan)
        /\ UNCHANGED <<goal, host, outcome>>

TurnStart ==
    /\ phase \in {"idle", "ended"}
    /\ LET next == IF turn = Null THEN 0 ELSE turn + 1
       IN  next < MaxTurns /\ turn' = next
    /\ phase' = IF phase = "ended" THEN "turn" ELSE "start"
    /\ carried' = IF phase = "ended" THEN carried ELSE {}
    /\ Answer(TurnStartEvent(guard))
    /\ owner' = Owned(goal)
    /\ UNCHANGED <<goal, known, ran, stopped, owedTurnEnds, owedAgentEnds, outcome>>

\* onMessageStart; id is Null for a message that is no goal's queued work.
MessageStart(id) ==
    /\ phase \in {"start", "turn"}
    /\ id = Null \/ id \in known
    /\ phase' = "turn"
    /\ carried' = IF id = Null THEN carried ELSE carried \cup {id}
    /\ guard' = IF id = Null \/ IsCurrentActive(id)
                THEN RunnableWorkStarted(guard)
                ELSE StaleWorkStarted(guard, id)
    /\ UNCHANGED <<goal, owner, turn, known, ran, stopped, owedTurnEnds, owedAgentEnds, outcome>>

\* The agent_end of aborted turns; work the guard let through may have
\* reached the model since.
Owed(turns, goalIds, overtaken) ==
    [turns |-> turns, goalIds |-> goalIds, overtaken |-> overtaken]

\* onContext: the last chance to stop the turn before the model is called.
Context ==
    /\ phase = "turn"
    /\ LET r == ContextAbort(guard, turn)
       IN  /\ Answer(r)
           /\ owner' = KeepOrClear(r.plan)
           /\ phase' = IF r.plan.aborts THEN "idle" ELSE "model"
           /\ ran' = IF r.plan.aborts THEN ran ELSE ran \cup carried
           /\ stopped' = IF r.plan.aborts THEN stopped \cup carried ELSE stopped
           /\ owedTurnEnds' = IF r.plan.aborts THEN owedTurnEnds \cup {turn} ELSE owedTurnEnds
           /\ owedAgentEnds' = IF r.plan.aborts
                               THEN owedAgentEnds \cup {Owed({turn}, carried, FALSE)}
                               ELSE {Owed(o.turns, o.goalIds, TRUE) : o \in owedAgentEnds}
    /\ UNCHANGED <<goal, turn, carried, known, outcome>>

-----------------------------------------------------------------------------
(***************************************************************************)
(* While a turn runs, and its end.                                         *)
(***************************************************************************)
\* onToolExecutionEnd, onSessionBeforeCompact
MidTurn ==
    LET r == MidTurnEvent(guard)
    IN  /\ phase = "model" \/ guard.kind = "aborting"
        /\ Answer(r)
        /\ owner' = IF r.plan.skip THEN KeepOrClear(r.plan) ELSE Owned(goal)
        /\ UNCHANGED <<goal, host, outcome>>

Event(name, stale, goalIds, overtaken) ==
    [event |-> name, stale |-> stale, goalIds |-> goalIds, overtaken |-> overtaken]

\* A handler for the end of a turn or of a run: skipped, or it accounts and,
\* when the turn was aborted, pauses the goal.
Handle(r, event, aborted) ==
    /\ Answer(r)
    /\ IF r.plan.skip
       THEN /\ swallowed' = swallowed \cup {event}
            /\ owner' = KeepOrClear(r.plan)
            /\ UNCHANGED <<goal, handled>>
       ELSE /\ handled' = handled \cup {event}
            /\ goal' = IF aborted THEN [goal EXCEPT !.active = FALSE] ELSE goal
            /\ owner' = Owned(goal')
            /\ UNCHANGED swallowed

TurnEnd(aborted) ==
    /\ phase = "model"
    /\ phase' = "ended"
    /\ Handle(TurnEndEvent(guard, turn), Event("turn_end", FALSE, {}, FALSE), aborted)
    /\ UNCHANGED <<turn, carried, known, ran, stopped, owedTurnEnds, owedAgentEnds>>

Carries(goalIds, withGoalWork) == IF withGoalWork THEN goalIds ELSE {}

AgentEnd(aborted, withGoalWork) ==
    LET ids == Carries(carried, withGoalWork)
    IN  /\ phase = "ended"
        /\ phase' = "idle"
        /\ Handle(AgentEndEvent(guard, [goalIds |-> ids, terminal |-> TRUE]),
                  Event("agent_end", FALSE, ids, FALSE), aborted)
        /\ UNCHANGED <<turn, carried, known, ran, stopped, owedTurnEnds, owedAgentEnds>>

\* The host reports aborted turns in order.
Oldest(t) ==
    /\ \A u \in owedTurnEnds : t <= u
    /\ \A o \in owedAgentEnds : (\E u \in o.turns : t <= u)

LateTurnEnd(t) ==
    /\ Oldest(t)
    /\ owedTurnEnds' = owedTurnEnds \ {t}
    /\ Handle(TurnEndEvent(guard, t), Event("turn_end", TRUE, {}, FALSE), TRUE)
    /\ UNCHANGED <<turn, phase, carried, known, ran, stopped, owedAgentEnds>>

LateAgentEnd(owed, withGoalWork) ==
    LET ids == Carries(owed.goalIds, withGoalWork)
    IN  /\ ids = {} => owed.turns \cap owedTurnEnds = {}
        /\ \E t \in owed.turns : Oldest(t)
        /\ owedAgentEnds' = owedAgentEnds \ {owed}
        /\ Handle(AgentEndEvent(guard, [goalIds |-> ids, terminal |-> TRUE]),
                  Event("agent_end", TRUE, ids, owed.overtaken), TRUE)
        /\ UNCHANGED <<turn, phase, carried, known, ran, stopped, owedTurnEnds>>

LoseTurnEnd(t) ==
    /\ owedTurnEnds' = owedTurnEnds \ {t}
    /\ UNCHANGED <<guard, goal, owner, turn, phase, carried, known, ran, stopped, owedAgentEnds, outcome>>

LoseAgentEnd(owed) ==
    /\ owedAgentEnds' = owedAgentEnds \ {owed}
    /\ UNCHANGED <<guard, goal, owner, turn, phase, carried, known, ran, stopped, owedTurnEnds, outcome>>

Before(o, p) == \A t \in o.turns, u \in p.turns : t < u

\* The host reports aborted turns in one agent_end: neighbours, for it reports
\* them in order.
CombineAgentEnds(a, b) ==
    /\ Before(a, b)
    /\ \A o \in owedAgentEnds : ~(Before(a, o) /\ Before(o, b))
    /\ owedAgentEnds' = (owedAgentEnds \ {a, b})
                          \cup {Owed(a.turns \cup b.turns, a.goalIds \cup b.goalIds,
                                    a.overtaken \/ b.overtaken)}
    /\ UNCHANGED <<guard, goal, owner, turn, phase, carried, known, ran, stopped, owedTurnEnds, outcome>>

\* onSessionShutdown, and onSessionStart in the runtime that comes next: what
\* was queued or owed is gone, and the goal is read back from the log.
NewSession ==
    /\ Answer(SessionShutdownEvent(guard))
    /\ owner' = Owned(goal)
    /\ turn' = Null
    /\ phase' = "idle"
    /\ known' = {goal.id} \ {Null}
    /\ carried' = {} /\ ran' = {} /\ stopped' = {}
    /\ owedTurnEnds' = {} /\ owedAgentEnds' = {}
    /\ handled' = {} /\ swallowed' = {}
    /\ UNCHANGED goal

Next ==
    \/ \E id \in GoalIds : StartOrReplace(id)
    \/ StopGoal
    \/ ResumeGoal
    \/ ReleasesAbort
    \/ TurnStart
    \/ \E id \in GoalIds \cup {Null} : MessageStart(id)
    \/ Context
    \/ MidTurn
    \/ \E aborted \in BOOLEAN : TurnEnd(aborted)
    \/ \E aborted, withGoalWork \in BOOLEAN : AgentEnd(aborted, withGoalWork)
    \/ \E t \in owedTurnEnds : LateTurnEnd(t)
    \/ \E owed \in owedAgentEnds, withGoalWork \in BOOLEAN : LateAgentEnd(owed, withGoalWork)
    \/ \E t \in owedTurnEnds : LoseTurnEnd(t)
    \/ \E owed \in owedAgentEnds : LoseAgentEnd(owed)
    \/ \E a, b \in owedAgentEnds : CombineAgentEnds(a, b)
    \/ NewSession

Spec == Init /\ [][Next]_vars

-----------------------------------------------------------------------------
Endings ==
    [event : {"turn_end", "agent_end"}, stale : BOOLEAN,
     goalIds : SUBSET GoalIds, overtaken : BOOLEAN]

\* Every variable keeps its type; an aborted turn is remembered in one of the
\* two states that wait for its end, and only an observed turn has notes.
TypeOK ==
    /\ guard \in GuardStates
    /\ guard.kind # "observing" => guard.stale = {} /\ ~guard.runnable
    /\ guard.kind # "aborting" =>
          guard.activeTurn = Null /\ InPhase(guard.agentEnds, "active") = {}
    /\ guard.kind = "idle" => ~HasPending(guard)
    /\ guard.kind \in {"aborting", "awaiting"} => HasPending(guard)
    /\ goal \in [id : GoalIds \cup {Null}, active : BOOLEAN]
    /\ owner \in {goal.id, Null}
    /\ turn \in 0..(MaxTurns - 1) \cup {Null}
    /\ phase \in {"idle", "start", "turn", "model", "ended"}
    /\ {carried, known, ran, stopped} \subseteq SUBSET GoalIds
    /\ owedTurnEnds \subseteq 0..(MaxTurns - 1)
    /\ owedAgentEnds \subseteq
          [turns : SUBSET (0..(MaxTurns - 1)), goalIds : SUBSET GoalIds, overtaken : BOOLEAN]
    /\ handled \cup swallowed \subseteq Endings

Of(name, stale, events) == {e \in events : e.event = name /\ e.stale = stale}

\* A turn_end is told apart however late it comes: the one of an aborted turn
\* neither charges nor pauses the goal that is current by then, and the one of
\* a turn that ran is never mistaken for it (planTurnEnd in onTurnEnd).
TurnEndsToldApart ==
    /\ Of("turn_end", TRUE, handled) = {}
    /\ Of("turn_end", FALSE, swallowed) = {}

\* No goal had work both in a turn that was aborted and in one that ran: a goal
\* paused and resumed while its work is queued can have.
NoGoalOnBothSides == ran \cap stopped = {}

\* An agent_end is told apart too.  The one of an aborted turn is skipped,
\* unless it carries no goal's work and comes after newer work has reached the
\* model: from then on the guard takes an agent_end without work for the one of
\* the newer turn.  The one of a run that reached the model is handled: no debt
\* left by an earlier aborted turn, whose own agent_end may be lost, swallows
\* it, and with it the pause, the recovery and the next continuation.
AgentEndsToldApart ==
    NoGoalOnBothSides =>
      /\ \A e \in Of("agent_end", TRUE, handled) : e.goalIds = {} /\ e.overtaken
      /\ Of("agent_end", FALSE, swallowed) = {}

\* While a turn is being aborted nothing is charged: whatever is started,
\* resumed or ends meanwhile, no goal owns the accounting.
AbortStopsAccounting == guard.kind = "aborting" => owner = Null

\* The guard never forgets an aborted turn whose turn_end may still come,
\* through any number of later turns and aborts.
AbortedTurnsRemembered == owedTurnEnds \subseteq guard.turnEnds
=============================================================================
