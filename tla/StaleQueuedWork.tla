--------------------------- MODULE StaleQueuedWork ---------------------------
(***************************************************************************)
(* The guard against stale queued work of pi-codex-goal: a state machine   *)
(* that notices that the host has begun a turn for a goal which is no      *)
(* longer the active one, aborts it, and from then on has to tell the      *)
(* terminal events of aborted turns, which may come late, from those of    *)
(* the work that is current.                                               *)
(* Source: packages/pi-codex-goal/src/stale-queued-work-*.ts.              *)
(*                                                                         *)
(* The reducer is a function from a state and an event to a state and a    *)
(* plan: skip the handler or not, drop the accounting or not, abort the    *)
(* turn or not.  Refreshing the UI is left out.  An absent terminalCleanup *)
(* is the empty one: no state of the code holds one that is empty.         *)
(***************************************************************************)
EXTENDS Integers, Sequences

CONSTANTS GoalIds, Null

Kinds == {"idle", "observing", "aborting", "awaiting"}

\* One aborted turn's agent_end that has not come yet.
Obligations == [goalIds : SUBSET GoalIds, anonymous : BOOLEAN, phase : {"older", "active"}]

GuardStates ==
    [kind : Kinds,
     stale : SUBSET GoalIds,        \* observing: staleGoalIds
     runnable : BOOLEAN,            \* observing: hasRunnableWork
     activeTurn : Nat \cup {Null},  \* aborting: activeTurnIndex
     turnEnds : SUBSET Nat,         \* pendingTurnEndIndexes
     agentEnds : Seq(Obligations)]  \* pendingAgentEndObligations

Idle == [kind |-> "idle", stale |-> {}, runnable |-> FALSE, activeTurn |-> Null,
         turnEnds |-> {}, agentEnds |-> <<>>]

Awaiting(turnEnds, agentEnds) ==
    [Idle EXCEPT !.kind = "awaiting", !.turnEnds = turnEnds, !.agentEnds = agentEnds]

\* What a handler does with the answer of the guard.
Plan(skip, clears, aborts) == [skip |-> skip, clears |-> clears, aborts |-> aborts]
EmptyPlan     == Plan(FALSE, FALSE, FALSE)
ClearPlan     == Plan(FALSE, TRUE, FALSE)
AbortPlan     == Plan(FALSE, TRUE, TRUE)
SkipPlan      == Plan(TRUE, FALSE, FALSE)
SkipClearPlan == Plan(TRUE, TRUE, FALSE)

Result(state, plan) == [state |-> state, plan |-> plan]

HasPending(g) == g.turnEnds # {} \/ g.agentEnds # <<>>

\* resolveLifecycleAfterTerminalCleanup without an observed turn
Settle(g) == IF HasPending(g) THEN Awaiting(g.turnEnds, g.agentEnds) ELSE Idle

WithPhase(obligations, phase) ==
    [i \in DOMAIN obligations |-> [obligations[i] EXCEPT !.phase = phase]]

\* Mutant: once newer work runs, ends without work still count as stale.
WithAnonymousKept(obligations, anonymous) ==
    [i \in DOMAIN obligations |-> [obligations[i] EXCEPT !.anonymous = TRUE]]

\* setAnonymousMatching
WithAnonymous(obligations, anonymous) ==
    [i \in DOMAIN obligations |-> [obligations[i] EXCEPT !.anonymous = anonymous]]

InPhase(obligations, phase) == {i \in DOMAIN obligations : obligations[i].phase = phase}

GoalIdsAt(obligations, positions) == UNION {obligations[i].goalIds : i \in positions}

\* The first n obligations without those at some positions, for each n.
Kept(obligations, positions) ==
    LET kept[n \in 0..Len(obligations)] ==
          IF n = 0 THEN <<>>
          ELSE IF n \in positions THEN kept[n - 1]
          ELSE Append(kept[n - 1], obligations[n])
    IN  kept

Without(obligations, positions) == Kept(obligations, positions)[Len(obligations)]

-----------------------------------------------------------------------------
(***************************************************************************)
(* Consuming obligations.  An agent_end is known by the goal ids its       *)
(* messages carry and by whether one of them is an assistant message with  *)
(* a terminal stop reason.                                                 *)
(***************************************************************************)
AgentEnds == [goalIds : SUBSET GoalIds, terminal : BOOLEAN]

\* An agent_end without any goal's work can only be told by its stop reason.
IsAnonymous(end) == end.goalIds = {} /\ end.terminal

\* What is left when some are consumed, and the phases of those.
Consume(obligations, positions) ==
    [rest |-> Without(obligations, positions),
     taken |-> {obligations[i].phase : i \in positions}]

\* consumeGoalBearingTerminal: one phase after the other, an obligation that
\* matches takes its goal ids out of the ones still to be matched.  So it is
\* consumed if it is the first with some id.
ByGoalAt(obligations, ids, first) ==
    LET Precedes(j, i) == IF obligations[j].phase = obligations[i].phase
                          THEN j < i ELSE obligations[j].phase = first
    IN  {i \in DOMAIN obligations :
           \E id \in ids \cap obligations[i].goalIds :
             \A j \in DOMAIN obligations : id \in obligations[j].goalIds => ~Precedes(j, i)}

\* The positions an id-less agent_end may consume, in order of preference.
AnonymousAt(obligations, phase, any) ==
    {i \in DOMAIN obligations :
       obligations[i].phase = phase /\ (any \/ obligations[i].anonymous)}

FirstOf(positions) == {i \in positions : \A j \in positions : i <= j}

\* consumeAnonymousTerminal(ForAbortingTurn); only while a turn is being
\* aborted may the last phase be consumed without accepting id-less ends.
AnonymousFirst(obligations, first, second, fallback) ==
    LET preferred == AnonymousAt(obligations, first, FALSE)
        other == AnonymousAt(obligations, second, fallback)
    IN  FirstOf(IF preferred # {} THEN preferred ELSE other)

\* consumePendingStaleAgentEnd
PendingConsumed(obligations, end) ==
    LET byGoal == ByGoalAt(obligations, end.goalIds, "older")
    IN  IF byGoal = {} /\ IsAnonymous(end)
        THEN AnonymousFirst(obligations, "older", "active", FALSE)
        ELSE byGoal

ActiveTurnEnded(g) == g.activeTurn # Null /\ g.activeTurn \notin g.turnEnds

\* consumeAbortingAgentEnd: the newest turn's obligation is preferred to the
\* older ones only when its turn_end has come.
AbortingConsumed(g, end) ==
    LET o == g.agentEnds
        active == InPhase(o, "active")
        matched == end.goalIds \cap GoalIdsAt(o, DOMAIN o)
        activeFirst == /\ ActiveTurnEnded(g) /\ matched # {}
                       /\ matched \subseteq GoalIdsAt(o, active)
        anonymousFirst == ActiveTurnEnded(g) /\ \E i \in active : o[i].anonymous
    IN  IF IsAnonymous(end)
        THEN IF anonymousFirst
             THEN AnonymousFirst(o, "active", "older", TRUE)
             ELSE AnonymousFirst(o, "older", "active", TRUE)
        ELSE ByGoalAt(o, matched, IF activeFirst THEN "active" ELSE "older")

-----------------------------------------------------------------------------
(***************************************************************************)
(* The events, each over all the states of the guard.                      *)
(***************************************************************************)
\* beginObservingFromIdleOrAwaiting
Observe(g) == IF g.kind = "aborting" THEN g ELSE [g EXCEPT !.kind = "observing"]

RunnableWorkStarted(g) ==
    IF g.kind = "aborting" THEN g ELSE [Observe(g) EXCEPT !.runnable = TRUE]

StaleWorkStarted(g, id) ==
    IF g.kind = "aborting" THEN g ELSE [Observe(g) EXCEPT !.stale = @ \cup {id}]

StartsAbort(g) == g.kind = "observing" /\ g.stale # {} /\ ~g.runnable

\* Mutant: only the turn that is being aborted is remembered.
NoteOnlyTurn(turnEnds, turn) == {turn} \ {Null}

NoteTurn(turnEnds, turn) == IF turn = Null THEN turnEnds ELSE turnEnds \cup {turn}

ContextAbort(g, turn) ==
    IF g.kind = "aborting" THEN Result(g, AbortPlan)
    ELSE IF StartsAbort(g)
    THEN Result([Idle EXCEPT
                   !.kind = "aborting",
                   !.activeTurn = turn,
                   !.turnEnds = NoteTurn(g.turnEnds, turn),
                   !.agentEnds = Append(
                      WithAnonymous(WithPhase(g.agentEnds, "older"), TRUE),
                      [goalIds |-> g.stale, anonymous |-> TRUE, phase |-> "active"])],
                AbortPlan)
    ELSE IF g.kind = "observing" /\ HasPending(g)
    THEN Result(Awaiting(g.turnEnds, WithAnonymous(g.agentEnds, FALSE)), EmptyPlan)
    ELSE Result(g, EmptyPlan)

\* Mutant: releasing the aborted turn forgets what it still owes.
ClearAbortForgets(g) ==
    IF g.kind # "aborting" THEN Result(g, EmptyPlan) ELSE Result(Idle, ClearPlan)

\* releaseAbortingTurn: user input, a continuation or an agent start.
ClearAbort(g) ==
    IF g.kind # "aborting" THEN Result(g, EmptyPlan)
    ELSE Result(Settle([g EXCEPT !.agentEnds = WithPhase(@, "older")]),
                IF HasPending(g) THEN ClearPlan ELSE EmptyPlan)

TurnStartEvent(g) ==
    IF g.kind = "observing" THEN Result(Settle(g), EmptyPlan) ELSE ClearAbort(g)

\* Mutant: the end of a tool of an aborted turn is accounted for.
MidTurnEventUnguarded(g) == Result(g, EmptyPlan)

\* toolExecutionEnd, sessionBeforeCompact, sessionCompact
MidTurnEvent(g) == Result(g, IF g.kind = "aborting" THEN SkipClearPlan ELSE EmptyPlan)

\* Mutant: the guard goes on waiting when nothing is owed any more.
AfterTerminalWaits(g) == g

\* resolveCleanupAfterTerminalEvent; an observed or aborted turn stays.
AfterTerminal(g) == IF g.kind = "awaiting" THEN Settle(g) ELSE g

TurnEndEvent(g, turn) ==
    LET consumed == [g EXCEPT !.turnEnds = @ \ {turn}]
    IN  IF g.kind = "aborting" /\ turn = g.activeTurn /\ turn # Null
        THEN Result(consumed, SkipClearPlan)
        ELSE IF turn \in g.turnEnds
        THEN Result(AfterTerminal(consumed), SkipPlan)
        ELSE Result(g, EmptyPlan)

\* finishActiveAbortingLifecycle
FinishAbort(g) == 
    Result(Settle([g EXCEPT !.agentEnds = Without(@, InPhase(@, "active"))]), SkipClearPlan)

AgentEndEvent(g, end) ==
    LET aborting == Consume(g.agentEnds, AbortingConsumed(g, end))
        left == [g EXCEPT !.agentEnds = aborting.rest]
        pending == Consume(g.agentEnds, PendingConsumed(g.agentEnds, end))
    IN  CASE g.kind = "idle" -> Result(g, EmptyPlan)
          [] g.kind = "aborting" ->
               IF "active" \in aborting.taken THEN FinishAbort(left)
               ELSE IF "older" \in aborting.taken THEN Result(left, SkipPlan)
               ELSE IF InPhase(left.agentEnds, "active") # {} THEN Result(left, EmptyPlan)
               ELSE FinishAbort(left)
          [] OTHER ->
               IF pending.taken = {} THEN Result(g, EmptyPlan)
               ELSE Result(AfterTerminal([g EXCEPT !.agentEnds = pending.rest]), SkipPlan)

SessionShutdownEvent(g) == Result(Idle, IF g.kind = "aborting" THEN ClearPlan ELSE EmptyPlan)
=============================================================================
