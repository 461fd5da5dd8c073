--------------------------- MODULE StaleWork_proofs ---------------------------
(***************************************************************************)
(* What the guard against stale work promises about turns and about runs,  *)
(* proved for any number of goals and of turns.                            *)
(*                                                                         *)
(* A turn_end is recognised by its index alone, so the first proof is      *)
(* about indexes: every index the guard holds is one the host has used,    *)
(* and while a turn runs none of them is that turn's.                      *)
(*                                                                         *)
(* An agent_end is recognised by the goals its messages name, or by        *)
(* nothing at all, so the second proof is about order: each turn whose     *)
(* agent_end is owed keeps an obligation of its own, in the order of the   *)
(* turns, and an end consumes none of a turn that comes after its own.     *)
(***************************************************************************)
EXTENDS StaleWorkRuntime, TLAPS, WellFoundedInduction, SequenceTheorems

\* A state of the guard has exactly the six fields.
Shaped(g) ==
    g = [kind |-> g.kind, stale |-> g.stale, runnable |-> g.runnable,
         activeTurn |-> g.activeTurn, turnEnds |-> g.turnEnds, agentEnds |-> g.agentEnds]

\* The indexes are those of turns the host has started, and not of a turn
\* that is running.
IndexesArePast(g) ==
    \A t \in g.turnEnds : /\ t \in Nat /\ turn \in Nat
                          /\ t <= turn
                          /\ phase # "idle" => t < turn

GoalShaped == goal = [id |-> goal.id, active |-> goal.active]

\* What is inductive: no turn runs while one is being aborted, so no turn_end
\* but a late one can meet the guard then.
IInv ==
    /\ Shaped(guard)
    /\ GoalShaped
    /\ turn \in Nat \cup {Null}
    /\ phase # "idle" => turn \in Nat
    /\ IndexesArePast(guard)
    /\ AbortedTurnsRemembered
    /\ guard.kind = "aborting" => phase = "idle"
    /\ AbortStopsAccounting
    /\ TurnEndsToldApart

-----------------------------------------------------------------------------
(***************************************************************************)
(* What each event does to the indexes.                                    *)
(***************************************************************************)
\* Settling keeps the indexes and ends an abort.
LEMMA SettleKeeps ==
  ASSUME NEW g
  PROVE  /\ Shaped(Settle(g))
         /\ Settle(g).turnEnds = g.turnEnds
         /\ Settle(g).kind # "aborting"
<1>1. CASE HasPending(g)
  BY <1>1 DEF Settle, Awaiting, Idle, Shaped
<1>2. CASE ~HasPending(g)
  BY <1>2 DEF Settle, HasPending, Idle, Shaped
<1> QED BY <1>1, <1>2

\* Queued work that starts changes neither the indexes nor an abort.
LEMMA WorkStartedKeeps ==
  ASSUME NEW g, Shaped(g), NEW id
  PROVE  /\ Shaped(RunnableWorkStarted(g)) /\ Shaped(StaleWorkStarted(g, id))
         /\ RunnableWorkStarted(g).turnEnds = g.turnEnds
         /\ StaleWorkStarted(g, id).turnEnds = g.turnEnds
         /\ g.kind # "aborting" => /\ RunnableWorkStarted(g).kind # "aborting"
                                   /\ StaleWorkStarted(g, id).kind # "aborting"
<1>1. CASE g.kind = "aborting"
  BY <1>1 DEF RunnableWorkStarted, StaleWorkStarted
<1>2. CASE g.kind # "aborting"
  BY <1>2 DEF RunnableWorkStarted, StaleWorkStarted, Observe, Shaped
<1> QED BY <1>1, <1>2

\* An abort notes the turn's index and drops the accounting; otherwise the
\* context is let through with the indexes as they were.
LEMMA ContextAbortNotes ==
  ASSUME NEW g, Shaped(g), g.kind # "aborting", NEW t
  PROVE  LET r == ContextAbort(g, t)
         IN  /\ Shaped(r.state)
             /\ r.plan.aborts => /\ r.plan.clears
                                 /\ r.state.turnEnds = NoteTurn(g.turnEnds, t)
             /\ ~r.plan.aborts => /\ r.state.turnEnds = g.turnEnds
                                  /\ r.state.kind # "aborting"
<1>1. CASE StartsAbort(g)
  BY <1>1 DEF ContextAbort, Result, AbortPlan, Plan, Idle, Shaped
<1>2. CASE ~StartsAbort(g) /\ g.kind = "observing" /\ HasPending(g)
  BY <1>2 DEF ContextAbort, Result, EmptyPlan, Plan, Awaiting, Idle, Shaped
<1>3. CASE ~StartsAbort(g) /\ ~(g.kind = "observing" /\ HasPending(g))
  BY <1>3 DEF ContextAbort, Result, EmptyPlan, Plan
<1> QED BY <1>1, <1>2, <1>3

\* Releasing an abort, or starting a turn, ends it and keeps the indexes.
LEMMA ReleaseKeeps ==
  ASSUME NEW g, Shaped(g)
  PROVE  /\ Shaped(ClearAbort(g).state) /\ Shaped(TurnStartEvent(g).state)
         /\ ClearAbort(g).state.turnEnds = g.turnEnds
         /\ TurnStartEvent(g).state.turnEnds = g.turnEnds
         /\ ClearAbort(g).state.kind # "aborting"
         /\ TurnStartEvent(g).state.kind # "aborting"
<1> DEFINE h == [g EXCEPT !.agentEnds = WithPhase(@, "older")]
<1>1. h.turnEnds = g.turnEnds
  BY DEF Shaped
<1>2. Shaped(Settle(h)) /\ Settle(h).turnEnds = g.turnEnds /\ Settle(h).kind # "aborting"
  BY <1>1, SettleKeeps
<1>3. Shaped(Settle(g)) /\ Settle(g).turnEnds = g.turnEnds /\ Settle(g).kind # "aborting"
  BY SettleKeeps
<1>4. ClearAbort(g).state = IF g.kind # "aborting" THEN g ELSE Settle(h)
  BY DEF ClearAbort, Result
<1>5. TurnStartEvent(g).state =
        IF g.kind = "observing" THEN Settle(g) ELSE ClearAbort(g).state
  BY DEF TurnStartEvent, Result
<1> HIDE DEF h
<1> QED BY <1>2, <1>3, <1>4, <1>5

\* A turn_end is skipped exactly if its index is held or the turn is the one
\* being aborted; it takes its own index away and no other.
LEMMA TurnEndTakesItsOwn ==
  ASSUME NEW g, Shaped(g), NEW t
  PROVE  LET r == TurnEndEvent(g, t)
         IN  /\ Shaped(r.state)
             /\ r.state.turnEnds \subseteq g.turnEnds
             /\ g.turnEnds \ {t} \subseteq r.state.turnEnds
             /\ t \in g.turnEnds => r.plan.skip
             /\ t \notin g.turnEnds /\ g.kind # "aborting" => ~r.plan.skip
             /\ r.state.kind = "aborting" => g.kind = "aborting"
<1> DEFINE h == [g EXCEPT !.turnEnds = @ \ {t}]
<1>1. Shaped(h) /\ h.turnEnds = g.turnEnds \ {t} /\ h.kind = g.kind
  BY DEF Shaped
<1>2. /\ Shaped(AfterTerminal(h))
      /\ AfterTerminal(h).turnEnds = g.turnEnds \ {t}
      /\ AfterTerminal(h).kind = "aborting" => g.kind = "aborting"
  BY <1>1, SettleKeeps DEF AfterTerminal
<1>3. CASE g.kind = "aborting" /\ t = g.activeTurn /\ t # Null
  <2>1. TurnEndEvent(g, t) = Result(h, SkipClearPlan)
    BY <1>3 DEF TurnEndEvent
  <2> HIDE DEF h
  <2> QED BY <1>1, <1>3, <2>1 DEF Result, SkipClearPlan, Plan
<1>4. CASE ~(g.kind = "aborting" /\ t = g.activeTurn /\ t # Null) /\ t \in g.turnEnds
  <2>1. TurnEndEvent(g, t) = Result(AfterTerminal(h), SkipPlan)
    BY <1>4 DEF TurnEndEvent
  <2> HIDE DEF h
  <2> QED BY <1>2, <1>4, <2>1 DEF Result, SkipPlan, Plan
<1>5. CASE ~(g.kind = "aborting" /\ t = g.activeTurn /\ t # Null) /\ t \notin g.turnEnds
  BY <1>5 DEF TurnEndEvent, Result, EmptyPlan, Plan
<1> QED BY <1>3, <1>4, <1>5

\* An agent_end leaves the indexes alone and starts no abort.
LEMMA AgentEndKeeps ==
  ASSUME NEW g, Shaped(g), NEW end
  PROVE  LET r == AgentEndEvent(g, end)
         IN  /\ Shaped(r.state)
             /\ r.state.turnEnds = g.turnEnds
             /\ r.state.kind = "aborting" => g.kind = "aborting"
<1> DEFINE aborting == Consume(g.agentEnds, AbortingConsumed(g, end))
           left == [g EXCEPT !.agentEnds = aborting.rest]
           pending == Consume(g.agentEnds, PendingConsumed(g.agentEnds, end))
           paid == [g EXCEPT !.agentEnds = pending.rest]
           finished == [left EXCEPT !.agentEnds = Without(@, InPhase(@, "active"))]
<1>1. Shaped(left) /\ left.turnEnds = g.turnEnds /\ left.kind = g.kind
  BY DEF Shaped
<1>2. Shaped(paid) /\ paid.turnEnds = g.turnEnds /\ paid.kind = g.kind
  BY DEF Shaped
<1>3. finished.turnEnds = g.turnEnds
  BY <1>1 DEF Shaped
<1>4. /\ Shaped(FinishAbort(left).state)
      /\ FinishAbort(left).state.turnEnds = g.turnEnds
      /\ FinishAbort(left).state.kind # "aborting"
  <2>1. FinishAbort(left).state = Settle(finished)
    BY DEF FinishAbort, Result
  <2> HIDE DEF finished, left
  <2> QED BY <2>1, <1>3, SettleKeeps
<1>5. /\ Shaped(AfterTerminal(paid))
      /\ AfterTerminal(paid).turnEnds = g.turnEnds
      /\ AfterTerminal(paid).kind = "aborting" => g.kind = "aborting"
  <2> HIDE DEF paid
  <2> QED BY <1>2, SettleKeeps DEF AfterTerminal
<1>6. AgentEndEvent(g, end).state \in {g, FinishAbort(left).state, left, AfterTerminal(paid)}
  <2>1. CASE g.kind = "idle"
    BY <2>1 DEF AgentEndEvent, Result
  <2>2. CASE g.kind = "aborting"
    BY <2>2 DEF AgentEndEvent, Result
  <2>3. CASE g.kind \notin {"idle", "aborting"}
    BY <2>3 DEF AgentEndEvent, Result
  <2> QED BY <2>1, <2>2, <2>3
<1> HIDE DEF left, paid
<1> QED BY <1>1, <1>4, <1>5, <1>6

-----------------------------------------------------------------------------
(***************************************************************************)
(* The handlers.                                                           *)
(***************************************************************************)
\* A skipped event is on record as swallowed, any other as handled.  A skipped
\* one never gives the accounting to a goal, nor does a handled one that tells
\* of an aborted turn, for it pauses the goal.
LEMMA HandleRecords ==
  ASSUME NEW r, NEW e, NEW aborted \in BOOLEAN, Handle(r, e, aborted), GoalShaped
  PROVE  /\ guard' = r.state
         /\ GoalShaped'
         /\ r.plan.skip => /\ swallowed' = swallowed \cup {e} /\ handled' = handled
                           /\ owner' \in {owner, Null}
         /\ ~r.plan.skip => /\ handled' = handled \cup {e} /\ swallowed' = swallowed
                            /\ aborted => owner' = Null
<1>1. CASE r.plan.skip
  BY <1>1 DEF Handle, Answer, KeepOrClear, GoalShaped
<1>2. CASE ~r.plan.skip
  <2>1. goal' = IF aborted THEN [goal EXCEPT !.active = FALSE] ELSE goal
    BY <1>2 DEF Handle
  <2>2. GoalShaped' /\ (aborted => ~goal'.active)
    BY <2>1 DEF GoalShaped
  <2> QED BY <1>2, <2>2 DEF Handle, Answer, Owned, ActiveId
<1> QED BY <1>1, <1>2

\* Where a step leaves the host's turns and the record alone, what it does to
\* the guard and to the accounting is all there is to check.
LEMMA GuardStep ==
  ASSUME IInv, GoalShaped',
         UNCHANGED <<turn, phase, owedTurnEnds, handled, swallowed>>,
         Shaped(guard'), guard'.turnEnds = guard.turnEnds,
         guard'.kind = "aborting" => guard.kind = "aborting" /\ owner' \in {owner, Null}
  PROVE  IInv'
<1> QED BY DEF IInv, IndexesArePast, AbortedTurnsRemembered, AbortStopsAccounting,
               TurnEndsToldApart, Of

-----------------------------------------------------------------------------
(***************************************************************************)
(* The invariant.                                                          *)
(***************************************************************************)
LEMMA InvariantInit == Init => IInv
<1> QED BY DEF Init, IInv, Idle, Shaped, GoalShaped, NoGoal, IndexesArePast,
               AbortedTurnsRemembered, AbortStopsAccounting, TurnEndsToldApart, Of

\* Between turns: the goal's commands, input, what starts and what aborts.
LEMMA GoalSteps ==
  ASSUME IInv, (\E id \in GoalIds : StartOrReplace(id)) \/ StopGoal \/ ResumeGoal
  PROVE  IInv'
<1>1. GoalShaped' /\ guard' = guard /\ owner' \in {owner, Null}
  BY DEF IInv, GoalShaped, StartOrReplace, StopGoal, ResumeGoal
<1>2. UNCHANGED <<turn, phase, owedTurnEnds, handled, swallowed>>
  BY DEF StartOrReplace, StopGoal, ResumeGoal, host, outcome
<1> QED BY <1>1, <1>2, GuardStep DEF IInv

LEMMA ReleasesAbortStep ==
  ASSUME IInv, ReleasesAbort
  PROVE  IInv'
<1>1. guard' = ClearAbort(guard).state
  BY DEF ReleasesAbort, Answer
<1>2. UNCHANGED <<goal, turn, phase, owedTurnEnds, handled, swallowed>>
  BY DEF ReleasesAbort, host, outcome
<1>3. Shaped(guard') /\ guard'.turnEnds = guard.turnEnds /\ guard'.kind # "aborting"
  BY <1>1, ReleaseKeeps DEF IInv
<1> QED BY <1>2, <1>3, GuardStep DEF IInv, GoalShaped

LEMMA TurnStartStep ==
  ASSUME IInv, TurnStart
  PROVE  IInv'
<1>1. /\ guard' = TurnStartEvent(guard).state
      /\ turn' = IF turn = Null THEN 0 ELSE turn + 1
      /\ UNCHANGED <<goal, owedTurnEnds, handled, swallowed>>
  BY DEF TurnStart, Answer, outcome
<1>2. Shaped(guard') /\ guard'.turnEnds = guard.turnEnds /\ guard'.kind # "aborting"
  BY <1>1, ReleaseKeeps DEF IInv
<1>3. turn' \in Nat /\ (turn \in Nat => turn < turn')
  BY <1>1, TurnAssumption DEF IInv
<1>4. IndexesArePast(guard)'
  BY <1>2, <1>3 DEF IInv, IndexesArePast
<1> QED BY <1>1, <1>2, <1>3, <1>4 DEF IInv, GoalShaped, AbortedTurnsRemembered,
           AbortStopsAccounting, TurnEndsToldApart, Of

LEMMA MessageStartStep ==
  ASSUME IInv, NEW id, MessageStart(id)
  PROVE  IInv'
<1>1. /\ guard' \in {RunnableWorkStarted(guard), StaleWorkStarted(guard, id)}
      /\ phase \in {"start", "turn"} /\ phase' = "turn"
      /\ UNCHANGED <<goal, owner, turn, owedTurnEnds, handled, swallowed>>
  BY DEF MessageStart, outcome
<1>2. guard.kind # "aborting"
  BY <1>1 DEF IInv
<1>3. Shaped(guard') /\ guard'.turnEnds = guard.turnEnds /\ guard'.kind # "aborting"
  BY <1>1, <1>2, WorkStartedKeeps DEF IInv
<1>4. IndexesArePast(guard)'
  BY <1>1, <1>3 DEF IInv, IndexesArePast
<1> QED BY <1>1, <1>3, <1>4 DEF IInv, GoalShaped, AbortedTurnsRemembered,
           AbortStopsAccounting, TurnEndsToldApart, Of

\* The turn that is aborted here is the newest, and it is no longer running.
LEMMA ContextStep ==
  ASSUME IInv, Context
  PROVE  IInv'
<1> DEFINE r == ContextAbort(guard, turn)
<1>1. /\ guard' = r.state
      /\ phase = "turn" /\ phase' = IF r.plan.aborts THEN "idle" ELSE "model"
      /\ owner' = IF r.plan.clears THEN Null ELSE owner
      /\ owedTurnEnds' = IF r.plan.aborts THEN owedTurnEnds \cup {turn} ELSE owedTurnEnds
      /\ UNCHANGED <<goal, turn, handled, swallowed>>
  BY DEF Context, Answer, KeepOrClear, outcome
<1>2. turn \in Nat /\ turn # Null /\ guard.kind # "aborting"
  BY <1>1, TurnAssumption DEF IInv
<1>3. /\ Shaped(r.state)
      /\ r.plan.aborts => /\ r.plan.clears
                          /\ r.state.turnEnds = guard.turnEnds \cup {turn}
      /\ ~r.plan.aborts => /\ r.state.turnEnds = guard.turnEnds
                           /\ r.state.kind # "aborting"
  BY <1>2, ContextAbortNotes DEF IInv, NoteTurn
<1> HIDE DEF r
<1>4. IndexesArePast(guard)'
  BY <1>1, <1>2, <1>3 DEF IInv, IndexesArePast
<1> QED BY <1>1, <1>2, <1>3, <1>4 DEF IInv, GoalShaped, AbortedTurnsRemembered,
           AbortStopsAccounting, TurnEndsToldApart, Of

LEMMA MidTurnStep ==
  ASSUME IInv, MidTurn
  PROVE  IInv'
<1>1. MidTurnEvent(guard).state = guard
  BY DEF MidTurnEvent, Result
<1>2. guard.kind = "aborting" => MidTurnEvent(guard).plan.skip
  BY DEF MidTurnEvent, Result, SkipClearPlan, Plan
<1>3. /\ guard' = guard
      /\ guard.kind = "aborting" => owner' \in {owner, Null}
  BY <1>1, <1>2 DEF MidTurn, Answer, KeepOrClear
<1>4. UNCHANGED <<goal, turn, phase, owedTurnEnds, handled, swallowed>>
  BY DEF MidTurn, host, outcome
<1> QED BY <1>3, <1>4, GuardStep DEF IInv, GoalShaped

\* The index of the turn that runs is not held, so its turn_end is handled.
LEMMA TurnEndStep ==
  ASSUME IInv, NEW aborted \in BOOLEAN, TurnEnd(aborted)
  PROVE  IInv'
<1> DEFINE r == TurnEndEvent(guard, turn)
           e == Event("turn_end", FALSE, {}, FALSE)
<1>1. /\ phase = "model" /\ phase' = "ended"
      /\ Handle(r, e, aborted)
      /\ UNCHANGED <<turn, owedTurnEnds>>
  BY DEF TurnEnd
<1>2. turn \in Nat /\ turn \notin guard.turnEnds /\ guard.kind # "aborting"
  BY <1>1 DEF IInv, IndexesArePast
<1>3. /\ ~r.plan.skip /\ Shaped(r.state)
      /\ r.state.turnEnds = guard.turnEnds
      /\ r.state.kind # "aborting"
  BY <1>2, TurnEndTakesItsOwn DEF IInv
<1>6. e.event = "turn_end" /\ e.stale = FALSE
  BY DEF Event
<1> HIDE DEF r, e
<1>4. /\ guard' = r.state /\ GoalShaped'
      /\ handled' = handled \cup {e} /\ swallowed' = swallowed
  <2>1. GoalShaped /\ Handle(r, e, aborted) /\ ~r.plan.skip
    BY <1>1, <1>3 DEF IInv
  <2> QED BY <2>1, HandleRecords, Zenon
<1>5. IndexesArePast(guard)'
  BY <1>1, <1>2, <1>3, <1>4 DEF IInv, IndexesArePast
<1>7. TurnEndsToldApart'
  BY <1>4, <1>6 DEF IInv, TurnEndsToldApart, Of
<1> QED BY <1>1, <1>2, <1>3, <1>4, <1>5, <1>7 DEF IInv, AbortedTurnsRemembered,
           AbortStopsAccounting

\* The index of an aborted turn is held until its turn_end comes.
LEMMA LateTurnEndStep ==
  ASSUME IInv, NEW t \in owedTurnEnds, LateTurnEnd(t)
  PROVE  IInv'
<1> DEFINE r == TurnEndEvent(guard, t)
           e == Event("turn_end", TRUE, {}, FALSE)
<1>1. /\ Handle(r, e, TRUE)
      /\ owedTurnEnds' = owedTurnEnds \ {t}
      /\ UNCHANGED <<turn, phase>>
  BY DEF LateTurnEnd
<1>2. t \in guard.turnEnds
  BY DEF IInv, AbortedTurnsRemembered
<1>3. /\ r.plan.skip /\ Shaped(r.state)
      /\ r.state.turnEnds \subseteq guard.turnEnds
      /\ guard.turnEnds \ {t} \subseteq r.state.turnEnds
      /\ r.state.kind = "aborting" => guard.kind = "aborting"
  BY <1>2, TurnEndTakesItsOwn DEF IInv
<1> HIDE DEF r
<1>4. /\ guard' = r.state /\ GoalShaped'
      /\ swallowed' = swallowed \cup {e} /\ handled' = handled
      /\ owner' \in {owner, Null}
  BY <1>1, <1>3, HandleRecords DEF IInv
<1>5. IndexesArePast(guard)'
  BY <1>1, <1>3, <1>4 DEF IInv, IndexesArePast
<1>6. e.stale = TRUE
  BY DEF Event
<1>7. TurnEndsToldApart'
  BY <1>4, <1>6 DEF IInv, TurnEndsToldApart, Of
<1> QED BY <1>1, <1>3, <1>4, <1>5, <1>7 DEF IInv, AbortedTurnsRemembered,
           AbortStopsAccounting

\* The end of a run: the guard is not aborting while a turn runs, and a late
\* end that is handled during an abort pauses the goal.
LEMMA AgentEndHandled ==
  ASSUME IInv,
         NEW end, NEW stale, NEW ids, NEW overtaken, NEW aborted \in BOOLEAN,
         Handle(AgentEndEvent(guard, end), Event("agent_end", stale, ids, overtaken), aborted),
         aborted \/ phase = "ended",
         phase' \in {phase, "idle"},
         UNCHANGED <<turn, owedTurnEnds>>
  PROVE  IInv'
<1> DEFINE r == AgentEndEvent(guard, end)
           e == Event("agent_end", stale, ids, overtaken)
<1>2. /\ Shaped(r.state)
      /\ r.state.turnEnds = guard.turnEnds
      /\ r.state.kind = "aborting" => guard.kind = "aborting"
  BY AgentEndKeeps DEF IInv
<1>3. e.event = "agent_end"
  BY DEF Event
<1> HIDE DEF r, e
<1>4. /\ guard' = r.state /\ GoalShaped'
      /\ handled' \in {handled, handled \cup {e}}
      /\ swallowed' \in {swallowed, swallowed \cup {e}}
      /\ aborted => owner' \in {owner, Null}
  BY HandleRecords DEF IInv, r, e
<1>5. guard.kind = "aborting" => aborted
  BY DEF IInv
<1>6. IndexesArePast(guard)'
  BY <1>2, <1>4 DEF IInv, IndexesArePast
<1>7. TurnEndsToldApart'
  BY <1>3, <1>4 DEF IInv, TurnEndsToldApart, Of
<1> QED BY <1>2, <1>4, <1>5, <1>6, <1>7 DEF IInv, AbortedTurnsRemembered,
           AbortStopsAccounting

LEMMA AgentEndStep ==
  ASSUME IInv, NEW aborted \in BOOLEAN, NEW withGoalWork \in BOOLEAN,
         AgentEnd(aborted, withGoalWork)
  PROVE  IInv'
<1> DEFINE ids == Carries(carried, withGoalWork)
           end == [goalIds |-> ids, terminal |-> TRUE]
<1>1. Handle(AgentEndEvent(guard, end), Event("agent_end", FALSE, ids, FALSE), aborted)
  BY DEF AgentEnd
<1>2. phase = "ended" /\ phase' = "idle" /\ UNCHANGED <<turn, owedTurnEnds>>
  BY DEF AgentEnd
<1> HIDE DEF ids, end
<1> QED BY <1>1, <1>2, AgentEndHandled

LEMMA LateAgentEndStep ==
  ASSUME IInv, NEW owed \in owedAgentEnds, NEW withGoalWork \in BOOLEAN,
         LateAgentEnd(owed, withGoalWork)
  PROVE  IInv'
<1> DEFINE ids == Carries(owed.goalIds, withGoalWork)
           end == [goalIds |-> ids, terminal |-> TRUE]
           overtaken == owed.overtaken
<1>1. Handle(AgentEndEvent(guard, end), Event("agent_end", TRUE, ids, overtaken), TRUE)
  BY DEF LateAgentEnd
<1>2. UNCHANGED <<turn, phase, owedTurnEnds>>
  BY DEF LateAgentEnd
<1> HIDE DEF ids, end, overtaken
<1> QED BY <1>1, <1>2, AgentEndHandled

\* What the host loses or combines changes nothing but its debts.
LEMMA HostSteps ==
  ASSUME IInv,
         \/ \E t \in owedTurnEnds : LoseTurnEnd(t)
         \/ \E owed \in owedAgentEnds : LoseAgentEnd(owed)
         \/ \E a, b \in owedAgentEnds : CombineAgentEnds(a, b)
  PROVE  IInv'
<1>1. /\ owedTurnEnds' \subseteq owedTurnEnds
      /\ UNCHANGED <<guard, goal, owner, turn, phase, handled, swallowed>>
  BY DEF LoseTurnEnd, LoseAgentEnd, CombineAgentEnds, outcome
<1> QED BY <1>1 DEF IInv, GoalShaped, IndexesArePast, AbortedTurnsRemembered,
           AbortStopsAccounting, TurnEndsToldApart, Of

LEMMA NewSessionStep ==
  ASSUME IInv, NewSession
  PROVE  IInv'
<1>1. guard' = Idle /\ turn' = Null /\ phase' = "idle" /\ goal' = goal
  BY DEF NewSession, Answer, SessionShutdownEvent, Result
<1>2. owedTurnEnds' = {} /\ handled' = {} /\ swallowed' = {}
  BY DEF NewSession
<1> QED BY <1>1, <1>2 DEF IInv, Idle, Shaped, GoalShaped, IndexesArePast,
           AbortedTurnsRemembered, AbortStopsAccounting, TurnEndsToldApart, Of

LEMMA Stutter ==
  ASSUME IInv, UNCHANGED vars
  PROVE  IInv'
<1>1. UNCHANGED <<guard, goal, owner, turn, phase, owedTurnEnds, handled, swallowed>>
  BY DEF vars, host, outcome
<1> QED BY <1>1 DEF IInv, GoalShaped, IndexesArePast, AbortedTurnsRemembered,
           AbortStopsAccounting, TurnEndsToldApart, Of

\* In every state the guard holds only indexes of turns that are over, all of
\* those whose end may still come, and aborts no turn that runs.
THEOREM GuardInvariant == Spec => []IInv
<1>1. IInv /\ [Next]_vars => IInv'
  <2> SUFFICES ASSUME IInv, [Next]_vars PROVE IInv'
    OBVIOUS
  <2>1. CASE (\E id \in GoalIds : StartOrReplace(id)) \/ StopGoal \/ ResumeGoal
    BY <2>1, GoalSteps
  <2>2. CASE ReleasesAbort
    BY <2>2, ReleasesAbortStep
  <2>3. CASE TurnStart
    BY <2>3, TurnStartStep
  <2>4. CASE \E id \in GoalIds \cup {Null} : MessageStart(id)
    BY <2>4, MessageStartStep
  <2>5. CASE Context
    BY <2>5, ContextStep
  <2>6. CASE MidTurn
    BY <2>6, MidTurnStep
  <2>7. CASE \E aborted \in BOOLEAN : TurnEnd(aborted)
    BY <2>7, TurnEndStep
  <2>8. CASE \E aborted, withGoalWork \in BOOLEAN : AgentEnd(aborted, withGoalWork)
    BY <2>8, AgentEndStep
  <2>9. CASE \E owed \in owedAgentEnds, withGoalWork \in BOOLEAN :
                LateAgentEnd(owed, withGoalWork)
    BY <2>9, LateAgentEndStep
  <2>10. CASE \E t \in owedTurnEnds : LateTurnEnd(t)
    BY <2>10, LateTurnEndStep
  <2>11. CASE \/ \E t \in owedTurnEnds : LoseTurnEnd(t)
              \/ \E owed \in owedAgentEnds : LoseAgentEnd(owed)
              \/ \E a, b \in owedAgentEnds : CombineAgentEnds(a, b)
    BY <2>11, HostSteps
  <2>12. CASE NewSession
    BY <2>12, NewSessionStep
  <2>13. CASE UNCHANGED vars
    BY <2>13, Stutter
  <2> QED BY <2>1, <2>2, <2>3, <2>4, <2>5, <2>6, <2>7, <2>8, <2>9, <2>10, <2>11, <2>12, <2>13
          DEF Next
<1> QED BY InvariantInit, <1>1, PTL DEF Spec

\* A late turn_end of an aborted turn is always skipped and the turn_end of a
\* turn that ran never is, however many turns are aborted and in whatever
\* order their ends come or fail to come (planTurnEnd in onTurnEnd).
THEOREM TurnEndsAreToldApart == Spec => []TurnEndsToldApart
<1>1. IInv => TurnEndsToldApart
  BY DEF IInv
<1> QED BY GuardInvariant, <1>1, PTL

\* The indexes of aborted turns survive every later abort, release and turn.
THEOREM AbortedTurnsAreRemembered == Spec => []AbortedTurnsRemembered
<1>1. IInv => AbortedTurnsRemembered
  BY DEF IInv
<1> QED BY GuardInvariant, <1>1, PTL

\* While a stale turn is being aborted no goal owns the accounting.
THEOREM AbortChargesNobody == Spec => []AbortStopsAccounting
<1>1. IInv => AbortStopsAccounting
  BY DEF IInv
<1> QED BY GuardInvariant, <1>1, PTL

-----------------------------------------------------------------------------
(***************************************************************************)
(* What taking obligations away leaves, for any obligations: Kept is a     *)
(* recursive function, so it is proved from a least counterexample.        *)
(***************************************************************************)
NatLess == OpToRel(<, Nat)

\* Every nonempty set of natural numbers has a least element.
LEMMA LeastNat ==
  ASSUME NEW S \in SUBSET Nat, S # {}
  PROVE  \E n \in S : \A m \in S : n <= m
<1>1. PICK n \in S : \A m \in S : ~(<<m, n>> \in NatLess)
  BY NatLessThanWellFounded, WFMin, Zenon DEF NatLess
<1>2. ASSUME NEW m \in S PROVE n <= m
  <2>1. <<m, n>> \in NatLess <=> m < n
    BY <1>1 DEF NatLess, OpToRel
  <2> QED BY <2>1, <1>1
<1> QED BY <1>2

NextKept(before, o, P, n) == IF n \in P THEN before ELSE Append(before, o[n])

IsKept(k, o, P, n) ==
    k = [i \in 0..n |-> IF i = 0 THEN <<>>
                        ELSE IF i \in P THEN k[i - 1] ELSE Append(k[i - 1], o[i])]

\* What is left of the first n exists, for every n.
LEMMA KeptExists ==
  ASSUME NEW o, NEW P
  PROVE  \A n \in Nat : \E k : IsKept(k, o, P, n)
<1> DEFINE Bad == {n \in Nat : ~\E k : IsKept(k, o, P, n)}
<1> SUFFICES ASSUME Bad # {} PROVE FALSE
  OBVIOUS
<1>1. PICK n \in Bad : \A m \in Bad : n <= m
  BY LeastNat
<1>2. CASE n = 0
  <2> DEFINE k == [i \in 0..0 |-> <<>>]
  <2>1. k = [i \in 0..0 |-> IF i = 0 THEN <<>>
                            ELSE IF i \in P THEN k[i - 1] ELSE Append(k[i - 1], o[i])]
    OBVIOUS
  <2> QED BY <1>2, <2>1 DEF IsKept
<1>3. CASE n # 0
  <2>1. n - 1 \in Nat /\ n - 1 \notin Bad
    BY <1>1, <1>3
  <2>2. PICK k : IsKept(k, o, P, n - 1)
    BY <2>1
  <2> DEFINE h == [i \in 0..n |-> IF i = n THEN NextKept(k[n - 1], o, P, n) ELSE k[i]]
  <2>3. \A i \in 0..(n - 1) :
          k[i] = IF i = 0 THEN <<>> ELSE NextKept(k[i - 1], o, P, i)
    BY <2>2 DEF IsKept, NextKept
  <2>4. \A i \in 1..n : h[i - 1] = k[i - 1]
    BY <2>1
  <2>5. ASSUME NEW i \in 0..n
        PROVE  h[i] = IF i = 0 THEN <<>> ELSE NextKept(h[i - 1], o, P, i)
    <3>1. CASE i = n
      BY <3>1, <2>4, <1>3, <2>1
    <3>2. CASE i # n
      <4>1. i \in 0..(n - 1) /\ h[i] = k[i]
        BY <3>2, <2>1
      <4> QED BY <4>1, <2>3, <2>4, <2>1
    <3> QED BY <3>1, <3>2
  <2>6. h = [i \in 0..n |-> h[i]]
    OBVIOUS
  <2> HIDE DEF h
  <2>7. IsKept(h, o, P, n)
    BY <2>5, <2>6 DEF IsKept, NextKept
  <2> QED BY <2>7
<1> QED BY <1>2, <1>3

\* Kept is the recursive function it is written as.
LEMMA KeptUnfolds ==
  ASSUME NEW o, NEW P, Len(o) \in Nat
  PROVE  IsKept(Kept(o, P), o, P, Len(o))
<1>1. \E k : IsKept(k, o, P, Len(o))
  BY KeptExists
<1>2. Kept(o, P) = CHOOSE k : IsKept(k, o, P, Len(o))
  BY Zenon DEF Kept, IsKept
<1> QED BY <1>1, <1>2

\* r is what is left of the first n of o without those at P: an order
\* isomorphism leads from its positions to theirs.
Leads(g, r, o, P, n) ==
    /\ g \in [DOMAIN r -> (1..n) \ P]
    /\ \A i, j \in DOMAIN r : i < j => g[i] < g[j]
    /\ \A i \in (1..n) \ P : \E j \in DOMAIN r : g[j] = i
    /\ \A j \in DOMAIN r : r[j] = o[g[j]]

LeftOf(r, o, P, n) == r \in Seq(Obligations) /\ \E g : Leads(g, r, o, P, n)

\* One more obligation is left out, or comes last.
LEMMA LeftStep ==
  ASSUME NEW o \in Seq(Obligations), NEW P, NEW n \in 1..Len(o), NEW r, LeftOf(r, o, P, n - 1)
  PROVE  LeftOf(NextKept(r, o, P, n), o, P, n)
<1>1. PICK g : Leads(g, r, o, P, n - 1)
  BY DEF LeftOf
<1>2. Len(o) \in Nat /\ r \in Seq(Obligations) /\ o[n] \in Obligations
  BY LenProperties, ElementOfSeq DEF LeftOf
<1>3. Len(r) \in Nat /\ DOMAIN r = 1..Len(r)
  BY <1>2, LenProperties
<1>4. CASE n \in P
  <2>1. (1..n) \ P = (1..(n - 1)) \ P
    BY <1>2, <1>4
  <2>2. Leads(g, r, o, P, n)
    BY <1>1, <2>1 DEF Leads
  <2> QED BY <1>2, <1>4, <2>2 DEF LeftOf, NextKept
<1>5. CASE n \notin P
  <2> DEFINE s == Append(r, o[n])
             l == Len(r) + 1
             h == [j \in 1..l |-> IF j = l THEN n ELSE g[j]]
  <2>1. /\ s \in Seq(Obligations) /\ DOMAIN s = 1..l
        /\ s[l] = o[n] /\ \A j \in 1..Len(r) : s[j] = r[j]
    <3>1. s \in Seq(Obligations) /\ Len(s) = l
      BY <1>2, AppendProperties
    <3>2. DOMAIN s = 1..l
      BY <3>1, LenProperties
    <3> QED BY <1>2, <3>1, <3>2, AppendProperties
  <2>2. \A j \in 1..l : j = l \/ j \in 1..Len(r)
    BY <1>3
  <2>3. \A j \in 1..Len(r) : g[j] \in 1..(n - 1) /\ g[j] \notin P
    BY <1>1, <1>3 DEF Leads
  <2>4. h \in [DOMAIN s -> (1..n) \ P]
    BY <2>1, <2>2, <2>3, <1>2, <1>5
  <2>5. \A i, j \in DOMAIN s : i < j => h[i] < h[j]
    <3> SUFFICES ASSUME NEW i \in 1..l, NEW j \in 1..l, i < j PROVE h[i] < h[j]
      BY <2>1
    <3>1. i \in 1..Len(r) /\ h[i] = g[i]
      BY <1>3
    <3>2. CASE j = l
      BY <3>1, <3>2, <2>3, <1>2
    <3>3. CASE j # l
      BY <3>1, <3>3, <2>2, <1>1, <1>3 DEF Leads
    <3> QED BY <3>2, <3>3
  <2>6. \A i \in (1..n) \ P : \E j \in DOMAIN s : h[j] = i
    <3> SUFFICES ASSUME NEW i \in (1..n) \ P PROVE \E j \in 1..l : h[j] = i
      BY <2>1
    <3>1. CASE i = n
      BY <3>1, <1>3
    <3>2. CASE i # n
      <4>1. i \in (1..(n - 1)) \ P
        BY <3>2, <1>2
      <4>2. PICK j \in 1..Len(r) : g[j] = i
        BY <4>1, <1>1, <1>3 DEF Leads
      <4> QED BY <4>2, <1>3
    <3> QED BY <3>1, <3>2
  <2>7. \A j \in DOMAIN s : s[j] = o[h[j]]
    BY <2>1, <2>2, <1>1, <1>3 DEF Leads
  <2> HIDE DEF h, s
  <2>8. Leads(h, s, o, P, n)
    BY <2>4, <2>5, <2>6, <2>7 DEF Leads
  <2> QED BY <1>5, <2>1, <2>8 DEF LeftOf, NextKept, s
<1> QED BY <1>4, <1>5

\* What is left of all of them is what was meant.
LEMMA WithoutLeaves ==
  ASSUME NEW o \in Seq(Obligations), NEW P
  PROVE  LeftOf(Without(o, P), o, P, Len(o))
<1> DEFINE k == Kept(o, P)
           Bad == {n \in 0..Len(o) : ~LeftOf(k[n], o, P, n)}
<1>1. Len(o) \in Nat /\ IsKept(k, o, P, Len(o))
  BY LenProperties, KeptUnfolds
<1> HIDE DEF k
<1> SUFFICES ASSUME Bad # {} PROVE FALSE
  BY <1>1 DEF Without, k
<1>2. PICK n \in Bad : \A m \in Bad : n <= m
  <2>1. Bad \in SUBSET Nat
    BY <1>1
  <2> QED BY <2>1, LeastNat
<1>3. k[n] = IF n = 0 THEN <<>> ELSE NextKept(k[n - 1], o, P, n)
  BY <1>1 DEF IsKept, NextKept
<1>4. CASE n = 0
  <2> DEFINE g == [j \in {} |-> 0]
  <2>1. <<>> \in Seq(Obligations) /\ DOMAIN <<>> = {} /\ (1..0) \ P = {}
    BY EmptySeq
  <2>2. Leads(g, <<>>, o, P, 0)
    BY <2>1 DEF Leads
  <2> HIDE DEF g
  <2> QED BY <1>2, <1>3, <1>4, <2>1, <2>2 DEF LeftOf
<1>5. CASE n # 0
  <2>1. n - 1 \in 0..Len(o) /\ n - 1 \notin Bad /\ n \in 1..Len(o)
    BY <1>1, <1>2, <1>5
  <2>2. LeftOf(k[n - 1], o, P, n - 1)
    BY <2>1
  <2>3. LeftOf(NextKept(k[n - 1], o, P, n), o, P, n)
    BY <2>1, <2>2, LeftStep
  <2> QED BY <1>3, <1>5, <1>2, <2>3
<1> QED BY <1>4, <1>5

-----------------------------------------------------------------------------
(***************************************************************************)
(* The guard's type, and what each event does to the obligations.          *)
(***************************************************************************)
\* Only the newest obligation of a turn being aborted is active, and while it
\* is aborted an agent_end without work may meet any of them.
Phased(kind, o) ==
    /\ kind # "aborting" => \A i \in DOMAIN o : o[i].phase = "older"
    /\ kind = "aborting" =>
         /\ o # <<>>
         /\ \A i \in DOMAIN o : /\ o[i].phase = IF i = Len(o) THEN "active" ELSE "older"
                                /\ o[i].anonymous

GuardTyped(g) ==
    /\ g \in GuardStates
    /\ g.kind # "observing" => g.stale = {} /\ ~g.runnable
    /\ g.kind # "aborting" => g.activeTurn = Null
    /\ g.kind = "idle" => ~HasPending(g)
    /\ g.kind \in {"aborting", "awaiting"} => HasPending(g)
    /\ Phased(g.kind, g.agentEnds)

\* The same obligations, but for their phases and whether id-less ends match.
Alike(o, r) == DOMAIN r = DOMAIN o /\ \A i \in DOMAIN o : r[i].goalIds = o[i].goalIds

LEMMA SameRange ==
  ASSUME NEW m \in Nat, NEW n \in Nat, 1..m = 1..n
  PROVE  m = n
<1>1. CASE m < n
  BY <1>1, n \in 1..n
<1>2. CASE n < m
  BY <1>2, m \in 1..m
<1> QED BY <1>1, <1>2

LEMMA ObligationsProps ==
  ASSUME NEW o \in Seq(Obligations)
  PROVE  /\ Len(o) \in Nat /\ DOMAIN o = 1..Len(o)
         /\ \A i \in DOMAIN o : o[i] \in Obligations
         /\ o = <<>> <=> DOMAIN o = {}
BY LenProperties, ElementOfSeq, EmptySeq

\* Relabelling keeps the type and the order.
LEMMA RelabelledIsAlike ==
  ASSUME NEW o \in Seq(Obligations), NEW label \in {"older", "active"}, NEW anonymous \in BOOLEAN
  PROVE  /\ WithPhase(o, label) \in Seq(Obligations) /\ Alike(o, WithPhase(o, label))
         /\ WithAnonymous(o, anonymous) \in Seq(Obligations)
         /\ Alike(o, WithAnonymous(o, anonymous))
         /\ \A i \in DOMAIN o : /\ WithPhase(o, label)[i].phase = label
                                /\ WithPhase(o, label)[i].anonymous = o[i].anonymous
                                /\ WithAnonymous(o, anonymous)[i].anonymous = anonymous
                                /\ WithAnonymous(o, anonymous)[i].phase = o[i].phase
<1>1. Len(o) \in Nat /\ DOMAIN o = 1..Len(o) /\ \A i \in DOMAIN o : o[i] \in Obligations
  BY ObligationsProps
<1> DEFINE p == WithPhase(o, label)
           a == WithAnonymous(o, anonymous)
<1>2. /\ p = [i \in 1..Len(o) |-> [o[i] EXCEPT !.phase = label]]
      /\ a = [i \in 1..Len(o) |-> [o[i] EXCEPT !.anonymous = anonymous]]
  BY <1>1 DEF WithPhase, WithAnonymous
<1>3. \A i \in 1..Len(o) :
         /\ [o[i] EXCEPT !.phase = label] \in Obligations
         /\ [o[i] EXCEPT !.anonymous = anonymous] \in Obligations
         /\ [o[i] EXCEPT !.phase = label].phase = label
         /\ [o[i] EXCEPT !.phase = label].anonymous = o[i].anonymous
         /\ [o[i] EXCEPT !.phase = label].goalIds = o[i].goalIds
         /\ [o[i] EXCEPT !.anonymous = anonymous].anonymous = anonymous
         /\ [o[i] EXCEPT !.anonymous = anonymous].phase = o[i].phase
         /\ [o[i] EXCEPT !.anonymous = anonymous].goalIds = o[i].goalIds
  BY <1>1 DEF Obligations
<1>4. p \in Seq(Obligations) /\ a \in Seq(Obligations)
  <2>1. p \in [1..Len(o) -> Obligations] /\ a \in [1..Len(o) -> Obligations]
    BY <1>2, <1>3
  <2> HIDE DEF p, a
  <2> QED BY <1>1, <2>1, SeqDef
<1> QED BY <1>1, <1>2, <1>3, <1>4 DEF Alike

\* Settling keeps the obligations.
LEMMA SettleTyped ==
  ASSUME NEW g \in GuardStates, Phased("idle", g.agentEnds)
  PROVE  GuardTyped(Settle(g)) /\ Settle(g).agentEnds = g.agentEnds
<1>1. Null \in Nat \cup {Null} /\ <<>> \in Seq(Obligations)
  BY EmptySeq
<1>2. CASE HasPending(g)
  BY <1>1, <1>2 DEF Settle, Awaiting, Idle, GuardTyped, GuardStates, Kinds, HasPending, Phased
<1>3. CASE ~HasPending(g)
  BY <1>1, <1>3 DEF Settle, Idle, GuardTyped, GuardStates, Kinds, HasPending, Phased
<1> QED BY <1>2, <1>3

\* Queued work is noted, unless a turn is being aborted.
LEMMA WorkStartedTyped ==
  ASSUME NEW g, GuardTyped(g)
  PROVE  /\ LET s == RunnableWorkStarted(g)
            IN  /\ GuardTyped(s) /\ s.agentEnds = g.agentEnds /\ s.stale = g.stale
                /\ g.kind # "aborting" => s.kind = "observing" /\ s.runnable
         /\ \A id \in GoalIds :
              LET s == StaleWorkStarted(g, id)
              IN  /\ GuardTyped(s) /\ s.agentEnds = g.agentEnds
                  /\ g.kind # "aborting" => /\ s.kind = "observing" /\ s.stale = g.stale \cup {id}
                                            /\ s.runnable <=> g.runnable
<1>1. CASE g.kind = "aborting"
  BY <1>1 DEF RunnableWorkStarted, StaleWorkStarted
<1>2. CASE g.kind # "aborting"
  BY <1>2 DEF RunnableWorkStarted, StaleWorkStarted, Observe, GuardTyped, GuardStates, Kinds,
              HasPending, Phased
<1> QED BY <1>1, <1>2

\* An abort adds its obligation to the others; a context that is let through
\* closes them to agent_ends without work.
LEMMA ContextTyped ==
  ASSUME NEW g, GuardTyped(g), g.kind # "aborting", NEW t \in Nat, Null \notin Nat
  PROVE  LET r == ContextAbort(g, t)
             o == g.agentEnds
             s == r.state.agentEnds
         IN  /\ GuardTyped(r.state)
             /\ r.plan.aborts =>
                  /\ r.state.kind = "aborting" /\ r.state.activeTurn = t /\ r.state.stale = {}
                  /\ t \in r.state.turnEnds /\ ~g.runnable
                  /\ DOMAIN s = 1..(Len(o) + 1)
                  /\ \A i \in DOMAIN o : s[i].goalIds = o[i].goalIds
                  /\ s[Len(o) + 1].goalIds = g.stale
                  /\ \A i \in DOMAIN s : s[i].anonymous
             /\ ~r.plan.aborts =>
                  /\ Alike(o, s) /\ r.state.kind # "aborting" /\ r.state.stale \subseteq g.stale
                  /\ \A i \in DOMAIN s : s[i].anonymous => o[i].anonymous
                  /\ g.kind = "observing" => \A i \in DOMAIN s : ~s[i].anonymous
<1> DEFINE o == g.agentEnds
<1>0. /\ o \in Seq(Obligations) /\ Len(o) \in Nat /\ DOMAIN o = 1..Len(o)
      /\ o = <<>> <=> DOMAIN o = {}
  BY ObligationsProps DEF GuardTyped, GuardStates
<1>1. CASE StartsAbort(g)
  <2> DEFINE w == WithAnonymous(WithPhase(o, "older"), TRUE)
             new == [goalIds |-> g.stale, anonymous |-> TRUE, phase |-> "active"]
             s == Append(w, new)
             st == [Idle EXCEPT !.kind = "aborting", !.activeTurn = t,
                                !.turnEnds = NoteTurn(g.turnEnds, t), !.agentEnds = s]
  <2>1. /\ w \in Seq(Obligations) /\ DOMAIN w = 1..Len(o) /\ Len(w) = Len(o)
        /\ \A i \in 1..Len(o) : w[i].goalIds = o[i].goalIds /\ w[i].anonymous
                                /\ w[i].phase = "older"
    <3> DEFINE q == WithPhase(o, "older")
    <3>1. /\ q \in Seq(Obligations) /\ Alike(o, q)
          /\ \A i \in DOMAIN o : q[i].phase = "older"
      BY <1>0, RelabelledIsAlike
    <3> HIDE DEF q
    <3>2. /\ WithAnonymous(q, TRUE) \in Seq(Obligations) /\ Alike(q, WithAnonymous(q, TRUE))
          /\ \A i \in DOMAIN q : /\ WithAnonymous(q, TRUE)[i].anonymous
                                 /\ WithAnonymous(q, TRUE)[i].phase = q[i].phase
      BY <3>1, RelabelledIsAlike
    <3> HIDE DEF o
    <3>3. w = WithAnonymous(q, TRUE)
      BY DEF q
    <3>4. Len(w) \in Nat /\ DOMAIN w = 1..Len(w)
      BY <3>2, <3>3, LenProperties
    <3> HIDE DEF w
    <3>5. DOMAIN w = 1..Len(o)
      BY <1>0, <3>1, <3>2, <3>3 DEF Alike
    <3>6. Len(w) = Len(o)
      BY <3>4, <3>5, <1>0, SameRange
    <3> QED BY <1>0, <3>1, <3>2, <3>3, <3>5, <3>6 DEF Alike
  <2>2. new \in Obligations
    BY DEF Obligations, GuardTyped, GuardStates
  <2>3. /\ s \in Seq(Obligations) /\ Len(s) = Len(o) + 1 /\ DOMAIN s = 1..(Len(o) + 1)
        /\ s[Len(o) + 1] = new /\ \A i \in 1..Len(o) : s[i] = w[i]
    <3> HIDE DEF w, new, o
    <3>1. s \in Seq(Obligations) /\ Len(s) = Len(o) + 1
      BY <2>1, <2>2, AppendProperties
    <3>2. DOMAIN s = 1..(Len(o) + 1)
      BY <3>1, LenProperties
    <3> QED BY <2>1, <2>2, <3>1, <3>2, AppendProperties
  <2>4. ContextAbort(g, t) = Result(st, AbortPlan)
    BY <1>1 DEF ContextAbort
  <2>5. /\ new.goalIds = g.stale /\ new.anonymous /\ new.phase = "active"
    OBVIOUS
  <2>6. \A i \in 1..(Len(o) + 1) : i = Len(o) + 1 \/ i \in 1..Len(o)
    BY <1>0
  <2> HIDE DEF s, w, new, o
  <2>7. /\ st.kind = "aborting" /\ st.activeTurn = t /\ st.turnEnds = g.turnEnds \cup {t}
        /\ st.agentEnds = s /\ st.stale = {} /\ st.runnable = FALSE
        /\ st \in GuardStates
    <3>1. NoteTurn(g.turnEnds, t) = g.turnEnds \cup {t} /\ g.turnEnds \cup {t} \in SUBSET Nat
      BY DEF NoteTurn, GuardTyped, GuardStates
    <3> QED BY <3>1, <2>3 DEF Idle, GuardStates, Kinds
  <2>8. \A i \in DOMAIN s : /\ s[i].phase = IF i = Len(s) THEN "active" ELSE "older"
                            /\ s[i].anonymous
    BY <2>1, <2>3, <2>5, <2>6, <1>0
  <2>9. s # <<>>
    BY <2>3, <1>0, EmptySeq
  <2> HIDE DEF st
  <2>10. GuardTyped(st)
    BY <2>7, <2>8, <2>9 DEF GuardTyped, Phased, HasPending
  <2>11. /\ ContextAbort(g, t).state = st
         /\ ContextAbort(g, t).plan.aborts
    BY <2>4, <1>1 DEF Result, AbortPlan, Plan
  <2>12. ~g.runnable
    BY <1>1 DEF StartsAbort
  <2>13. /\ st.kind = "aborting" /\ st.activeTurn = t /\ st.stale = {} /\ t \in st.turnEnds
         /\ \A i \in DOMAIN o : s[i].goalIds = o[i].goalIds
         /\ s[Len(o) + 1].goalIds = g.stale
    BY <2>1, <2>3, <2>5, <2>7, <1>0
  <2> QED BY <2>3, <2>7, <2>8, <2>10, <2>11, <2>12, <2>13 DEF o
<1>2. CASE ~StartsAbort(g) /\ g.kind = "observing" /\ HasPending(g)
  <2> DEFINE w == WithAnonymous(o, FALSE)
             st == Awaiting(g.turnEnds, w)
  <2>1. /\ w \in Seq(Obligations) /\ Alike(o, w)
        /\ \A i \in DOMAIN o : ~w[i].anonymous /\ w[i].phase = o[i].phase
    BY <1>0, RelabelledIsAlike
  <2>2. ContextAbort(g, t) = Result(st, EmptyPlan)
    BY <1>2 DEF ContextAbort
  <2> HIDE DEF w, o
  <2>3. /\ st \in GuardStates /\ st.kind = "awaiting" /\ st.stale = {} /\ ~st.runnable
        /\ st.activeTurn = Null /\ st.agentEnds = w /\ st.turnEnds = g.turnEnds
    BY <2>1 DEF Awaiting, Idle, GuardStates, Kinds, GuardTyped
  <2>4. w = <<>> <=> o = <<>>
    BY <1>0, <2>1, ObligationsProps DEF Alike
  <2>5. \A i \in DOMAIN w : w[i].phase = "older"
    BY <2>1, <1>2 DEF Alike, GuardTyped, Phased, o
  <2> HIDE DEF st
  <2>6. GuardTyped(st)
    BY <1>2, <2>3, <2>4, <2>5 DEF GuardTyped, HasPending, Phased, o
  <2>7. ContextAbort(g, t).state = st /\ ~ContextAbort(g, t).plan.aborts
    BY <2>2 DEF Result, EmptyPlan, Plan
  <2> QED BY <2>1, <2>3, <2>6, <2>7 DEF Alike, o
<1>3. CASE ~StartsAbort(g) /\ ~(g.kind = "observing" /\ HasPending(g))
  <2>1. ContextAbort(g, t) = Result(g, EmptyPlan)
    BY <1>3 DEF ContextAbort
  <2>2. ContextAbort(g, t).state = g /\ ~ContextAbort(g, t).plan.aborts
    BY <2>1 DEF Result, EmptyPlan, Plan
  <2>3. g.kind = "observing" => DOMAIN o = {}
    BY <1>3, <1>0 DEF HasPending
  <2> QED BY <2>2, <2>3 DEF Alike
<1> QED BY <1>1, <1>2, <1>3

\* Releasing an abort makes the obligation an older one.
LEMMA ReleaseTyped ==
  ASSUME NEW g, GuardTyped(g)
  PROVE  \A s \in {ClearAbort(g).state, TurnStartEvent(g).state} :
           /\ GuardTyped(s) /\ s.kind # "aborting" /\ Alike(g.agentEnds, s.agentEnds)
           /\ \A i \in DOMAIN s.agentEnds :
                s.agentEnds[i].anonymous <=> g.agentEnds[i].anonymous
           /\ s.stale \subseteq g.stale
           /\ s = TurnStartEvent(g).state => s.stale = {} /\ s.kind # "observing"
<1> DEFINE o == g.agentEnds
           w == WithPhase(o, "older")
           h == [g EXCEPT !.agentEnds = WithPhase(@, "older")]
<1>1. /\ w \in Seq(Obligations) /\ Alike(o, w)
      /\ \A i \in DOMAIN o : w[i].phase = "older" /\ w[i].anonymous = o[i].anonymous
  BY RelabelledIsAlike DEF GuardTyped, GuardStates
<1>2. h \in GuardStates /\ h.agentEnds = w
  BY <1>1 DEF GuardTyped, GuardStates
<1>3. Phased("idle", w)
  BY <1>1 DEF Phased, Alike
<1>4. GuardTyped(Settle(h)) /\ Settle(h).agentEnds = w /\ Settle(h).kind \notin {"aborting", "observing"}
      /\ Settle(h).stale = {}
  <2> HIDE DEF h, w
  <2>1. Settle(h).kind \notin {"aborting", "observing"} /\ Settle(h).stale = {}
    BY DEF Settle, Awaiting, Idle
  <2> QED BY <1>2, <1>3, <2>1, SettleTyped
<1>5. g.kind # "aborting" =>
        /\ GuardTyped(Settle(g)) /\ Settle(g).agentEnds = o
        /\ Settle(g).kind \notin {"aborting", "observing"} /\ Settle(g).stale = {}
  <2>1. Settle(g).kind \notin {"aborting", "observing"} /\ Settle(g).stale = {}
    BY DEF Settle, Awaiting, Idle
  <2>2. g.kind # "aborting" => Phased("idle", g.agentEnds) /\ g \in GuardStates
    BY DEF GuardTyped, Phased
  <2> QED BY <2>1, <2>2, SettleTyped
<1>6. ClearAbort(g).state = IF g.kind # "aborting" THEN g ELSE Settle(h)
  BY DEF ClearAbort, Result
<1>7. TurnStartEvent(g).state =
        IF g.kind = "observing" THEN Settle(g) ELSE ClearAbort(g).state
  BY DEF TurnStartEvent, Result
<1>8. g.kind # "observing" => g.stale = {}
  BY DEF GuardTyped
<1> HIDE DEF h, w
<1> QED BY <1>1, <1>4, <1>5, <1>6, <1>7, <1>8 DEF Alike

\* A turn_end leaves the obligations alone.
LEMMA TurnEndTyped ==
  ASSUME NEW g, GuardTyped(g), NEW t
  PROVE  LET s == TurnEndEvent(g, t).state
         IN  /\ GuardTyped(s) /\ s.agentEnds = g.agentEnds
             /\ s.stale = g.stale /\ (s.runnable <=> g.runnable)
             /\ s.kind = "aborting" <=> g.kind = "aborting"
             /\ s.kind = "observing" <=> g.kind = "observing"
             /\ s.kind = "aborting" => s.activeTurn = g.activeTurn
             /\ s.turnEnds \subseteq g.turnEnds /\ g.turnEnds \ {t} \subseteq s.turnEnds
<1> DEFINE h == [g EXCEPT !.turnEnds = @ \ {t}]
<1>1. /\ h \in GuardStates /\ h.turnEnds = g.turnEnds \ {t} /\ h.kind = g.kind
      /\ h.agentEnds = g.agentEnds /\ h.stale = g.stale /\ h.runnable = g.runnable
      /\ h.activeTurn = g.activeTurn
  BY DEF GuardTyped, GuardStates
<1>2. g.kind \in {"observing", "aborting"} => GuardTyped(h)
  BY <1>1 DEF GuardTyped, HasPending, Phased
<1>3. g.kind = "awaiting" =>
        /\ GuardTyped(Settle(h)) /\ Settle(h).agentEnds = g.agentEnds
        /\ Settle(h).turnEnds = h.turnEnds /\ Settle(h).kind \notin {"aborting", "observing"}
        /\ Settle(h).stale = {} /\ g.stale = {} /\ ~Settle(h).runnable /\ ~g.runnable
  <2> SUFFICES ASSUME g.kind = "awaiting"
               PROVE  /\ GuardTyped(Settle(h)) /\ Settle(h).agentEnds = g.agentEnds
                      /\ Settle(h).turnEnds = h.turnEnds
                      /\ Settle(h).kind \notin {"aborting", "observing"}
                      /\ Settle(h).stale = {} /\ g.stale = {}
                      /\ ~Settle(h).runnable /\ ~g.runnable
    OBVIOUS
  <2>1. Phased("idle", h.agentEnds) /\ g.stale = {} /\ ~g.runnable
    BY <1>1 DEF GuardTyped, Phased
  <2> HIDE DEF h
  <2>2. /\ Settle(h).kind \notin {"aborting", "observing"}
        /\ Settle(h).stale = {} /\ ~Settle(h).runnable
    BY DEF Settle, Awaiting, Idle
  <2>3. GuardTyped(Settle(h)) /\ Settle(h).agentEnds = h.agentEnds
    BY <1>1, <2>1, SettleTyped
  <2>4. Settle(h).turnEnds = h.turnEnds
    BY SettleKeeps
  <2> QED BY <1>1, <2>1, <2>2, <2>3, <2>4
<1>4. CASE g.kind = "aborting" /\ t = g.activeTurn /\ t # Null
  <2>1. TurnEndEvent(g, t).state = h
    BY <1>4 DEF TurnEndEvent, Result
  <2> HIDE DEF h
  <2> QED BY <1>1, <1>2, <1>4, <2>1
<1>5. CASE ~(g.kind = "aborting" /\ t = g.activeTurn /\ t # Null) /\ t \in g.turnEnds
  <2>1. TurnEndEvent(g, t).state = IF h.kind = "awaiting" THEN Settle(h) ELSE h
    BY <1>5 DEF TurnEndEvent, Result, AfterTerminal
  <2>2. g.kind \in {"observing", "aborting", "awaiting"}
    BY <1>5 DEF GuardTyped, GuardStates, Kinds, HasPending
  <2> HIDE DEF h
  <2> QED BY <1>1, <1>2, <1>3, <2>1, <2>2
<1>6. CASE ~(g.kind = "aborting" /\ t = g.activeTurn /\ t # Null) /\ t \notin g.turnEnds
  BY <1>6 DEF TurnEndEvent, Result
<1> QED BY <1>4, <1>5, <1>6

-----------------------------------------------------------------------------
(***************************************************************************)
(* What an agent_end consumes, and what it leaves.                         *)
(***************************************************************************)
\* The positions of the obligations it consumes.
Taken(g, end) ==
    IF g.kind = "idle" THEN {}
    ELSE IF g.kind = "aborting" THEN AbortingConsumed(g, end)
    ELSE PendingConsumed(g.agentEnds, end)

LEMMA TakenAreThere ==
  ASSUME NEW g, NEW end
  PROVE  Taken(g, end) \subseteq DOMAIN g.agentEnds
BY DEF Taken, AbortingConsumed, PendingConsumed, ByGoalAt, AnonymousFirst, AnonymousAt, FirstOf

\* Taking nothing away from what is left changes nothing that matters.
LEMMA LeftOfLeft ==
  ASSUME NEW o \in Seq(Obligations), NEW P, NEW r, LeftOf(r, o, P, Len(o)),
         NEW s, LeftOf(s, r, {}, Len(r))
  PROVE  LeftOf(s, o, P, Len(o))
<1>1. r \in Seq(Obligations) /\ s \in Seq(Obligations)
  BY DEF LeftOf
<1>2. /\ Len(o) \in Nat /\ DOMAIN r = 1..Len(r) /\ Len(r) \in Nat
      /\ DOMAIN s = 1..Len(s) /\ Len(s) \in Nat
  BY <1>1, LenProperties
<1>3. PICK g : Leads(g, r, o, P, Len(o))
  BY DEF LeftOf
<1>4. PICK h : Leads(h, s, r, {}, Len(r))
  BY DEF LeftOf
<1> DEFINE f == [j \in DOMAIN s |-> g[h[j]]]
<1>5. \A j \in DOMAIN s : h[j] \in DOMAIN r /\ f[j] = g[h[j]]
  BY <1>2, <1>4 DEF Leads
<1>6. f \in [DOMAIN s -> (1..Len(o)) \ P]
  BY <1>3, <1>5 DEF Leads
<1>7. \A i, j \in DOMAIN s : i < j => f[i] < f[j]
  BY <1>3, <1>4, <1>5 DEF Leads
<1>8. \A i \in (1..Len(o)) \ P : \E j \in DOMAIN s : f[j] = i
  <2> SUFFICES ASSUME NEW i \in (1..Len(o)) \ P PROVE \E j \in DOMAIN s : f[j] = i
    OBVIOUS
  <2>1. PICK k \in DOMAIN r : g[k] = i
    BY <1>3 DEF Leads
  <2>2. PICK j \in DOMAIN s : h[j] = k
    BY <1>2, <1>4, <2>1 DEF Leads
  <2> QED BY <2>1, <2>2, <1>5
<1>9. \A j \in DOMAIN s : s[j] = o[f[j]]
  BY <1>3, <1>4, <1>5 DEF Leads
<1> HIDE DEF f
<1>10. Leads(f, s, o, P, Len(o))
  BY <1>6, <1>7, <1>8, <1>9 DEF Leads
<1> QED BY <1>1, <1>10 DEF LeftOf

\* The newest obligation is still the last, if it is left.
LEMMA LeftIsPhased ==
  ASSUME NEW o \in Seq(Obligations), NEW P, NEW r, LeftOf(r, o, P, Len(o))
  PROVE  /\ Phased("idle", o) => Phased("idle", r)
         /\ Phased("aborting", o) /\ Len(o) \notin P => Phased("aborting", r)
         /\ Phased("aborting", o) /\ Len(o) \in P => Phased("idle", r)
<1>1. /\ Len(o) \in Nat /\ DOMAIN o = 1..Len(o)
      /\ Len(r) \in Nat /\ DOMAIN r = 1..Len(r)
      /\ r = <<>> <=> DOMAIN r = {}
      /\ o = <<>> <=> DOMAIN o = {}
  BY ObligationsProps DEF LeftOf
<1>2. PICK g : Leads(g, r, o, P, Len(o))
  BY DEF LeftOf
<1>3. \A j \in DOMAIN r : r[j] = o[g[j]] /\ g[j] \in DOMAIN o /\ g[j] \notin P
  BY <1>1, <1>2 DEF Leads
<1>4. Phased("idle", o) => Phased("idle", r)
  BY <1>3 DEF Phased
<1>5. Phased("aborting", o) /\ Len(o) \in P => Phased("idle", r)
  BY <1>3 DEF Phased
<1>6. ASSUME Phased("aborting", o), Len(o) \notin P PROVE Phased("aborting", r)
  <2>1. Len(o) \in (1..Len(o)) \ P
    BY <1>1, <1>6 DEF Phased
  <2>2. PICK k \in DOMAIN r : g[k] = Len(o)
    BY <1>2, <2>1 DEF Leads
  <2>3. k = Len(r)
    <3>1. CASE k < Len(r)
      <4>1. Len(r) \in DOMAIN r
        BY <1>1, <2>2
      <4>2. g[k] < g[Len(r)] /\ g[Len(r)] \in 1..Len(o)
        BY <1>1, <1>2, <1>3, <3>1, <4>1 DEF Leads
      <4> QED BY <1>1, <2>2, <4>2
    <3> QED BY <1>1, <2>2, <3>1
  <2>4. ASSUME NEW j \in DOMAIN r
        PROVE  /\ r[j].phase = IF j = Len(r) THEN "active" ELSE "older"
               /\ r[j].anonymous
    <3>1. j # Len(r) => g[j] < g[k]
      BY <1>1, <1>2, <2>3 DEF Leads
    <3>2. j # Len(r) => g[j] # Len(o)
      BY <1>1, <1>3, <2>2, <3>1
    <3> QED BY <1>3, <1>6, <2>2, <2>3, <3>2 DEF Phased
  <2>5. r # <<>>
    BY <1>1, <2>2
  <2> QED BY <2>4, <2>5 DEF Phased
<1> QED BY <1>4, <1>5, <1>6

\* Its end is skipped exactly if it consumes an obligation, and those it does
\* not consume are left.
LEMMA AgentEndTyped ==
  ASSUME NEW g, GuardTyped(g), NEW end
  PROVE  LET r == AgentEndEvent(g, end)
         IN  /\ GuardTyped(r.state)
             /\ LeftOf(r.state.agentEnds, g.agentEnds, Taken(g, end), Len(g.agentEnds))
             /\ r.plan.skip <=> Taken(g, end) # {}
             /\ r.state.stale = g.stale /\ (r.state.runnable <=> g.runnable)
             /\ r.state.kind = "aborting" => /\ g.kind = "aborting"
                                             /\ r.state.activeTurn = g.activeTurn
             /\ r.state.kind = "observing" <=> g.kind = "observing"
<1> DEFINE o == g.agentEnds
           P == Taken(g, end)
           rest == Without(o, P)
           left == [g EXCEPT !.agentEnds = rest]
           taken == {o[i].phase : i \in P}
           r == AgentEndEvent(g, end)
<1>1. o \in Seq(Obligations) /\ P \subseteq DOMAIN o /\ LeftOf(rest, o, P, Len(o))
  BY TakenAreThere, WithoutLeaves DEF GuardTyped, GuardStates
<1>2. /\ left \in GuardStates /\ left.kind = g.kind /\ left.agentEnds = rest
      /\ left.stale = g.stale /\ left.runnable = g.runnable /\ left.activeTurn = g.activeTurn
      /\ left.turnEnds = g.turnEnds
  BY <1>1 DEF GuardTyped, GuardStates, LeftOf
<1>3. P = {} => LeftOf(o, o, P, Len(o))
  <2> SUFFICES ASSUME P = {} PROVE LeftOf(o, o, P, Len(o))
    OBVIOUS
  <2> DEFINE h == [j \in DOMAIN o |-> j]
  <2>1. DOMAIN o = 1..Len(o) /\ Len(o) \in Nat
    BY <1>1, LenProperties
  <2>2. Leads(h, o, o, {}, Len(o))
    BY <2>1 DEF Leads
  <2> HIDE DEF h
  <2> QED BY <1>1, <2>2 DEF LeftOf
<1> HIDE DEF rest
<1>4. CASE g.kind = "idle"
  <2>1. r = Result(g, EmptyPlan) /\ P = {}
    BY <1>4 DEF AgentEndEvent, Taken
  <2>2. r.state = g /\ ~r.plan.skip
    BY <2>1 DEF Result, EmptyPlan, Plan
  <2> HIDE DEF r, P
  <2> QED BY <1>3, <1>4, <2>1, <2>2 DEF r, P
<1>5. CASE g.kind \notin {"idle", "aborting"}
  <2>1. P = PendingConsumed(o, end)
    BY <1>5 DEF Taken
  <2>2. r = IF taken = {} THEN Result(g, EmptyPlan) ELSE Result(AfterTerminal(left), SkipPlan)
    BY <1>5, <2>1 DEF AgentEndEvent, Consume, rest
  <2>3. taken = {} <=> P = {}
    OBVIOUS
  <2>4. Phased("idle", o) /\ Phased("idle", rest)
    BY <1>1, <1>5, LeftIsPhased DEF GuardTyped, Phased
  <2> HIDE DEF r, P, taken, left
  <2>5. CASE P = {}
    <3>1. r.state = g /\ ~r.plan.skip
      BY <2>2, <2>3, <2>5 DEF Result, EmptyPlan, Plan
    <3> QED BY <1>3, <1>5, <2>5, <3>1 DEF r, P
  <2>6. CASE P # {}
    <3>1. r.state = AfterTerminal(left) /\ r.plan.skip
      BY <2>2, <2>3, <2>6 DEF Result, SkipPlan, Plan
    <3>2. CASE g.kind = "awaiting"
      <4>1. AfterTerminal(left) = Settle(left)
        BY <1>2, <3>2 DEF AfterTerminal
      <4>2. GuardTyped(Settle(left)) /\ Settle(left).agentEnds = rest
        BY <1>2, <2>4, SettleTyped
      <4>3. Settle(left).kind \notin {"aborting", "observing"} /\ Settle(left).stale = {}
           /\ ~Settle(left).runnable
        BY DEF Settle, Awaiting, Idle
      <4>4. g.stale = {} /\ ~g.runnable
        BY <3>2 DEF GuardTyped
      <4> QED BY <1>1, <2>6, <3>1, <3>2, <4>1, <4>2, <4>3, <4>4 DEF r, P
    <3>3. CASE g.kind # "awaiting"
      <4>1. AfterTerminal(left) = left
        BY <1>2, <3>3 DEF AfterTerminal
      <4>2. g.kind = "observing"
        BY <1>5, <3>3 DEF GuardTyped, GuardStates, Kinds
      <4>3. GuardTyped(left)
        BY <1>2, <2>4, <4>2 DEF GuardTyped, Phased
      <4> QED BY <1>1, <1>2, <2>6, <3>1, <4>1, <4>2, <4>3 DEF r, P
    <3> QED BY <3>2, <3>3
  <2> QED BY <2>5, <2>6
<1>6. CASE g.kind = "aborting"
  <2>1. P = AbortingConsumed(g, end)
    BY <1>6 DEF Taken
  <2>2. r = IF "active" \in taken THEN FinishAbort(left)
            ELSE IF "older" \in taken THEN Result(left, SkipPlan)
            ELSE IF InPhase(rest, "active") # {} THEN Result(left, EmptyPlan)
            ELSE FinishAbort(left)
    BY <1>2, <1>6, <2>1 DEF AgentEndEvent, Consume, rest
  <2>3. Phased("aborting", o) /\ DOMAIN o = 1..Len(o) /\ Len(o) \in Nat
    BY <1>1, <1>6, LenProperties DEF GuardTyped
  <2>4. "active" \in taken <=> Len(o) \in P
    BY <1>1, <2>3 DEF Phased
  <2>5. taken \subseteq {"active", "older"} /\ (taken = {} <=> P = {})
    BY <1>1, <2>3 DEF Phased
  <2> HIDE DEF r, P, taken, left
  <2>6. CASE Len(o) \in P
    <3> DEFINE cleared == Without(rest, InPhase(rest, "active"))
               h == [left EXCEPT !.agentEnds = Without(@, InPhase(@, "active"))]
    <3>1. Phased("idle", rest) /\ rest \in Seq(Obligations)
      BY <1>1, <2>3, <2>6, LeftIsPhased DEF LeftOf
    <3>2. InPhase(rest, "active") = {}
      BY <3>1 DEF Phased, InPhase
    <3>3. LeftOf(cleared, rest, {}, Len(rest))
      BY <3>1, <3>2, WithoutLeaves
    <3>4. LeftOf(cleared, o, P, Len(o)) /\ Phased("idle", cleared) /\ cleared \in Seq(Obligations)
      BY <1>1, <3>1, <3>3, LeftOfLeft, LeftIsPhased DEF LeftOf
    <3>5. h \in GuardStates /\ h.agentEnds = cleared
      BY <1>2, <3>4 DEF GuardStates
    <3>6. r = Result(Settle(h), SkipClearPlan)
      BY <2>2, <2>4, <2>6 DEF FinishAbort
    <3> HIDE DEF h, cleared
    <3>7. GuardTyped(Settle(h)) /\ Settle(h).agentEnds = cleared
      BY <3>4, <3>5, SettleTyped
    <3>8. Settle(h).kind \notin {"aborting", "observing"} /\ Settle(h).stale = {}
         /\ ~Settle(h).runnable
      BY DEF Settle, Awaiting, Idle
    <3>9. r.state = Settle(h) /\ r.plan.skip
      BY <3>6 DEF Result, SkipClearPlan, Plan
    <3>10. g.stale = {} /\ ~g.runnable
      BY <1>6 DEF GuardTyped
    <3> QED BY <1>6, <2>6, <3>4, <3>7, <3>8, <3>9, <3>10 DEF r, P
  <2>7. CASE Len(o) \notin P
    <3>1. Phased("aborting", rest)
      BY <1>1, <2>3, <2>7, LeftIsPhased
    <3>2. InPhase(rest, "active") # {}
      <4>1. DOMAIN rest = 1..Len(rest) /\ Len(rest) \in Nat /\ (rest = <<>> <=> DOMAIN rest = {})
        BY <1>1, ObligationsProps DEF LeftOf
      <4>2. Len(rest) \in DOMAIN rest
        BY <3>1, <4>1 DEF Phased
      <4> QED BY <3>1, <4>2 DEF Phased, InPhase
    <3>3. r = IF P # {} THEN Result(left, SkipPlan) ELSE Result(left, EmptyPlan)
      BY <2>2, <2>4, <2>5, <2>7, <3>2
    <3>4. r.state = left /\ (r.plan.skip <=> P # {})
      BY <3>3 DEF Result, SkipPlan, EmptyPlan, Plan
    <3>5. HasPending(left)
      BY <1>2, <3>1 DEF HasPending, Phased
    <3>6. GuardTyped(left)
      BY <1>2, <1>6, <3>1, <3>5 DEF GuardTyped
    <3> QED BY <1>1, <1>2, <1>6, <3>4, <3>6 DEF r, P
  <2> QED BY <2>6, <2>7
<1> QED BY <1>4, <1>5, <1>6

-----------------------------------------------------------------------------
(***************************************************************************)
(* What an agent_end consumes of the obligations of turns that are owed.   *)
(***************************************************************************)
LEMMA FirstExists ==
  ASSUME NEW S \in SUBSET Nat
  PROVE  /\ S # {} => FirstOf(S) # {}
         /\ FirstOf(S) \subseteq S
         /\ \A i \in FirstOf(S), j \in S : i <= j
BY LeastNat DEF FirstOf

\* The older ones first means in order.
LEMMA ByGoalInOrder ==
  ASSUME NEW o \in Seq(Obligations), NEW kind, Phased(kind, o), NEW ids
  PROVE  ByGoalAt(o, ids, "older") =
           {i \in DOMAIN o : \E id \in ids \cap o[i].goalIds :
              \A j \in DOMAIN o : id \in o[j].goalIds => i <= j}
<1>1. DOMAIN o = 1..Len(o) /\ Len(o) \in Nat
  BY LenProperties
<1>2. ASSUME NEW i \in DOMAIN o, NEW j \in DOMAIN o
      PROVE  (IF o[j].phase = o[i].phase THEN j < i ELSE o[j].phase = "older") <=> j < i
  <2>1. CASE kind # "aborting"
    BY <2>1 DEF Phased
  <2>2. CASE kind = "aborting"
    BY <1>1, <2>2 DEF Phased
  <2> QED BY <2>1, <2>2
<1>3. \A i, j \in DOMAIN o : ~(j < i) <=> i <= j
  BY <1>1
<1> QED BY <1>2, <1>3 DEF ByGoalAt

\* With work of goals that obligations at Q have it reaches no further than Q,
\* and it consumes something.
LEMMA ByGoalReaches ==
  ASSUME NEW o \in Seq(Obligations), NEW kind, Phased(kind, o),
         NEW Q \in SUBSET (DOMAIN o), NEW ids, ids \subseteq GoalIdsAt(o, Q)
  PROVE  LET P == ByGoalAt(o, ids, "older")
         IN  /\ \A i \in P : \E q \in Q : i <= q
             /\ ids # {} => P # {}
<1> DEFINE P == ByGoalAt(o, ids, "older")
<1>1. P = {i \in DOMAIN o : \E id \in ids \cap o[i].goalIds :
             \A j \in DOMAIN o : id \in o[j].goalIds => i <= j}
  BY ByGoalInOrder
<1> HIDE DEF P
<1>2. \A id \in ids : \E q \in Q : id \in o[q].goalIds
  BY DEF GoalIdsAt
<1>3. \A i \in P : \E q \in Q : i <= q
  BY <1>1, <1>2
<1>4. ASSUME NEW id \in ids PROVE P # {}
  <2> DEFINE S == {i \in DOMAIN o : id \in o[i].goalIds}
  <2>1. S # {} /\ S \in SUBSET Nat
    BY <1>2, LenProperties
  <2>2. PICK i \in S : \A j \in S : i <= j
    BY <2>1, LeastNat
  <2>3. i \in P
    BY <1>1, <2>2
  <2> QED BY <2>3
<1> QED BY <1>3, <1>4 DEF P

Closed(o) == \A i \in DOMAIN o : ~o[i].anonymous

\* The end of the oldest turns that are owed, whose obligations are at Q,
\* consumes something and reaches no further, unless it has no work and the
\* obligations are closed to such ends.
LEMMA ConsumesItsOwn ==
  ASSUME NEW g, GuardTyped(g), NEW end, end.terminal, g.kind = "aborting" => ~ActiveTurnEnded(g),
         NEW Q \in SUBSET (DOMAIN g.agentEnds), Q # {},
         end.goalIds \subseteq GoalIdsAt(g.agentEnds, Q),
         (\A i \in DOMAIN g.agentEnds : g.agentEnds[i].anonymous) \/ Closed(g.agentEnds)
  PROVE  /\ \A i \in Taken(g, end) : \E q \in Q : i <= q
         /\ Taken(g, end) = {} => end.goalIds = {} /\ Closed(g.agentEnds)
<1> DEFINE o == g.agentEnds
           ids == end.goalIds
<1>1. /\ o \in Seq(Obligations) /\ DOMAIN o = 1..Len(o) /\ Len(o) \in Nat
      /\ \A i \in DOMAIN o : o[i].goalIds \subseteq GoalIds
  BY ObligationsProps DEF GuardTyped, GuardStates, Obligations
<1>2. /\ Phased(g.kind, o) /\ g.kind # "idle"
      /\ \A i \in DOMAIN o : o[i].phase \in {"older", "active"}
  <2>1. o # <<>>
    BY <1>1, EmptySeq
  <2> QED BY <2>1, <1>1, ObligationsProps DEF GuardTyped, HasPending, Obligations
<1>3. ids \subseteq GoalIdsAt(o, DOMAIN o)
  BY DEF GoalIdsAt
<1>4. CASE g.kind # "aborting"
  <2>1. Taken(g, end) = PendingConsumed(o, end)
    BY <1>2, <1>4 DEF Taken
  <2>2. CASE ids # {}
    <3>1. Taken(g, end) = ByGoalAt(o, ids, "older")
      BY <2>1, <2>2, <1>1, <1>2, ByGoalReaches DEF PendingConsumed, IsAnonymous
    <3> HIDE DEF o, ids
    <3> QED BY <3>1, <2>2, <1>1, <1>2, ByGoalReaches DEF o, ids
  <2>3. CASE ids = {}
    <3>1. ByGoalAt(o, ids, "older") = {}
      BY <2>3 DEF ByGoalAt
    <3>2. Taken(g, end) = AnonymousFirst(o, "older", "active", FALSE)
      BY <2>1, <2>3, <3>1 DEF PendingConsumed, IsAnonymous
    <3>3. AnonymousAt(o, "older", FALSE) = {i \in DOMAIN o : o[i].anonymous}
      BY <1>2, <1>4 DEF AnonymousAt, Phased
    <3>4. AnonymousAt(o, "active", FALSE) = {}
      BY <1>2, <1>4 DEF AnonymousAt, Phased
    <3>5. CASE Closed(o)
      <4>1. Taken(g, end) = {}
        BY <3>2, <3>3, <3>4, <3>5 DEF AnonymousFirst, Closed, FirstOf
      <4> QED BY <2>3, <3>5, <4>1
    <3>6. CASE \A i \in DOMAIN o : o[i].anonymous
      <4>1. DOMAIN o # {}
        OBVIOUS
      <4>2. Taken(g, end) = FirstOf(DOMAIN o)
        BY <3>2, <3>3, <3>6, <4>1 DEF AnonymousFirst
      <4> QED BY <4>1, <4>2, <1>1, FirstExists
    <3> QED BY <3>5, <3>6
  <2> QED BY <2>2, <2>3
<1>5. CASE g.kind = "aborting"
  <2>1. Taken(g, end) = AbortingConsumed(g, end)
    BY <1>5 DEF Taken
  <2>2. CASE ids # {}
    <3>1. ids \cap GoalIdsAt(o, DOMAIN o) = ids
      BY <1>3
    <3>2. Taken(g, end) = ByGoalAt(o, ids, "older")
      BY <2>1, <2>2, <3>1, <1>5 DEF AbortingConsumed, IsAnonymous
    <3> HIDE DEF o, ids
    <3> QED BY <3>2, <2>2, <1>1, <1>2, ByGoalReaches DEF o, ids
  <2>3. CASE ids = {}
    <3> DEFINE old == AnonymousAt(o, "older", FALSE)
               new == AnonymousAt(o, "active", TRUE)
    <3>1. Taken(g, end) = AnonymousFirst(o, "older", "active", TRUE)
      BY <2>1, <2>3, <1>5 DEF AbortingConsumed, IsAnonymous
    <3>2. Taken(g, end) = FirstOf(IF old # {} THEN old ELSE new)
      BY <3>1 DEF AnonymousFirst
    <3>3. /\ old = {i \in DOMAIN o : i # Len(o)}
          /\ new = {i \in DOMAIN o : i = Len(o)}
      BY <1>2, <1>5 DEF AnonymousAt, Phased
    <3>4. DOMAIN o # {} /\ Len(o) \in DOMAIN o
      BY <1>1
    <3> HIDE DEF old, new
    <3>5. CASE old # {}
      <4>1. Taken(g, end) = FirstOf(old)
        BY <3>2, <3>5
      <4>2. old \in SUBSET Nat
        BY <3>3, <1>1
      <4>3. \A i \in FirstOf(old), q \in Q : i <= q
        BY <3>3, <4>2, <1>1, FirstExists
      <4> QED BY <3>5, <4>1, <4>2, <4>3, FirstExists
    <3>6. CASE old = {}
      <4>1. Taken(g, end) = FirstOf(new) /\ new \in SUBSET Nat /\ new # {}
        BY <3>2, <3>3, <3>4, <3>6, <1>1
      <4>2. \A i \in FirstOf(new), q \in Q : i <= q
        BY <3>3, <3>6, <4>1, <1>1, FirstExists
      <4> QED BY <4>1, <4>2, FirstExists
    <3> QED BY <3>5, <3>6
  <2> QED BY <2>2, <2>3
<1> QED BY <1>4, <1>5

\* When the turn_end of the turn being aborted has come, its agent_end may be
\* taken for the one of this turn, but it is still consumed.
LEMMA ConsumesSomething ==
  ASSUME NEW g, GuardTyped(g), NEW end, end.terminal, g.kind = "aborting", ActiveTurnEnded(g),
         end.goalIds \subseteq GoalIdsAt(g.agentEnds, DOMAIN g.agentEnds)
  PROVE  Taken(g, end) # {}
<1> DEFINE o == g.agentEnds
           ids == end.goalIds
           active == InPhase(o, "active")
<1>1. o \in Seq(Obligations) /\ DOMAIN o = 1..Len(o) /\ Len(o) \in Nat /\ (o = <<>> <=> DOMAIN o = {})
  BY ObligationsProps DEF GuardTyped, GuardStates
<1>2. Phased("aborting", o)
  BY DEF GuardTyped
<1>3. Len(o) \in DOMAIN o /\ active = {Len(o)} /\ o[Len(o)].anonymous
  <2>1. Len(o) \in DOMAIN o
    BY <1>1, <1>2 DEF Phased
  <2> QED BY <2>1, <1>2 DEF Phased, InPhase
<1>4. Taken(g, end) = AbortingConsumed(g, end)
  BY DEF Taken
<1>5. CASE ids = {}
  <2>1. Taken(g, end) = AnonymousFirst(o, "active", "older", TRUE)
    BY <1>3, <1>4, <1>5 DEF AbortingConsumed, IsAnonymous
  <2>2. AnonymousAt(o, "active", FALSE) = {Len(o)}
    BY <1>3 DEF AnonymousAt, InPhase
  <2>3. FirstOf({Len(o)}) # {}
    BY <1>1 DEF FirstOf
  <2> QED BY <2>1, <2>2, <2>3 DEF AnonymousFirst
<1>6. CASE ids # {}
  <2> DEFINE first == ids \subseteq GoalIdsAt(o, active)
  <2>1. Taken(g, end) = ByGoalAt(o, ids, IF first THEN "active" ELSE "older")
    <3>1. ids \cap GoalIdsAt(o, DOMAIN o) = ids
      OBVIOUS
    <3> QED BY <3>1, <1>4, <1>6 DEF AbortingConsumed, IsAnonymous
  <2>2. CASE first
    <3>1. PICK id \in ids : id \in o[Len(o)].goalIds
      BY <1>3, <1>6, <2>2 DEF GoalIdsAt
    <3>2. \A j \in DOMAIN o :
            ~(IF o[j].phase = o[Len(o)].phase THEN j < Len(o) ELSE o[j].phase = "active")
      BY <1>1, <1>2, <1>3 DEF Phased
    <3>3. Len(o) \in ByGoalAt(o, ids, "active")
      BY <1>3, <3>1, <3>2 DEF ByGoalAt
    <3> QED BY <2>1, <2>2, <3>3
  <2>3. CASE ~first
    <3> HIDE DEF o, ids
    <3>1. ByGoalAt(o, ids, "older") # {}
      BY <1>1, <1>2, <1>6, ByGoalReaches DEF o, ids
    <3> QED BY <2>1, <2>3, <3>1
  <2> QED BY <2>2, <2>3
<1> QED BY <1>5, <1>6

\* The end of a turn that ran finds nothing to consume once the obligations
\* are closed, if they are of other goals.
LEMMA ConsumesNothing ==
  ASSUME NEW g, GuardTyped(g), g.kind # "aborting", Closed(g.agentEnds), NEW end,
         end.goalIds \cap GoalIdsAt(g.agentEnds, DOMAIN g.agentEnds) = {}
  PROVE  Taken(g, end) = {}
<1> DEFINE o == g.agentEnds
<1>1. ByGoalAt(o, end.goalIds, "older") = {}
  BY DEF ByGoalAt, GoalIdsAt
<1>2. AnonymousAt(o, "older", FALSE) = {} /\ AnonymousAt(o, "active", FALSE) = {}
  BY DEF AnonymousAt, Closed
<1>3. AnonymousFirst(o, "older", "active", FALSE) = {}
  BY <1>2 DEF AnonymousFirst, FirstOf
<1> QED BY <1>1, <1>3 DEF Taken, PendingConsumed

-----------------------------------------------------------------------------
(***************************************************************************)
(* Where the obligations of the turns that are owed are.                   *)
(***************************************************************************)
Turns(owed) == UNION {o.turns : o \in owed}

\* Every owed turn has an obligation of its own, in the order of the turns,
\* and those of the turns of one agent_end have the ids it may carry.
Placed(f, owed, obligations) ==
    /\ f \in [Turns(owed) -> DOMAIN obligations]
    /\ \A t, u \in Turns(owed) : t < u => f[t] < f[u]
    /\ \A o \in owed : \A id \in o.goalIds : \E t \in o.turns : id \in obligations[f[t]].goalIds

Payable(owed, obligations) == \E f : Placed(f, owed, obligations)

\* Fewer debts are payable with the same obligations, whatever overtook them.
LEMMA FewerArePlaced ==
  ASSUME NEW f, NEW owed, NEW o, Placed(f, owed, o), NEW fewer,
         \A d \in fewer : \E e \in owed : d.turns = e.turns /\ d.goalIds = e.goalIds
  PROVE  Placed([t \in Turns(fewer) |-> f[t]], fewer, o)
<1> DEFINE h == [t \in Turns(fewer) |-> f[t]]
<1>1. \A d \in fewer : \A t \in d.turns : t \in Turns(fewer) /\ t \in Turns(owed)
  BY DEF Turns
<1>2. \A t \in Turns(fewer) : t \in Turns(owed) /\ h[t] = f[t]
  BY DEF Turns
<1>3. h \in [Turns(fewer) -> DOMAIN o]
  BY <1>2 DEF Placed
<1>4. \A t, u \in Turns(fewer) : t < u => h[t] < h[u]
  BY <1>2 DEF Placed
<1>5. \A d \in fewer : \A id \in d.goalIds : \E t \in d.turns : id \in o[h[t]].goalIds
  BY <1>1, <1>2 DEF Placed
<1> HIDE DEF h
<1>6. Placed(h, fewer, o)
  BY <1>3, <1>4, <1>5 DEF Placed
<1> QED BY <1>6 DEF h

LEMMA FewerArePayable ==
  ASSUME NEW owed, NEW o, Payable(owed, o), NEW fewer,
         \A d \in fewer : \E e \in owed : d.turns = e.turns /\ d.goalIds = e.goalIds
  PROVE  Payable(fewer, o)
<1>1. PICK f : Placed(f, owed, o)
  BY DEF Payable
<1>2. Placed([t \in Turns(fewer) |-> f[t]], fewer, o)
  BY <1>1, FewerArePlaced
<1> QED BY <1>2 DEF Payable

\* Nothing is owed: nothing has to be placed.
LEMMA NothingIsPayable ==
  ASSUME NEW o
  PROVE  Payable({}, o)
<1> DEFINE f == [t \in {} |-> 0]
<1>1. Turns({}) = {}
  BY DEF Turns
<1>2. Placed(f, {}, o)
  BY <1>1 DEF Placed
<1> HIDE DEF f
<1> QED BY <1>2 DEF Payable

\* Relabelled obligations pay the same debts.
LEMMA AlikeArePayable ==
  ASSUME NEW owed, NEW o, Payable(owed, o), NEW r, Alike(o, r)
  PROVE  Payable(owed, r)
<1>1. PICK f : Placed(f, owed, o)
  BY DEF Payable
<1>2. \A t \in Turns(owed) : f[t] \in DOMAIN o
  BY <1>1 DEF Placed
<1>3. \A d \in owed : \A t \in d.turns : t \in Turns(owed)
  BY DEF Turns
<1>4. Placed(f, owed, r)
  BY <1>1, <1>2, <1>3 DEF Placed, Alike
<1> QED BY <1>4 DEF Payable

\* Two debts in one are payable if both were.
LEMMA CombinedArePayable ==
  ASSUME NEW owed, NEW o, Payable(owed, o), NEW a \in owed, NEW b \in owed, NEW overtaken
  PROVE  Payable((owed \ {a, b}) \cup {Owed(a.turns \cup b.turns, a.goalIds \cup b.goalIds, overtaken)}, o)
<1> DEFINE both == Owed(a.turns \cup b.turns, a.goalIds \cup b.goalIds, overtaken)
           next == (owed \ {a, b}) \cup {both}
<1>1. PICK f : Placed(f, owed, o)
  BY DEF Payable
<1>2. both.turns = a.turns \cup b.turns /\ both.goalIds = a.goalIds \cup b.goalIds
  BY DEF Owed
<1> HIDE DEF both
<1>3. Turns(next) = Turns(owed)
  <2>1. \A t : t \in Turns(next) <=> \E d \in next : t \in d.turns
    BY DEF Turns
  <2>2. \A t : t \in Turns(owed) <=> \E d \in owed : t \in d.turns
    BY DEF Turns
  <2> QED BY <1>2, <2>1, <2>2
<1>4. \A d \in next : \A id \in d.goalIds : \E t \in d.turns : id \in o[f[t]].goalIds
  BY <1>1, <1>2 DEF Placed
<1> HIDE DEF next
<1>5. Placed(f, next, o)
  BY <1>1, <1>3, <1>4 DEF Placed
<1> QED BY <1>5 DEF Payable, next, both

\* Debts whose obligations are left remain payable.
LEMMA LeftArePayable ==
  ASSUME NEW owed, NEW o \in Seq(Obligations), NEW f, Placed(f, owed, o),
         NEW P, NEW r, LeftOf(r, o, P, Len(o)), \A t \in Turns(owed) : f[t] \notin P
  PROVE  Payable(owed, r)
<1>1. PICK g : Leads(g, r, o, P, Len(o))
  BY DEF LeftOf
<1>2. /\ DOMAIN o = 1..Len(o) /\ Len(o) \in Nat
      /\ DOMAIN r = 1..Len(r) /\ Len(r) \in Nat
  BY LenProperties DEF LeftOf
<1> DEFINE h == [t \in Turns(owed) |-> CHOOSE j \in DOMAIN r : g[j] = f[t]]
<1>3. ASSUME NEW t \in Turns(owed) PROVE h[t] \in DOMAIN r /\ g[h[t]] = f[t]
  <2>1. f[t] \in (1..Len(o)) \ P
    BY <1>2 DEF Placed
  <2>2. \E j \in DOMAIN r : g[j] = f[t]
    BY <1>1, <2>1 DEF Leads
  <2> QED BY <2>2
<1>4. h \in [Turns(owed) -> DOMAIN r]
  <2>1. h = [t \in Turns(owed) |-> h[t]]
    OBVIOUS
  <2> HIDE DEF h
  <2> QED BY <1>3, <2>1
<1> HIDE DEF h
<1>5. ASSUME NEW t \in Turns(owed), NEW u \in Turns(owed), t < u PROVE h[t] < h[u]
  <2>1. g[h[t]] < g[h[u]] /\ h[t] \in 1..Len(r) /\ h[u] \in 1..Len(r)
    BY <1>2, <1>3, <1>5 DEF Placed
  <2>2. g[h[t]] \in 1..Len(o) /\ g[h[u]] \in 1..Len(o)
    BY <1>1, <1>2, <2>1 DEF Leads
  <2>3. h[u] < h[t] => g[h[u]] < g[h[t]]
    BY <1>1, <1>2, <2>1 DEF Leads
  <2> QED BY <1>2, <2>1, <2>2, <2>3
<1>6. \A d \in owed : \A id \in d.goalIds : \E t \in d.turns : id \in r[h[t]].goalIds
  <2>1. \A d \in owed : \A t \in d.turns : t \in Turns(owed)
    BY DEF Turns
  <2>2. \A t \in Turns(owed) : r[h[t]] = o[f[t]]
    BY <1>1, <1>3 DEF Leads
  <2> QED BY <2>1, <2>2 DEF Placed
<1>7. Placed(h, owed, r)
  BY <1>4, <1>5, <1>6 DEF Placed
<1> QED BY <1>7 DEF Payable

\* A new debt is payable with a new obligation that has its ids.
LEMMA OneMoreIsPayable ==
  ASSUME NEW owed, NEW o \in Seq(Obligations), Payable(owed, o),
         NEW s, DOMAIN s = 1..(Len(o) + 1),
         \A i \in DOMAIN o : s[i].goalIds = o[i].goalIds,
         NEW t \in Nat, \A u \in Turns(owed) : u \in Nat /\ u < t,
         NEW ids, ids \subseteq s[Len(o) + 1].goalIds
  PROVE  Payable(owed \cup {Owed({t}, ids, FALSE)}, s)
<1> DEFINE new == Owed({t}, ids, FALSE)
           more == owed \cup {new}
<1>1. PICK f : Placed(f, owed, o)
  BY DEF Payable
<1>2. new.turns = {t} /\ new.goalIds = ids
  BY DEF Owed
<1>3. DOMAIN o = 1..Len(o) /\ Len(o) \in Nat
  BY LenProperties
<1> HIDE DEF new
<1>4. Turns(more) = Turns(owed) \cup {t}
  <2>1. \A u : u \in Turns(more) <=> \E d \in more : u \in d.turns
    BY DEF Turns
  <2>2. \A u : u \in Turns(owed) <=> \E d \in owed : u \in d.turns
    BY DEF Turns
  <2> QED BY <1>2, <2>1, <2>2
<1>5. t \notin Turns(owed)
  OBVIOUS
<1> DEFINE h == [u \in Turns(more) |-> IF u = t THEN Len(o) + 1 ELSE f[u]]
<1>6. /\ h[t] = Len(o) + 1
      /\ \A u \in Turns(owed) : h[u] = f[u] /\ f[u] \in 1..Len(o)
  BY <1>1, <1>3, <1>4, <1>5 DEF Placed
<1>7. h \in [Turns(more) -> DOMAIN s]
  <2>1. h = [u \in Turns(more) |-> h[u]]
    OBVIOUS
  <2> HIDE DEF h, more
  <2>2. \A u \in Turns(more) : h[u] \in DOMAIN s
    BY <1>3, <1>4, <1>6
  <2> QED BY <2>1, <2>2
<1> HIDE DEF h
<1>8. ASSUME NEW u \in Turns(more), NEW v \in Turns(more), u < v PROVE h[u] < h[v]
  <2> HIDE DEF more
  <2>1. u \in Turns(owed)
    <3>1. u = t => v \in Turns(owed)
      BY <1>4, <1>8
    <3>2. v \in Turns(owed) => u # t
      BY <1>8
    <3> QED BY <1>4, <3>1, <3>2
  <2>2. CASE v = t
    BY <1>3, <1>6, <2>1, <2>2
  <2>3. CASE v # t
    BY <1>1, <1>4, <1>6, <1>8, <2>1, <2>3 DEF Placed
  <2> QED BY <2>2, <2>3
<1>9. ASSUME NEW d \in more, NEW id \in d.goalIds
      PROVE  \E u \in d.turns : id \in s[h[u]].goalIds
  <2>1. CASE d = new
    BY <1>2, <1>6, <1>9, <2>1
  <2>2. CASE d # new
    <3>1. d \in owed /\ \A u \in d.turns : u \in Turns(owed)
      BY <2>2 DEF Turns
    <3>2. PICK u \in d.turns : id \in o[f[u]].goalIds
      BY <1>1, <1>9, <3>1 DEF Placed
    <3> QED BY <1>3, <1>6, <3>1, <3>2
  <2> QED BY <2>1, <2>2
<1>10. Placed(h, more, s)
  BY <1>7, <1>8, <1>9 DEF Placed
<1> QED BY <1>10 DEF Payable, new

-----------------------------------------------------------------------------
(***************************************************************************)
(* The invariant of agent_ends.                                            *)
(***************************************************************************)
\* Of two owed ends all turns of one come before those of the other, and a
\* turn that runs is after all of them.
DebtsInOrder ==
    /\ \A o \in owedAgentEnds :
         /\ o.turns # {}
         /\ \A t \in o.turns : t \in 0..turn /\ turn \in Nat /\ (phase # "idle" => t < turn)
    /\ \A o, p \in owedAgentEnds : o = p \/ Before(o, p) \/ Before(p, o)

\* The obligations are all open to ends without work, or all closed and then
\* whatever is owed was overtaken; they are closed once newer work is in.
OpenOrOvertaken ==
    /\ \/ \A i \in DOMAIN guard.agentEnds : guard.agentEnds[i].anonymous
       \/ Closed(guard.agentEnds) /\ \A o \in owedAgentEnds : o.overtaken
    /\ phase \in {"model", "ended"} \/ (phase = "turn" /\ guard.kind # "observing")
         => Closed(guard.agentEnds)

\* Where work that a run carries has gone, or is noted.
WorkIsNoted ==
    /\ guard.stale \subseteq carried
    /\ \A i \in DOMAIN guard.agentEnds : guard.agentEnds[i].goalIds \subseteq stopped
    /\ phase \in {"model", "ended"} => carried \subseteq ran
    /\ phase \in {"start", "turn"} /\ ~guard.runnable => carried \subseteq ran \cup guard.stale

\* When the end of the turn being aborted has come, no older turn is owed.
NewestIsLast ==
    guard.kind = "aborting" =>
      /\ guard.activeTurn = turn
      /\ turn \notin guard.turnEnds => \A o \in owedAgentEnds : turn \in o.turns

AgentEndInv ==
    /\ GuardTyped(guard)
    /\ DebtsInOrder
    /\ OpenOrOvertaken
    /\ WorkIsNoted
    /\ NewestIsLast
    /\ NoGoalOnBothSides => Payable(owedAgentEnds, guard.agentEnds)
    /\ AgentEndsToldApart

DebtInv == TypeOK /\ AgentEndInv

-----------------------------------------------------------------------------
(***************************************************************************)
(* Types.                                                                  *)
(***************************************************************************)
LEMMA HandleTyped ==
  ASSUME TypeOK, NEW r, NEW e \in Endings, NEW aborted \in BOOLEAN, Handle(r, e, aborted)
  PROVE  /\ goal' \in [id : GoalIds \cup {Null}, active : BOOLEAN]
         /\ owner' \in {goal'.id, Null}
         /\ handled' \cup swallowed' \subseteq Endings
<1>1. CASE r.plan.skip
  BY <1>1 DEF Handle, KeepOrClear, TypeOK
<1>2. CASE ~r.plan.skip
  BY <1>2 DEF Handle, Owned, ActiveId, TypeOK
<1> QED BY <1>1, <1>2

LEMMA TypeStep ==
  ASSUME TypeOK, IInv, GuardTyped(guard'), [Next]_vars
  PROVE  TypeOK'
<1> USE TurnAssumption
<1>1. /\ guard' \in GuardStates
      /\ guard'.kind # "observing" => guard'.stale = {} /\ ~guard'.runnable
      /\ guard'.kind # "aborting" =>
            guard'.activeTurn = Null /\ InPhase(guard'.agentEnds, "active") = {}
      /\ guard'.kind = "idle" => ~HasPending(guard')
      /\ guard'.kind \in {"aborting", "awaiting"} => HasPending(guard')
  BY DEF GuardTyped, Phased, InPhase
<1> DEFINE GoalOK == goal \in [id : GoalIds \cup {Null}, active : BOOLEAN] /\ owner \in {goal.id, Null}
           TurnOK == /\ turn \in 0..(MaxTurns - 1) \cup {Null}
                     /\ phase \in {"idle", "start", "turn", "model", "ended"}
           WorkOK == {carried, known, ran, stopped} \subseteq SUBSET GoalIds
           OwedOK == /\ owedTurnEnds \subseteq 0..(MaxTurns - 1)
                     /\ owedAgentEnds \subseteq
                          [turns : SUBSET (0..(MaxTurns - 1)), goalIds : SUBSET GoalIds,
                           overtaken : BOOLEAN]
           DoneOK == handled \cup swallowed \subseteq Endings
<1> SUFFICES (GoalOK /\ TurnOK /\ WorkOK /\ OwedOK /\ DoneOK)'
  BY <1>1 DEF TypeOK
<1>2. GoalOK /\ TurnOK /\ WorkOK /\ OwedOK /\ DoneOK
  BY DEF TypeOK
<1>3. CASE UNCHANGED vars
  BY <1>2, <1>3 DEF vars, host, outcome
<1>4. ASSUME NEW id \in GoalIds, StartOrReplace(id) PROVE (GoalOK /\ TurnOK /\ WorkOK /\ OwedOK /\ DoneOK)'
  BY <1>2, <1>4 DEF StartOrReplace, outcome
<1>5. CASE StopGoal \/ ResumeGoal
  <2>1. \/ goal' = [goal EXCEPT !.active = FALSE]
        \/ goal' = [goal EXCEPT !.active = TRUE]
    BY <1>5 DEF StopGoal, ResumeGoal
  <2>2. goal' \in [id : GoalIds \cup {Null}, active : BOOLEAN] /\ goal'.id = goal.id
    BY <1>2, <2>1
  <2>3. owner' \in {owner, Null} /\ UNCHANGED <<host, outcome>>
    BY <1>5 DEF StopGoal, ResumeGoal
  <2> QED BY <1>2, <2>2, <2>3 DEF host, outcome
<1>6. CASE ReleasesAbort
  BY <1>2, <1>6 DEF ReleasesAbort, KeepOrClear, host, outcome
<1>7. CASE TurnStart
  BY <1>2, <1>7 DEF TurnStart, Owned, ActiveId, outcome
<1>8. ASSUME NEW id \in GoalIds \cup {Null}, MessageStart(id)
      PROVE (GoalOK /\ TurnOK /\ WorkOK /\ OwedOK /\ DoneOK)'
  BY <1>2, <1>8 DEF MessageStart, outcome
<1>9. CASE Context
  <2> DEFINE r == ContextAbort(guard, turn)
  <2>1. /\ phase = "turn" /\ phase' = IF r.plan.aborts THEN "idle" ELSE "model"
        /\ owner' \in {owner, Null}
        /\ ran' \in {ran, ran \cup carried} /\ stopped' \in {stopped, stopped \cup carried}
        /\ owedTurnEnds' \in {owedTurnEnds, owedTurnEnds \cup {turn}}
        /\ \/ owedAgentEnds' = owedAgentEnds \cup {Owed({turn}, carried, FALSE)}
           \/ owedAgentEnds' = {Owed(o.turns, o.goalIds, TRUE) : o \in owedAgentEnds}
        /\ UNCHANGED <<goal, turn, carried, known, handled, swallowed>>
    BY <1>9 DEF Context, KeepOrClear, outcome
  <2>2. turn \in 0..(MaxTurns - 1)
    BY <1>9, <1>2 DEF Context, IInv
  <2> HIDE DEF r
  <2>3. (GoalOK /\ TurnOK /\ WorkOK /\ DoneOK)'
    BY <1>2, <2>1
  <2>4. OwedOK'
    <3> DEFINE Debts == [turns : SUBSET (0..(MaxTurns - 1)), goalIds : SUBSET GoalIds,
                         overtaken : BOOLEAN]
    <3>1. Owed({turn}, carried, FALSE) \in Debts
      BY <1>2, <2>2 DEF Owed
    <3>2. \A o \in owedAgentEnds : Owed(o.turns, o.goalIds, TRUE) \in Debts
      BY <1>2 DEF Owed
    <3>3. owedAgentEnds' \subseteq Debts
      <4>1. owedAgentEnds \subseteq Debts
        BY <1>2
      <4> HIDE DEF Debts
      <4>2. CASE owedAgentEnds' = owedAgentEnds \cup {Owed({turn}, carried, FALSE)}
        BY <3>1, <4>1, <4>2
      <4>3. CASE owedAgentEnds' = {Owed(o.turns, o.goalIds, TRUE) : o \in owedAgentEnds}
        BY <3>2, <4>3, Zenon
      <4> QED BY <2>1, <4>2, <4>3
    <3> QED BY <1>2, <2>1, <2>2, <3>3
  <2> QED BY <2>3, <2>4
<1>10. CASE MidTurn
  BY <1>2, <1>10 DEF MidTurn, KeepOrClear, Owned, ActiveId, host, outcome
<1>11. ASSUME NEW aborted \in BOOLEAN, TurnEnd(aborted)
       PROVE (GoalOK /\ TurnOK /\ WorkOK /\ OwedOK /\ DoneOK)'
  <2> DEFINE e == Event("turn_end", FALSE, {}, FALSE)
  <2>1. e \in Endings
    BY DEF Event, Endings
  <2> HIDE DEF e
  <2>2. (GoalOK /\ DoneOK)'
    BY <1>11, <2>1, HandleTyped DEF TurnEnd, e
  <2> QED BY <1>2, <1>11, <2>2 DEF TurnEnd
<1>12. ASSUME NEW aborted \in BOOLEAN, NEW withGoalWork \in BOOLEAN, AgentEnd(aborted, withGoalWork)
       PROVE (GoalOK /\ TurnOK /\ WorkOK /\ OwedOK /\ DoneOK)'
  <2> DEFINE ids == Carries(carried, withGoalWork)
             r == AgentEndEvent(guard, [goalIds |-> ids, terminal |-> TRUE])
             e == Event("agent_end", FALSE, ids, FALSE)
  <2>1. e \in Endings
    BY <1>2 DEF Event, Endings, Carries
  <2>2. Handle(r, e, aborted)
    BY <1>12 DEF AgentEnd
  <2>3. UNCHANGED <<turn, carried, known, ran, stopped, owedTurnEnds, owedAgentEnds>> /\ phase' = "idle"
    BY <1>12 DEF AgentEnd
  <2> HIDE DEF e, r
  <2>4. (GoalOK /\ DoneOK)'
    BY <2>1, <2>2, HandleTyped
  <2> QED BY <1>2, <2>3, <2>4
<1>13. ASSUME NEW t \in owedTurnEnds, LateTurnEnd(t)
       PROVE (GoalOK /\ TurnOK /\ WorkOK /\ OwedOK /\ DoneOK)'
  <2> DEFINE e == Event("turn_end", TRUE, {}, FALSE)
  <2>1. e \in Endings
    BY DEF Event, Endings
  <2>2. Handle(TurnEndEvent(guard, t), e, TRUE)
    BY <1>13 DEF LateTurnEnd
  <2> HIDE DEF e
  <2>3. (GoalOK /\ DoneOK)'
    BY <2>1, <2>2, HandleTyped
  <2> QED BY <1>2, <1>13, <2>3 DEF LateTurnEnd
<1>14. ASSUME NEW owed \in owedAgentEnds, NEW withGoalWork \in BOOLEAN,
              LateAgentEnd(owed, withGoalWork)
       PROVE (GoalOK /\ TurnOK /\ WorkOK /\ OwedOK /\ DoneOK)'
  <2> DEFINE ids == Carries(owed.goalIds, withGoalWork)
             r == AgentEndEvent(guard, [goalIds |-> ids, terminal |-> TRUE])
             e == Event("agent_end", TRUE, ids, owed.overtaken)
  <2>1. e \in Endings
    <3>1. owed.goalIds \in SUBSET GoalIds /\ owed.overtaken \in BOOLEAN
      BY <1>2
    <3> QED BY <3>1 DEF Event, Endings, Carries
  <2>2. Handle(r, e, TRUE)
    BY <1>14 DEF LateAgentEnd
  <2>3. /\ UNCHANGED <<turn, phase, carried, known, ran, stopped, owedTurnEnds>>
        /\ owedAgentEnds' \subseteq owedAgentEnds
    BY <1>14 DEF LateAgentEnd
  <2> HIDE DEF e, r
  <2>4. (GoalOK /\ DoneOK)'
    BY <2>1, <2>2, HandleTyped
  <2> QED BY <1>2, <2>3, <2>4
<1>15. CASE \/ \E t \in owedTurnEnds : LoseTurnEnd(t)
            \/ \E owed \in owedAgentEnds : LoseAgentEnd(owed)
  BY <1>2, <1>15 DEF LoseTurnEnd, LoseAgentEnd, outcome
<1>16. ASSUME NEW a \in owedAgentEnds, NEW b \in owedAgentEnds, CombineAgentEnds(a, b)
       PROVE (GoalOK /\ TurnOK /\ WorkOK /\ OwedOK /\ DoneOK)'
  <2> DEFINE both == Owed(a.turns \cup b.turns, a.goalIds \cup b.goalIds, a.overtaken \/ b.overtaken)
  <2>1. both \in [turns : SUBSET (0..(MaxTurns - 1)), goalIds : SUBSET GoalIds, overtaken : BOOLEAN]
    BY <1>2 DEF Owed
  <2>2. /\ owedAgentEnds' = (owedAgentEnds \ {a, b}) \cup {both}
        /\ UNCHANGED <<guard, goal, owner, turn, phase, carried, known, ran, stopped, owedTurnEnds, handled, swallowed>>
    BY <1>16 DEF CombineAgentEnds, outcome
  <2> HIDE DEF both
  <2> QED BY <1>2, <2>1, <2>2
<1>17. CASE NewSession
  BY <1>2, <1>17 DEF NewSession, Owned, ActiveId
<1> QED BY <1>3, <1>4, <1>5, <1>6, <1>7, <1>8, <1>9, <1>10, <1>11, <1>12, <1>13, <1>14, <1>15,
           <1>16, <1>17 DEF Next

-----------------------------------------------------------------------------
(***************************************************************************)
(* The steps.                                                              *)
(***************************************************************************)
\* What is left are some of the obligations there were.
LEMMA LeftEntries ==
  ASSUME NEW o, NEW P, NEW r, LeftOf(r, o, P, Len(o)), o \in Seq(Obligations)
  PROVE  \A j \in DOMAIN r : \E i \in DOMAIN o : r[j] = o[i]
<1>1. PICK g : Leads(g, r, o, P, Len(o))
  BY DEF LeftOf
<1>2. DOMAIN o = 1..Len(o)
  BY LenProperties
<1>3. \A j \in DOMAIN r : g[j] \in DOMAIN o /\ r[j] = o[g[j]]
  BY <1>1, <1>2 DEF Leads
<1> QED BY <1>3

\* Steps that leave alone all that is counted.
LEMMA DebtFrame ==
  ASSUME AgentEndInv,
         UNCHANGED <<guard, turn, phase, carried, ran, stopped, owedAgentEnds, handled, swallowed>>
  PROVE  AgentEndInv'
<1> QED BY DEF AgentEndInv, DebtsInOrder, OpenOrOvertaken, WorkIsNoted, NewestIsLast,
               NoGoalOnBothSides, AgentEndsToldApart, Of

\* The record of agent_ends is judged by what it holds and by whose work ran.
LEMMA SameRecord ==
  ASSUME AgentEndsToldApart,
         NoGoalOnBothSides' => NoGoalOnBothSides,
         Of("agent_end", TRUE, handled') \subseteq Of("agent_end", TRUE, handled),
         Of("agent_end", FALSE, swallowed') \subseteq Of("agent_end", FALSE, swallowed)
  PROVE  AgentEndsToldApart'
<1> QED BY DEF AgentEndsToldApart

LEMMA DebtReleasesAbort ==
  ASSUME IInv, AgentEndInv, ReleasesAbort
  PROVE  AgentEndInv'
<1> DEFINE g == ClearAbort(guard).state
<1>1. /\ guard' = g
      /\ UNCHANGED <<turn, phase, carried, ran, stopped, owedAgentEnds, handled, swallowed>>
  BY DEF ReleasesAbort, Answer, host, outcome
<1>2. CASE guard.kind # "aborting"
  <2>1. guard' = guard
    BY <1>1, <1>2 DEF ClearAbort, Result
  <2> QED BY <1>1, <2>1, DebtFrame
<1>3. CASE guard.kind = "aborting"
  <2>1. /\ GuardTyped(g) /\ g.kind # "aborting" /\ Alike(guard.agentEnds, g.agentEnds)
        /\ \A i \in DOMAIN g.agentEnds : g.agentEnds[i].anonymous <=> guard.agentEnds[i].anonymous
        /\ g.stale \subseteq guard.stale
    BY ReleaseTyped DEF AgentEndInv
  <2>2. phase = "idle"
    BY <1>3 DEF IInv
  <2> HIDE DEF g
  <2>3. GuardTyped(guard') /\ NewestIsLast' /\ DebtsInOrder'
    BY <1>1, <2>1 DEF AgentEndInv, NewestIsLast, DebtsInOrder
  <2>4. OpenOrOvertaken'
    BY <1>1, <2>1, <2>2 DEF AgentEndInv, OpenOrOvertaken, Closed, Alike
  <2>5. WorkIsNoted'
    BY <1>1, <2>1, <2>2 DEF AgentEndInv, WorkIsNoted, Alike
  <2>6. (NoGoalOnBothSides => Payable(owedAgentEnds, guard.agentEnds))'
    BY <1>1, <2>1, AlikeArePayable DEF AgentEndInv, NoGoalOnBothSides
  <2>7. AgentEndsToldApart'
    BY <1>1 DEF AgentEndInv, AgentEndsToldApart, NoGoalOnBothSides
  <2> QED BY <2>3, <2>4, <2>5, <2>6, <2>7 DEF AgentEndInv
<1> QED BY <1>2, <1>3

LEMMA DebtTurnStart ==
  ASSUME IInv, AgentEndInv, TurnStart
  PROVE  AgentEndInv'
<1> DEFINE g == TurnStartEvent(guard).state
<1>1. /\ phase \in {"idle", "ended"} /\ phase' = IF phase = "ended" THEN "turn" ELSE "start"
      /\ turn' = IF turn = Null THEN 0 ELSE turn + 1
      /\ carried' = IF phase = "ended" THEN carried ELSE {}
      /\ guard' = g
      /\ UNCHANGED <<ran, stopped, owedAgentEnds, handled, swallowed>>
  BY DEF TurnStart, Answer, outcome
<1>2. /\ GuardTyped(g) /\ g.kind # "aborting" /\ Alike(guard.agentEnds, g.agentEnds)
      /\ \A i \in DOMAIN g.agentEnds : g.agentEnds[i].anonymous <=> guard.agentEnds[i].anonymous
      /\ g.stale = {}
  BY ReleaseTyped DEF AgentEndInv
<1> HIDE DEF g
<1>3. turn \in Nat => turn' \in Nat /\ turn < turn'
  BY <1>1, TurnAssumption
<1>4. DebtsInOrder'
  <2>1. ASSUME NEW o \in owedAgentEnds, NEW t \in o.turns
        PROVE  turn' \in Nat /\ t \in 0..turn' /\ t < turn'
    <3>1. turn \in Nat /\ t \in 0..turn
      BY DEF AgentEndInv, DebtsInOrder
    <3> QED BY <3>1, <1>3
  <2> QED BY <1>1, <2>1 DEF AgentEndInv, DebtsInOrder
<1>5. OpenOrOvertaken'
  <2>1. phase' = "turn" => Closed(guard.agentEnds)
    BY <1>1 DEF AgentEndInv, OpenOrOvertaken
  <2> QED BY <1>1, <1>2, <2>1 DEF AgentEndInv, OpenOrOvertaken, Closed, Alike
<1>6. WorkIsNoted'
  BY <1>1, <1>2 DEF AgentEndInv, WorkIsNoted, Alike
<1>7. NewestIsLast'
  BY <1>1, <1>2 DEF NewestIsLast
<1>8. (NoGoalOnBothSides => Payable(owedAgentEnds, guard.agentEnds))'
  BY <1>1, <1>2, AlikeArePayable DEF AgentEndInv, NoGoalOnBothSides
<1>9. AgentEndsToldApart'
  BY <1>1 DEF AgentEndInv, AgentEndsToldApart, NoGoalOnBothSides
<1> QED BY <1>1, <1>2, <1>4, <1>5, <1>6, <1>7, <1>8, <1>9 DEF AgentEndInv

LEMMA DebtMessageStart ==
  ASSUME IInv, AgentEndInv, NEW id \in GoalIds \cup {Null}, MessageStart(id)
  PROVE  AgentEndInv'
<1>1. /\ phase \in {"start", "turn"} /\ phase' = "turn"
      /\ carried' = IF id = Null THEN carried ELSE carried \cup {id}
      /\ \/ guard' = RunnableWorkStarted(guard)
         \/ id # Null /\ guard' = StaleWorkStarted(guard, id)
      /\ UNCHANGED <<turn, ran, stopped, owedAgentEnds, handled, swallowed>>
  BY DEF MessageStart, outcome
<1>2. guard.kind # "aborting"
  BY <1>1 DEF IInv
<1>3. /\ GuardTyped(guard') /\ guard'.agentEnds = guard.agentEnds /\ guard'.kind = "observing"
      /\ \/ guard'.stale = guard.stale /\ guard'.runnable
         \/ id # Null /\ guard'.stale = guard.stale \cup {id} /\ (guard'.runnable <=> guard.runnable)
  BY <1>1, <1>2, WorkStartedTyped DEF AgentEndInv
<1>4. DebtsInOrder' /\ OpenOrOvertaken' /\ NewestIsLast'
  BY <1>1, <1>3 DEF AgentEndInv, DebtsInOrder, OpenOrOvertaken, NewestIsLast
<1>5. WorkIsNoted'
  BY <1>1, <1>3 DEF AgentEndInv, WorkIsNoted
<1>6. (NoGoalOnBothSides => Payable(owedAgentEnds, guard.agentEnds))'
  BY <1>1, <1>3 DEF AgentEndInv, NoGoalOnBothSides
<1>7. AgentEndsToldApart'
  BY <1>1 DEF AgentEndInv, AgentEndsToldApart, NoGoalOnBothSides
<1> QED BY <1>3, <1>4, <1>5, <1>6, <1>7 DEF AgentEndInv

\* The work that is aborted is all stale, or had reached the model before.
LEMMA DebtContext ==
  ASSUME IInv, AgentEndInv, Context
  PROVE  AgentEndInv'
<1> DEFINE r == ContextAbort(guard, turn)
           o == guard.agentEnds
           s == r.state.agentEnds
           new == Owed({turn}, carried, FALSE)
<1>1. /\ guard' = r.state
      /\ phase = "turn" /\ phase' = IF r.plan.aborts THEN "idle" ELSE "model"
      /\ ran' = IF r.plan.aborts THEN ran ELSE ran \cup carried
      /\ stopped' = IF r.plan.aborts THEN stopped \cup carried ELSE stopped
      /\ owedAgentEnds' = IF r.plan.aborts THEN owedAgentEnds \cup {new}
                          ELSE {Owed(d.turns, d.goalIds, TRUE) : d \in owedAgentEnds}
      /\ UNCHANGED <<turn, carried, handled, swallowed>>
  BY DEF Context, Answer, outcome
<1>2. turn \in Nat /\ Null \notin Nat /\ guard.kind # "aborting"
  BY <1>1, TurnAssumption DEF IInv
<1>3. /\ GuardTyped(r.state)
      /\ r.plan.aborts =>
           /\ r.state.kind = "aborting" /\ r.state.activeTurn = turn /\ r.state.stale = {}
           /\ turn \in r.state.turnEnds /\ ~guard.runnable
           /\ DOMAIN s = 1..(Len(o) + 1)
           /\ \A i \in DOMAIN o : s[i].goalIds = o[i].goalIds
           /\ s[Len(o) + 1].goalIds = guard.stale
           /\ \A i \in DOMAIN s : s[i].anonymous
      /\ ~r.plan.aborts =>
           /\ Alike(o, s) /\ r.state.kind # "aborting" /\ r.state.stale \subseteq guard.stale
           /\ \A i \in DOMAIN s : s[i].anonymous => o[i].anonymous
           /\ guard.kind = "observing" => \A i \in DOMAIN s : ~s[i].anonymous
  BY <1>2, ContextTyped DEF AgentEndInv
<1>4. o \in Seq(Obligations) /\ DOMAIN o = 1..Len(o) /\ Len(o) \in Nat
  BY LenProperties DEF AgentEndInv, GuardTyped, GuardStates
<1>5. new.turns = {turn} /\ new.goalIds = carried
  BY DEF Owed
<1>6. NoGoalOnBothSides' => NoGoalOnBothSides
  BY <1>1 DEF NoGoalOnBothSides
<1>7. AgentEndsToldApart'
  BY <1>1, <1>6 DEF AgentEndInv, AgentEndsToldApart
<1>8. guard'.agentEnds = s
  BY <1>1
<1>9. \A d \in owedAgentEnds : \A t \in d.turns : t \in Nat /\ t < turn
  BY <1>1 DEF AgentEndInv, DebtsInOrder
<1> HIDE DEF r, s
<1>10. CASE r.plan.aborts
  <2> HIDE DEF new
  <2>1. DebtsInOrder'
    <3>1. owedAgentEnds' = owedAgentEnds \cup {new} /\ phase' = "idle" /\ turn' = turn
      BY <1>1, <1>10
    <3>2. \A d \in owedAgentEnds : Before(d, new)
      BY <1>5, <1>9 DEF Before
    <3>3. \A d \in owedAgentEnds \cup {new} :
             d.turns # {} /\ \A t \in d.turns : t \in 0..turn /\ turn \in Nat
      BY <1>2, <1>5 DEF AgentEndInv, DebtsInOrder
    <3> QED BY <3>1, <3>2, <3>3 DEF AgentEndInv, DebtsInOrder
  <2>2. OpenOrOvertaken'
    BY <1>1, <1>3, <1>8, <1>10 DEF OpenOrOvertaken
  <2>3. WorkIsNoted'
    <3>1. \A i \in 1..(Len(o) + 1) : i = Len(o) + 1 \/ i \in DOMAIN o
      BY <1>4
    <3>2. \A i \in DOMAIN o : o[i].goalIds \subseteq stopped
      BY DEF AgentEndInv, WorkIsNoted
    <3>3. guard.stale \subseteq carried
      BY DEF AgentEndInv, WorkIsNoted
    <3>4. \A i \in DOMAIN s : s[i].goalIds \subseteq stopped \cup carried
      BY <1>3, <1>10, <3>1, <3>2, <3>3
    <3>5. guard'.stale = {}
      BY <1>1, <1>3, <1>10
    <3> QED BY <1>1, <1>8, <1>10, <3>4, <3>5 DEF WorkIsNoted
  <2>4. NewestIsLast'
    BY <1>1, <1>3, <1>10 DEF NewestIsLast
  <2>5. ASSUME NoGoalOnBothSides' PROVE Payable(owedAgentEnds', guard'.agentEnds)
    <3>1. carried \subseteq guard.stale
      BY <1>1, <1>3, <1>10, <2>5 DEF AgentEndInv, WorkIsNoted, NoGoalOnBothSides
    <3>2. Payable(owedAgentEnds, o)
      BY <1>6, <2>5 DEF AgentEndInv
    <3>3. \A u \in Turns(owedAgentEnds) : u \in Nat /\ u < turn
      BY <1>9 DEF Turns
    <3>4. Payable(owedAgentEnds \cup {Owed({turn}, carried, FALSE)}, s)
      BY <1>2, <1>3, <1>4, <1>10, <3>1, <3>2, <3>3, OneMoreIsPayable
    <3> QED BY <1>1, <1>8, <1>10, <3>4 DEF new
  <2> QED BY <1>1, <1>3, <1>7, <2>1, <2>2, <2>3, <2>4, <2>5 DEF AgentEndInv
<1>11. CASE ~r.plan.aborts
  <2>1. /\ \A p \in owedAgentEnds' : \E d \in owedAgentEnds : p = Owed(d.turns, d.goalIds, TRUE)
        /\ phase' = "model" /\ turn' = turn
    BY <1>1, <1>11
  <2>2. DebtsInOrder'
    <3>1. ASSUME NEW p \in owedAgentEnds'
          PROVE  p.turns # {} /\ \A t \in p.turns : t \in 0..turn /\ turn \in Nat /\ t < turn
      <4>1. PICK d \in owedAgentEnds : p = Owed(d.turns, d.goalIds, TRUE)
        BY <2>1
      <4>2. p.turns = d.turns
        BY <4>1 DEF Owed
      <4> QED BY <4>2, <1>1 DEF AgentEndInv, DebtsInOrder
    <3>2. ASSUME NEW p \in owedAgentEnds', NEW q \in owedAgentEnds'
          PROVE  p = q \/ Before(p, q) \/ Before(q, p)
      <4>1. PICK d \in owedAgentEnds : p = Owed(d.turns, d.goalIds, TRUE)
        BY <2>1
      <4>2. PICK c \in owedAgentEnds : q = Owed(c.turns, c.goalIds, TRUE)
        BY <2>1
      <4>3. p.turns = d.turns /\ q.turns = c.turns
        BY <4>1, <4>2 DEF Owed
      <4>4. d = c \/ Before(d, c) \/ Before(c, d)
        BY DEF AgentEndInv, DebtsInOrder
      <4> QED BY <4>1, <4>2, <4>3, <4>4 DEF Before
    <3> QED BY <2>1, <3>1, <3>2 DEF DebtsInOrder
  <2>3. OpenOrOvertaken'
    <3>1. Closed(s)
      <4>1. guard.kind # "observing" => Closed(o)
        BY <1>1 DEF AgentEndInv, OpenOrOvertaken
      <4> QED BY <4>1, <1>3, <1>11 DEF Closed, Alike
    <3>2. \A p \in owedAgentEnds' : p.overtaken
      BY <2>1 DEF Owed
    <3> QED BY <1>8, <3>1, <3>2 DEF OpenOrOvertaken
  <2>4. WorkIsNoted'
    <3>1. \A i \in DOMAIN s : s[i].goalIds \subseteq stopped
      BY <1>3, <1>11 DEF AgentEndInv, WorkIsNoted, Alike
    <3>2. guard'.stale \subseteq carried
      BY <1>1, <1>3, <1>11 DEF AgentEndInv, WorkIsNoted
    <3> QED BY <1>1, <1>8, <1>11, <3>1, <3>2 DEF WorkIsNoted
  <2>5. NewestIsLast'
    BY <1>1, <1>3, <1>11 DEF NewestIsLast
  <2>6. ASSUME NoGoalOnBothSides' PROVE Payable(owedAgentEnds', guard'.agentEnds)
    <3>1. Payable(owedAgentEnds, s)
      BY <1>3, <1>6, <1>11, <2>6, AlikeArePayable DEF AgentEndInv
    <3>2. \A p \in owedAgentEnds' : \E d \in owedAgentEnds : p.turns = d.turns /\ p.goalIds = d.goalIds
      BY <2>1 DEF Owed
    <3> QED BY <1>8, <3>1, <3>2, FewerArePayable
  <2> QED BY <1>1, <1>3, <1>7, <2>2, <2>3, <2>4, <2>5, <2>6 DEF AgentEndInv
<1> QED BY <1>10, <1>11

\* What a turn_end leaves of the invariant, whichever turn's it is.
LEMMA DebtTurnEnd ==
  ASSUME IInv, AgentEndInv, NEW t, NEW aborted \in BOOLEAN, NEW stale,
         Handle(TurnEndEvent(guard, t), Event("turn_end", stale, {}, FALSE), aborted),
         phase' = phase \/ (phase = "model" /\ phase' = "ended"),
         UNCHANGED <<turn, carried, ran, stopped, owedAgentEnds>>,
         guard.kind = "aborting" => Oldest(t)
  PROVE  AgentEndInv'
<1> DEFINE r == TurnEndEvent(guard, t)
           e == Event("turn_end", stale, {}, FALSE)
<1>1. e.event = "turn_end" /\ Handle(r, e, aborted)
  BY DEF Event
<1>2. /\ GuardTyped(r.state) /\ r.state.agentEnds = guard.agentEnds
      /\ r.state.stale = guard.stale /\ (r.state.runnable <=> guard.runnable)
      /\ r.state.kind = "aborting" <=> guard.kind = "aborting"
      /\ r.state.kind = "observing" <=> guard.kind = "observing"
      /\ r.state.kind = "aborting" => r.state.activeTurn = guard.activeTurn
      /\ guard.turnEnds \ {t} \subseteq r.state.turnEnds
  BY TurnEndTyped DEF AgentEndInv
<1> HIDE DEF r, e
<1>3. /\ guard' = r.state
      /\ handled' \subseteq handled \cup {e} /\ swallowed' \subseteq swallowed \cup {e}
  <2>1. GoalShaped
    BY DEF IInv
  <2>2. /\ guard' = r.state
        /\ \/ swallowed' = swallowed \cup {e} /\ handled' = handled
           \/ swallowed' = swallowed /\ handled' = handled \cup {e}
    BY <1>1, <2>1, HandleRecords
  <2> QED BY <2>2
<1>4. DebtsInOrder' /\ OpenOrOvertaken' /\ WorkIsNoted'
  <2>1. phase' # "idle" => phase # "idle"
    OBVIOUS
  <2> QED BY <1>2, <1>3, <2>1 DEF AgentEndInv, DebtsInOrder, OpenOrOvertaken, WorkIsNoted
<1>5. NewestIsLast'
  <2> SUFFICES ASSUME guard.kind = "aborting"
               PROVE  /\ guard'.activeTurn = turn
                      /\ turn \notin guard'.turnEnds => \A o \in owedAgentEnds : turn \in o.turns
    BY <1>2, <1>3 DEF NewestIsLast
  <2>1. guard'.activeTurn = turn
    BY <1>2, <1>3 DEF AgentEndInv, NewestIsLast
  <2>2. CASE t = turn
    <3>1. ASSUME NEW o \in owedAgentEnds PROVE turn \in o.turns
      <4>1. PICK u \in o.turns : t <= u
        BY DEF Oldest
      <4>2. u \in 0..turn /\ turn \in Nat
        BY DEF AgentEndInv, DebtsInOrder
      <4>3. u = turn
        BY <2>2, <4>1, <4>2
      <4> QED BY <4>3
    <3> QED BY <2>1, <3>1
  <2>3. CASE t # turn
    BY <1>2, <1>3, <2>1, <2>3 DEF AgentEndInv, NewestIsLast
  <2> QED BY <2>2, <2>3
<1>6. (NoGoalOnBothSides => Payable(owedAgentEnds, guard.agentEnds))'
  BY <1>2, <1>3 DEF AgentEndInv, NoGoalOnBothSides
<1>7. AgentEndsToldApart'
  BY <1>1, <1>3 DEF AgentEndInv, AgentEndsToldApart, NoGoalOnBothSides, Of
<1> QED BY <1>2, <1>3, <1>4, <1>5, <1>6, <1>7 DEF AgentEndInv

LEMMA DebtTurnEnds ==
  ASSUME IInv, AgentEndInv,
         \/ \E aborted \in BOOLEAN : TurnEnd(aborted)
         \/ \E t \in owedTurnEnds : LateTurnEnd(t)
  PROVE  AgentEndInv'
<1>1. ASSUME NEW aborted \in BOOLEAN, TurnEnd(aborted) PROVE AgentEndInv'
  <2>1. guard.kind # "aborting"
    BY <1>1 DEF TurnEnd, IInv
  <2>2. /\ Handle(TurnEndEvent(guard, turn), Event("turn_end", FALSE, {}, FALSE), aborted)
        /\ phase = "model" /\ phase' = "ended"
        /\ UNCHANGED <<turn, carried, ran, stopped, owedAgentEnds>>
    BY <1>1 DEF TurnEnd
  <2> QED BY <2>1, <2>2, DebtTurnEnd
<1>2. ASSUME NEW t \in owedTurnEnds, LateTurnEnd(t) PROVE AgentEndInv'
  <2>1. /\ Handle(TurnEndEvent(guard, t), Event("turn_end", TRUE, {}, FALSE), TRUE)
        /\ Oldest(t) /\ phase' = phase
        /\ UNCHANGED <<turn, carried, ran, stopped, owedAgentEnds>>
    BY <1>2 DEF LateTurnEnd
  <2> QED BY <2>1, DebtTurnEnd
<1> QED BY <1>1, <1>2

\* What an agent_end leaves of the invariant, whichever turn's it is.
LEMMA DebtAgentEnd ==
  ASSUME IInv, AgentEndInv, NEW end, NEW e, NEW aborted \in BOOLEAN,
         Handle(AgentEndEvent(guard, end), e, aborted),
         phase' \in {phase, "idle"}, owedAgentEnds' \subseteq owedAgentEnds,
         UNCHANGED <<turn, carried, ran, stopped>>
  PROVE  /\ GuardTyped(guard')
         /\ DebtsInOrder' /\ OpenOrOvertaken' /\ WorkIsNoted' /\ NewestIsLast'
         /\ LeftOf(guard'.agentEnds, guard.agentEnds, Taken(guard, end), Len(guard.agentEnds))
         /\ Taken(guard, end) # {} => handled' = handled /\ swallowed' = swallowed \cup {e}
         /\ Taken(guard, end) = {} => handled' = handled \cup {e} /\ swallowed' = swallowed
<1> DEFINE r == AgentEndEvent(guard, end)
           o == guard.agentEnds
           P == Taken(guard, end)
<1>1. /\ GuardTyped(r.state) /\ LeftOf(r.state.agentEnds, o, P, Len(o))
      /\ r.plan.skip <=> P # {}
      /\ r.state.stale = guard.stale /\ (r.state.runnable <=> guard.runnable)
      /\ r.state.kind = "aborting" => guard.kind = "aborting" /\ r.state.activeTurn = guard.activeTurn
      /\ r.state.kind = "observing" <=> guard.kind = "observing"
  BY AgentEndTyped DEF AgentEndInv
<1>2. r.state.turnEnds = guard.turnEnds /\ GoalShaped
  BY AgentEndKeeps DEF IInv
<1> HIDE DEF r, P
<1>3. /\ guard' = r.state
      /\ P # {} => handled' = handled /\ swallowed' = swallowed \cup {e}
      /\ P = {} => handled' = handled \cup {e} /\ swallowed' = swallowed
  BY <1>1, <1>2, HandleRecords DEF r
<1>4. o \in Seq(Obligations)
  BY DEF AgentEndInv, GuardTyped, GuardStates
<1>5. \A j \in DOMAIN guard'.agentEnds : \E i \in DOMAIN o : guard'.agentEnds[j] = o[i]
  <2> DEFINE s == guard'.agentEnds
  <2>1. LeftOf(s, o, P, Len(o))
    BY <1>1, <1>3
  <2> HIDE DEF s, o
  <2>2. \A j \in DOMAIN s : \E i \in DOMAIN o : s[j] = o[i]
    BY <1>4, <2>1, LeftEntries
  <2> QED BY <2>2 DEF s, o
<1>6. DebtsInOrder'
  BY <1>1, <1>3 DEF AgentEndInv, DebtsInOrder
<1>7. OpenOrOvertaken'
  <2>1. Closed(o) => Closed(guard'.agentEnds)
    BY <1>5 DEF Closed
  <2> QED BY <1>1, <1>3, <1>5, <2>1 DEF AgentEndInv, OpenOrOvertaken, Closed
<1>8. WorkIsNoted'
  <2>1. \A i \in DOMAIN o : o[i].goalIds \subseteq stopped
    BY DEF AgentEndInv, WorkIsNoted
  <2>2. \A j \in DOMAIN guard'.agentEnds : guard'.agentEnds[j].goalIds \subseteq stopped
    BY <1>5, <2>1
  <2> QED BY <1>1, <1>3, <2>2 DEF AgentEndInv, WorkIsNoted
<1>9. NewestIsLast'
  BY <1>1, <1>2, <1>3 DEF AgentEndInv, NewestIsLast
<1> QED BY <1>1, <1>3, <1>6, <1>7, <1>8, <1>9 DEF P

\* The end of a run finds the obligations closed, and of other goals.
LEMMA DebtOwnAgentEnd ==
  ASSUME IInv, AgentEndInv, NEW aborted \in BOOLEAN, NEW withGoalWork \in BOOLEAN,
         AgentEnd(aborted, withGoalWork)
  PROVE  AgentEndInv'
<1> DEFINE ids == Carries(carried, withGoalWork)
           end == [goalIds |-> ids, terminal |-> TRUE]
           e == Event("agent_end", FALSE, ids, FALSE)
           o == guard.agentEnds
<1>1. /\ Handle(AgentEndEvent(guard, end), e, aborted)
      /\ phase = "ended" /\ phase' = "idle"
      /\ UNCHANGED <<turn, carried, ran, stopped, owedAgentEnds>>
  BY DEF AgentEnd
<1>2. end.goalIds = ids /\ ids \subseteq carried /\ e.stale = FALSE
  BY DEF Event, Carries
<1> HIDE DEF ids, end, e
<1>3. /\ GuardTyped(guard')
      /\ DebtsInOrder' /\ OpenOrOvertaken' /\ WorkIsNoted' /\ NewestIsLast'
      /\ LeftOf(guard'.agentEnds, o, Taken(guard, end), Len(o))
      /\ Taken(guard, end) = {} => handled' = handled \cup {e} /\ swallowed' = swallowed
  BY <1>1, DebtAgentEnd
<1>4. NoGoalOnBothSides' <=> NoGoalOnBothSides
  BY <1>1 DEF NoGoalOnBothSides
<1>5. ASSUME NoGoalOnBothSides
      PROVE  Payable(owedAgentEnds', guard'.agentEnds) /\ AgentEndsToldApart'
  <2>1. Taken(guard, end) = {}
    <3>1. guard.kind # "aborting" /\ Closed(o)
      BY <1>1 DEF IInv, AgentEndInv, OpenOrOvertaken
    <3>2. ids \subseteq ran
      BY <1>1, <1>2 DEF AgentEndInv, WorkIsNoted
    <3>3. GoalIdsAt(o, DOMAIN o) \subseteq stopped
      BY DEF AgentEndInv, WorkIsNoted, GoalIdsAt
    <3>4. end.goalIds \cap GoalIdsAt(o, DOMAIN o) = {}
      BY <1>2, <1>5, <3>2, <3>3 DEF NoGoalOnBothSides
    <3> QED BY <3>1, <3>4, ConsumesNothing DEF AgentEndInv
  <2>2. PICK f : Placed(f, owedAgentEnds, o)
    BY <1>5 DEF AgentEndInv, Payable
  <2>3. o \in Seq(Obligations)
    BY DEF AgentEndInv, GuardTyped, GuardStates
  <2>4. Payable(owedAgentEnds, guard'.agentEnds)
    <3> HIDE DEF o
    <3> QED BY <1>3, <2>1, <2>2, <2>3, LeftArePayable
  <2>5. AgentEndsToldApart'
    BY <1>2, <1>3, <1>4, <1>5, <2>1 DEF AgentEndInv, AgentEndsToldApart, Of
  <2> QED BY <1>1, <2>4, <2>5
<1>6. AgentEndsToldApart'
  BY <1>4, <1>5 DEF AgentEndsToldApart
<1> QED BY <1>1, <1>3, <1>4, <1>5, <1>6 DEF AgentEndInv

\* The end of the oldest turns that are owed consumes obligations of its own
\* or of turns before, and so leaves those of all others.
LEMMA DebtLateAgentEnd ==
  ASSUME IInv, AgentEndInv, NEW owed \in owedAgentEnds, NEW withGoalWork \in BOOLEAN,
         LateAgentEnd(owed, withGoalWork)
  PROVE  AgentEndInv'
<1> DEFINE ids == Carries(owed.goalIds, withGoalWork)
           end == [goalIds |-> ids, terminal |-> TRUE]
           e == Event("agent_end", TRUE, ids, owed.overtaken)
           o == guard.agentEnds
           P == Taken(guard, end)
           rest == owedAgentEnds \ {owed}
<1>1. /\ Handle(AgentEndEvent(guard, end), e, TRUE)
      /\ \E t \in owed.turns : Oldest(t)
      /\ owedAgentEnds' = rest
      /\ UNCHANGED <<turn, phase, carried, ran, stopped>>
  BY DEF LateAgentEnd
<1>2. /\ end.goalIds = ids /\ end.terminal /\ ids \subseteq owed.goalIds
      /\ e.goalIds = ids /\ e.overtaken = owed.overtaken /\ e.stale = TRUE
  BY DEF Event, Carries
<1> HIDE DEF ids, end, e, P
<1>3. /\ GuardTyped(guard')
      /\ DebtsInOrder' /\ OpenOrOvertaken' /\ WorkIsNoted' /\ NewestIsLast'
      /\ LeftOf(guard'.agentEnds, o, P, Len(o))
      /\ P # {} => handled' = handled /\ swallowed' = swallowed \cup {e}
      /\ P = {} => handled' = handled \cup {e} /\ swallowed' = swallowed
  <2>1. owedAgentEnds' \subseteq owedAgentEnds
    BY <1>1
  <2> HIDE DEF rest
  <2> QED BY <1>1, <2>1, DebtAgentEnd DEF P
<1>4. NoGoalOnBothSides' <=> NoGoalOnBothSides
  BY <1>1 DEF NoGoalOnBothSides
<1>5. \A d \in owedAgentEnds : \A t \in d.turns : t \in 0..turn /\ turn \in Nat
  BY DEF AgentEndInv, DebtsInOrder
<1>6. ASSUME NEW p \in rest PROVE Before(owed, p)
  <2>1. Before(owed, p) \/ Before(p, owed)
    BY DEF AgentEndInv, DebtsInOrder
  <2>2. PICK t \in owed.turns : Oldest(t)
    BY <1>1
  <2>3. PICK u \in p.turns : t <= u
    BY <2>2 DEF Oldest
  <2>4. t \in Nat /\ u \in Nat
    BY <1>5
  <2>5. ~Before(p, owed)
    BY <2>3, <2>4 DEF Before
  <2> QED BY <2>1, <2>5
<1>7. ASSUME NoGoalOnBothSides
      PROVE  /\ Payable(rest, guard'.agentEnds)
             /\ P = {} => ids = {} /\ owed.overtaken
  <2>1. PICK f : Placed(f, owedAgentEnds, o)
    BY <1>7 DEF AgentEndInv, Payable
  <2>2. o \in Seq(Obligations) /\ DOMAIN o = 1..Len(o) /\ Len(o) \in Nat
    BY LenProperties DEF AgentEndInv, GuardTyped, GuardStates
  <2>3. \A d \in owedAgentEnds : \A t \in d.turns : t \in Turns(owedAgentEnds)
    BY DEF Turns
  <2> DEFINE Q == {f[t] : t \in owed.turns}
  <2>4. Q \in SUBSET (DOMAIN o) /\ Q # {} /\ owed.turns # {}
    BY <2>1, <2>3 DEF Placed, AgentEndInv, DebtsInOrder
  <2>5. end.goalIds \subseteq GoalIdsAt(o, Q)
    BY <1>2, <2>1 DEF Placed, GoalIdsAt
  <2>6. CASE guard.kind = "aborting" /\ ActiveTurnEnded(guard)
    <3>1. \A d \in owedAgentEnds : turn \in d.turns
      BY <2>6 DEF AgentEndInv, NewestIsLast, ActiveTurnEnded
    <3>2. rest = {}
      BY <1>5, <1>6, <3>1 DEF Before
    <3>3. end.goalIds \subseteq GoalIdsAt(o, DOMAIN o)
      BY <2>4, <2>5 DEF GoalIdsAt
    <3>4. P # {}
      BY <1>2, <2>6, <3>3, ConsumesSomething DEF AgentEndInv, P
    <3> QED BY <3>2, <3>4, NothingIsPayable
  <2>7. CASE ~(guard.kind = "aborting" /\ ActiveTurnEnded(guard))
    <3>1. (\A i \in DOMAIN o : o[i].anonymous) \/ Closed(o)
      BY DEF AgentEndInv, OpenOrOvertaken
    <3>2. /\ \A i \in P : \E q \in Q : i <= q
          /\ P = {} => end.goalIds = {} /\ Closed(o)
      <4> HIDE DEF Q
      <4> QED BY <1>2, <2>4, <2>5, <2>7, <3>1, ConsumesItsOwn DEF AgentEndInv, P
    <3>3. P = {} => ids = {} /\ owed.overtaken
      <4>1. Closed(o) => ~\A i \in DOMAIN o : o[i].anonymous
        BY <2>4 DEF Closed
      <4> QED BY <1>2, <3>2, <4>1 DEF AgentEndInv, OpenOrOvertaken
    <3> DEFINE h == [t \in Turns(rest) |-> f[t]]
    <3>4. Placed(h, rest, o)
      <4>1. \A d \in rest : \E c \in owedAgentEnds : d.turns = c.turns /\ d.goalIds = c.goalIds
        OBVIOUS
      <4> HIDE DEF rest, o
      <4> QED BY <2>1, <4>1, FewerArePlaced
    <3>5. ASSUME NEW u \in Turns(rest) PROVE h[u] \notin P
      <4>1. PICK p \in rest : u \in p.turns
        BY DEF Turns
      <4>2. u \in Turns(owedAgentEnds) /\ h[u] = f[u] /\ f[u] \in 1..Len(o)
        BY <2>1, <2>2, <2>3, <4>1 DEF Placed
      <4>3. \A v \in owed.turns : f[v] < f[u] /\ f[v] \in 1..Len(o)
        BY <1>6, <2>1, <2>2, <2>3, <4>1, <4>2 DEF Placed, Before
      <4>4. P \subseteq 1..Len(o)
        BY <2>2, TakenAreThere DEF P
      <4>5. \A q \in Q : q < f[u] /\ q \in 1..Len(o)
        BY <4>3
      <4> HIDE DEF Q, h
      <4> QED BY <2>2, <3>2, <4>2, <4>4, <4>5
    <3> HIDE DEF h, o, rest
    <3>6. Payable(rest, guard'.agentEnds)
      BY <1>3, <2>2, <3>4, <3>5, LeftArePayable
    <3> QED BY <3>3, <3>6
  <2> QED BY <2>6, <2>7
<1>8. AgentEndsToldApart'
  <2> SUFFICES ASSUME NoGoalOnBothSides PROVE AgentEndsToldApart'
    BY <1>4 DEF AgentEndsToldApart
  <2>1. \/ handled' = handled /\ swallowed' = swallowed \cup {e}
        \/ handled' = handled \cup {e} /\ swallowed' = swallowed /\ ids = {} /\ owed.overtaken
    BY <1>3, <1>7
  <2> QED BY <1>2, <2>1 DEF AgentEndInv, AgentEndsToldApart, Of
<1> HIDE DEF rest
<1> QED BY <1>1, <1>3, <1>4, <1>7, <1>8 DEF AgentEndInv

LEMMA DebtLost ==
  ASSUME AgentEndInv, NEW owed \in owedAgentEnds, LoseAgentEnd(owed)
  PROVE  AgentEndInv'
<1>1. /\ owedAgentEnds' = owedAgentEnds \ {owed}
      /\ UNCHANGED <<guard, turn, phase, carried, ran, stopped, handled, swallowed>>
  BY DEF LoseAgentEnd, outcome
<1>2. DebtsInOrder' /\ OpenOrOvertaken' /\ WorkIsNoted' /\ NewestIsLast' /\ GuardTyped(guard')
  BY <1>1 DEF AgentEndInv, DebtsInOrder, OpenOrOvertaken, WorkIsNoted, NewestIsLast
<1>3. (NoGoalOnBothSides => Payable(owedAgentEnds, guard.agentEnds))'
  <2>1. \A d \in owedAgentEnds' : \E c \in owedAgentEnds : d.turns = c.turns /\ d.goalIds = c.goalIds
    BY <1>1
  <2> QED BY <1>1, <2>1, FewerArePayable DEF AgentEndInv, NoGoalOnBothSides
<1>4. AgentEndsToldApart'
  BY <1>1 DEF AgentEndInv, AgentEndsToldApart, NoGoalOnBothSides
<1> QED BY <1>2, <1>3, <1>4 DEF AgentEndInv

\* Two neighbours in one keep their place among the others.
LEMMA DebtCombined ==
  ASSUME AgentEndInv, NEW a \in owedAgentEnds, NEW b \in owedAgentEnds, CombineAgentEnds(a, b)
  PROVE  AgentEndInv'
<1> DEFINE both == Owed(a.turns \cup b.turns, a.goalIds \cup b.goalIds, a.overtaken \/ b.overtaken)
<1>1. /\ Before(a, b) /\ \A d \in owedAgentEnds : ~(Before(a, d) /\ Before(d, b))
      /\ owedAgentEnds' = (owedAgentEnds \ {a, b}) \cup {both}
      /\ UNCHANGED <<guard, turn, phase, carried, ran, stopped, handled, swallowed>>
  BY DEF CombineAgentEnds, outcome
<1>2. both.turns = a.turns \cup b.turns /\ (both.overtaken <=> a.overtaken \/ b.overtaken)
  BY DEF Owed
<1> HIDE DEF both
<1>3. \A d \in owedAgentEnds :
         d.turns # {} /\ \A t \in d.turns : t \in 0..turn /\ turn \in Nat /\ (phase # "idle" => t < turn)
  BY DEF AgentEndInv, DebtsInOrder
<1>4. ASSUME NEW d \in owedAgentEnds \ {a, b} PROVE Before(d, both) \/ Before(both, d)
  <2>1. (Before(d, a) \/ Before(a, d)) /\ (Before(d, b) \/ Before(b, d))
    BY DEF AgentEndInv, DebtsInOrder
  <2>2. ~(Before(b, d) /\ Before(d, a))
    <3>1. PICK t \in a.turns, u \in b.turns, v \in d.turns : t < u
      BY <1>1, <1>3 DEF Before
    <3>2. t \in Nat /\ u \in Nat /\ v \in Nat
      BY <1>3
    <3> QED BY <3>1, <3>2 DEF Before
  <2>3. (Before(d, a) /\ Before(d, b)) \/ (Before(a, d) /\ Before(b, d))
    BY <1>1, <2>1, <2>2
  <2> QED BY <1>2, <2>3 DEF Before
<1>5. DebtsInOrder'
  <2>1. \A d \in owedAgentEnds' :
         d.turns # {} /\ \A t \in d.turns : t \in 0..turn /\ turn \in Nat /\ (phase # "idle" => t < turn)
    BY <1>1, <1>2, <1>3
  <2>2. \A c, d \in owedAgentEnds' : c = d \/ Before(c, d) \/ Before(d, c)
    BY <1>1, <1>4 DEF AgentEndInv, DebtsInOrder
  <2> QED BY <1>1, <2>1, <2>2 DEF DebtsInOrder
<1>6. OpenOrOvertaken' /\ WorkIsNoted' /\ NewestIsLast' /\ GuardTyped(guard')
  BY <1>1, <1>2 DEF AgentEndInv, OpenOrOvertaken, WorkIsNoted, NewestIsLast
<1>7. (NoGoalOnBothSides => Payable(owedAgentEnds, guard.agentEnds))'
  <2>1. Payable(owedAgentEnds, guard.agentEnds) =>
          Payable((owedAgentEnds \ {a, b}) \cup {both}, guard.agentEnds)
    BY CombinedArePayable DEF both
  <2> QED BY <1>1, <2>1 DEF AgentEndInv, NoGoalOnBothSides
<1>8. AgentEndsToldApart'
  BY <1>1 DEF AgentEndInv, AgentEndsToldApart, NoGoalOnBothSides
<1> QED BY <1>5, <1>6, <1>7, <1>8 DEF AgentEndInv

\* A guard to which nothing has happened yet.
LEMMA IdleIsTyped ==
  /\ GuardTyped(Idle) /\ Idle.kind = "idle" /\ Idle.stale = {}
  /\ DOMAIN Idle.agentEnds = {} /\ Payable({}, Idle.agentEnds)
<1>1. /\ Idle.agentEnds = <<>> /\ <<>> \in Seq(Obligations) /\ DOMAIN <<>> = {}
      /\ Idle.kind = "idle" /\ Idle.stale = {}
  BY EmptySeq DEF Idle
<1>2. GuardTyped(Idle)
  BY <1>1 DEF Idle, GuardTyped, GuardStates, Kinds, HasPending, Phased
<1> QED BY <1>1, <1>2, NothingIsPayable

LEMMA DebtInit ==
  ASSUME Init
  PROVE  AgentEndInv
<1>1. /\ guard = Idle /\ phase = "idle" /\ owedAgentEnds = {}
      /\ handled = {} /\ swallowed = {}
  BY DEF Init
<1> QED BY <1>1, IdleIsTyped DEF AgentEndInv, DebtsInOrder, OpenOrOvertaken, WorkIsNoted,
           NewestIsLast, Closed, AgentEndsToldApart, Of

LEMMA DebtNewSession ==
  ASSUME NewSession
  PROVE  AgentEndInv'
<1>1. /\ guard' = Idle /\ phase' = "idle" /\ owedAgentEnds' = {}
      /\ handled' = {} /\ swallowed' = {}
  BY DEF NewSession, Answer, SessionShutdownEvent, Result
<1> QED BY <1>1, IdleIsTyped DEF AgentEndInv, DebtsInOrder, OpenOrOvertaken, WorkIsNoted,
           NewestIsLast, Closed, AgentEndsToldApart, Of

-----------------------------------------------------------------------------
\* In every state the obligations of the turns whose agent_end may still come
\* are in the order of the turns, open to ends without work or overtaken.
THEOREM DebtInvariant == Spec => []DebtInv
<1>1. Init => DebtInv
  <2> SUFFICES ASSUME Init PROVE DebtInv
    OBVIOUS
  <2>1. AgentEndInv
    BY DebtInit
  <2>2. TypeOK
    <3>1. /\ guard \in GuardStates
          /\ guard.kind # "observing" => guard.stale = {} /\ ~guard.runnable
          /\ guard.kind # "aborting" =>
                guard.activeTurn = Null /\ InPhase(guard.agentEnds, "active") = {}
          /\ guard.kind = "idle" => ~HasPending(guard)
          /\ guard.kind \in {"aborting", "awaiting"} => HasPending(guard)
      BY <2>1 DEF AgentEndInv, GuardTyped, Phased, InPhase
    <3> QED BY <3>1 DEF Init, TypeOK, NoGoal
  <2> QED BY <2>1, <2>2 DEF DebtInv
<1>2. IInv /\ DebtInv /\ [Next]_vars => DebtInv'
  <2> SUFFICES ASSUME IInv, TypeOK, AgentEndInv, [Next]_vars PROVE AgentEndInv'
    BY TypeStep DEF DebtInv, AgentEndInv
  <2>1. CASE \/ \E id \in GoalIds : StartOrReplace(id)
             \/ StopGoal \/ ResumeGoal
             \/ \E t \in owedTurnEnds : LoseTurnEnd(t)
             \/ UNCHANGED vars
    BY <2>1, DebtFrame DEF StartOrReplace, StopGoal, ResumeGoal, LoseTurnEnd, vars, host, outcome
  <2>2. CASE MidTurn
    <3>1. guard' = guard
      BY <2>2 DEF MidTurn, MidTurnEvent, Answer, Result
    <3> QED BY <2>2, <3>1, DebtFrame DEF MidTurn, host, outcome
  <2>3. CASE ReleasesAbort
    BY <2>3, DebtReleasesAbort
  <2>4. CASE TurnStart
    BY <2>4, DebtTurnStart
  <2>5. CASE \E id \in GoalIds \cup {Null} : MessageStart(id)
    BY <2>5, DebtMessageStart
  <2>6. CASE Context
    BY <2>6, DebtContext
  <2>7. CASE \/ \E aborted \in BOOLEAN : TurnEnd(aborted)
             \/ \E t \in owedTurnEnds : LateTurnEnd(t)
    BY <2>7, DebtTurnEnds
  <2>8. CASE \E aborted, withGoalWork \in BOOLEAN : AgentEnd(aborted, withGoalWork)
    BY <2>8, DebtOwnAgentEnd
  <2>9. CASE \E owed \in owedAgentEnds, withGoalWork \in BOOLEAN :
               LateAgentEnd(owed, withGoalWork)
    BY <2>9, DebtLateAgentEnd
  <2>10. CASE \E owed \in owedAgentEnds : LoseAgentEnd(owed)
    BY <2>10, DebtLost
  <2>11. CASE \E a, b \in owedAgentEnds : CombineAgentEnds(a, b)
    BY <2>11, DebtCombined
  <2>12. CASE NewSession
    BY <2>12, DebtNewSession
  <2> QED BY <2>1, <2>2, <2>3, <2>4, <2>5, <2>6, <2>7, <2>8, <2>9, <2>10, <2>11, <2>12 DEF Next
<1> QED BY <1>1, <1>2, GuardInvariant, PTL DEF Spec

\* Whatever turns are aborted, and whether their agent_ends come, come late, are
\* combined or never come: an aborted turn's is skipped and a finished run's is
\* handled (planAgentEnd in onAgentEnd), as long as no goal has work on both
\* sides, but for one without work after newer work has reached the model.
THEOREM AgentEndsAreToldApart == Spec => []AgentEndsToldApart
<1>1. DebtInv => AgentEndsToldApart
  BY DEF DebtInv, AgentEndInv
<1> QED BY DebtInvariant, <1>1, PTL

\* The guard is always in one of the states its type has, and only in one of
\* them does it hold notes, a turn or an active obligation.
THEOREM GuardTypesHold == Spec => []TypeOK
<1>1. DebtInv => TypeOK
  BY DEF DebtInv
<1> QED BY DebtInvariant, <1>1, PTL
=============================================================================
