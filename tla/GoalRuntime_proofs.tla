-------------------------- MODULE GoalRuntime_proofs --------------------------
(***************************************************************************)
(* What the handlers that keep a goal going promise, proved for any number *)
(* of goals and of messages and without the bounds of the runs.            *)
(*                                                                         *)
(* Every handler is a composition of operations on the memory, so the      *)
(* proof is about operations: each keeps the memory well formed, the flag  *)
(* equal to the log's, a pending recovery on an active goal, and the mark  *)
(* of a queued turn on a message that is on its way.  A second invariant   *)
(* says what the guard may owe, which is nothing between runs, and with    *)
(* both a third says who gives an active goal its next turn.               *)
(***************************************************************************)
EXTENDS GoalRuntime, TLAPS

\* Every field but the guard's, which most operations leave alone.
Shaped(m) ==
    m \in [goal : NoGoalOr, cap : BOOLEAN, rec : Recoveries,
           queuedFor : GoalIds \cup {Null}, timerFor : GoalIds \cup {Null},
           fallback : {"none", "armed", "overtaken"}, guard : {m.guard},
           warned : GoalIds \cup {Null}, queue : Seq(Messages), inbox : Seq(Messages)]

Mirrors(m) == m.rec.needsUser = m.cap

Good(m) == Shaped(m) /\ Mirrors(m)

\* The attention fits the goal, and an active goal has not overflowed twice.
Fit(m) ==
    /\ IsPending(m.rec) => IsActive(m)
    /\ m.rec.attention = "paused" => m.goal # Null /\ m.goal.status = "paused"
    /\ IsActive(m) => m.rec.attempts <= MaxContextCompactionRetries

\* Some message of the goal a turn is marked for is on its way, in a queue or
\* among the messages in e.
Marked(m, e) ==
    m.queuedFor # Null =>
      \E message \in ToSet(m.queue) \cup ToSet(m.inbox) \cup e : message.id = m.queuedFor

\* The goal, if there still is one, is the same.
SameId(m, n) == n.goal # Null => m.goal # Null /\ n.goal.id = m.goal.id

\* No continuation is timed while the host recovers from an overflow.
Orderly(m) == m.rec.recovering => m.timerFor = Null

\* A guard that owes nothing to a turn it aborted.
OwesNothing(g) ==
    /\ g = W!Idle \/ g.kind = "observing"
    /\ g.turnEnds = {} /\ g.agentEnds = <<>>

\* A guard that waits for the end of a run that works on some of the goals in
\* c.  It may have released the turn meanwhile.
Owes(g, c) ==
    \E o \in W!Obligations :
      /\ g.agentEnds = <<o>> /\ o.goalIds # {} /\ o.goalIds \subseteq c
      /\ \/ g.kind = "aborting" /\ o.phase = "active" /\ g.activeTurn = Turn
         \/ g.kind = "awaiting"

\* The host loses no end.  So in phase p, after a turn that ended as l says, of
\* a run that works on the goals in c, the guard owes only what is to come.
GuardOk(g, p, l, c) ==
    /\ g \in W!GuardStates
    /\ p = "turn" => g.stale \subseteq c
    /\ \/ OwesNothing(g) /\ p # "aborting"
       \/ Owes(g, c) /\ p = "aborting" /\ g.turnEnds \subseteq {Turn}
       \/ Owes(g, c) /\ p = "ended" /\ l = "aborted" /\ g.turnEnds = {}

Aborts(m) == m.guard.kind = "aborting"

\* An operation lets the guard alone, and sets no timer in a recovery.
Tame(m, n) == n.guard = m.guard /\ (Orderly(m) => Orderly(n))

\* An operation that sets no timer, begins no recovery and leaves the guard alone.
Eases(m, n) ==
    /\ n.guard = m.guard /\ n.fallback = m.fallback
    /\ n.timerFor \in {m.timerFor, Null}
    /\ n.rec.recovering => m.rec.recovering

\* What an operation from m to n that leaves the guard in g does not break.
Tells(m, n, g, e) ==
    /\ Good(n) /\ n.guard = g /\ (Orderly(m) => Orderly(n))
    /\ Fit(m) => Fit(n)
    /\ Marked(m, e) => Marked(n, e)
    /\ SameId(m, n)

\* What an operation from m to n does not break.
Keeps(m, n, e) == Tells(m, n, m.guard, e)

\* An active goal that no recovery holds back.
Wants(m) == IsActive(m) /\ ~IsPending(m.rec)

\* A message that will start a turn is on its way.
Coming(m, a) ==
    \/ m.queue # <<>> \/ a # NoMessage
    \/ \E message \in ToSet(m.inbox) : message.id = m.goal.id

\* A timer will ask for a turn.
Timed(m) ==
    \/ m.timerFor = m.goal.id
    \/ m.fallback = "armed" /\ m.rec.recovering

\* The goal that wants a turn will be given one.
Served(m, a) == Wants(m) => Coming(m, a) \/ Timed(m)

\* An operation that sends nothing, marks no goal and makes none.
Quiet(m, n) ==
    /\ SameId(m, n) /\ Tame(m, n)
    /\ n.queue = m.queue /\ n.inbox = m.inbox
    /\ n.queuedFor \in {m.queuedFor, Null}

-----------------------------------------------------------------------------
\* An operation that eases is tame, and so are two in a row.
LEMMA EasedIsTame ==
  ASSUME NEW m, NEW n, Eases(m, n)
  PROVE  /\ Tame(m, n)
         /\ \A k : Eases(n, k) => Eases(m, k)
BY DEF Eases, Tame, Orderly

\* A quiet operation keeps what it leaves well formed.
LEMMA QuietKeeps ==
  ASSUME NEW m, NEW n, NEW e, Quiet(m, n), Good(n), Fit(m) => Fit(n)
  PROVE  Keeps(m, n, e)
BY DEF Quiet, Marked, Keeps, Tells, Tame

\* Appending adds one element.
LEMMA AppendAdds ==
  ASSUME NEW S, NEW s \in Seq(S), NEW x \in S
  PROVE  ToSet(Append(s, x)) = ToSet(s) \cup {x}
<1>1. /\ DOMAIN Append(s, x) = 1..(Len(s) + 1) /\ DOMAIN s = 1..Len(s) /\ Len(s) \in Nat
      /\ \A i \in 1..Len(s) : Append(s, x)[i] = s[i]
      /\ Append(s, x)[Len(s) + 1] = x
  OBVIOUS
<1> QED BY <1>1 DEF ToSet

\* A sent message is on its way, and so are those sent before it.
LEMMA SendKeeps ==
  ASSUME NEW m, Good(m), NEW message \in Messages
  PROVE  LET n == Send(m, message)
         IN  /\ Good(n)
             /\ Fit(m) => Fit(n)
             /\ ToSet(n.queue) = ToSet(m.queue) \cup {message}
             /\ n.inbox = m.inbox /\ n.queuedFor = m.queuedFor /\ n.goal = m.goal
             /\ Eases(m, n) /\ Tame(m, n)
<1> DEFINE n == Send(m, message)
<1>1. m.queue \in Seq(Messages) /\ Append(m.queue, message) \in Seq(Messages)
  BY DEF Good, Shaped
<1>2. /\ Good(n) /\ n.queue = Append(m.queue, message)
      /\ n.inbox = m.inbox /\ n.queuedFor = m.queuedFor /\ n.goal = m.goal
      /\ n.rec = m.rec /\ Eases(m, n)
  BY <1>1 DEF Good, Shaped, Mirrors, Eases, Send
<1> HIDE DEF n
<1>3. Fit(m) => Fit(n)
  BY <1>2 DEF Fit, IsActive
<1> QED BY <1>1, <1>2, <1>3, AppendAdds, EasedIsTame DEF n

\* The same for the messages sent as the user's.
LEMMA SendUserKeeps ==
  ASSUME NEW m, Good(m), NEW message \in Messages
  PROVE  LET n == SendUser(m, message)
         IN  /\ Good(n)
             /\ Fit(m) => Fit(n)
             /\ ToSet(n.inbox) = ToSet(m.inbox) \cup {message}
             /\ n.queue = m.queue /\ n.queuedFor = m.queuedFor /\ n.goal = m.goal
             /\ Eases(m, n) /\ Tame(m, n)
<1> DEFINE n == SendUser(m, message)
<1>1. m.inbox \in Seq(Messages) /\ Append(m.inbox, message) \in Seq(Messages)
  BY DEF Good, Shaped
<1>2. /\ Good(n) /\ n.inbox = Append(m.inbox, message)
      /\ n.queue = m.queue /\ n.queuedFor = m.queuedFor /\ n.goal = m.goal
      /\ n.rec = m.rec /\ Eases(m, n)
  BY <1>1 DEF Good, Shaped, Mirrors, Eases, SendUser
<1> HIDE DEF n
<1>3. Fit(m) => Fit(n)
  BY <1>2 DEF Fit, IsActive
<1> QED BY <1>1, <1>2, <1>3, AppendAdds, EasedIsTame DEF n

\* The scheduler's clearing operations.
LEMMA ClearKeeps ==
  ASSUME NEW m, Good(m), NEW id, NEW e
  PROVE  /\ Keeps(m, ClearContinuationTimer(m), e)
         /\ Keeps(m, ClearContinuationState(m), e)
         /\ Keeps(m, ClearContinuationStateFor(m, id), e)
         /\ Eases(m, ClearContinuationTimer(m))
         /\ ClearContinuationState(m).queuedFor = Null
         /\ id # Null => ClearContinuationStateFor(m, id).queuedFor # id
<1>0. /\ Eases(m, ClearContinuationTimer(m)) /\ Eases(m, ClearContinuationState(m))
      /\ Eases(m, ClearContinuationStateFor(m, id))
  BY DEF Good, Shaped, Eases, ClearContinuationTimer, ClearContinuationState,
         ClearContinuationStateFor
<1>1. /\ Good(ClearContinuationTimer(m)) /\ Good(ClearContinuationState(m))
      /\ Good(ClearContinuationStateFor(m, id))
      /\ Quiet(m, ClearContinuationTimer(m)) /\ Quiet(m, ClearContinuationState(m))
      /\ Quiet(m, ClearContinuationStateFor(m, id))
      /\ ClearContinuationState(m).queuedFor = Null
      /\ id # Null => ClearContinuationStateFor(m, id).queuedFor # id
  BY <1>0, EasedIsTame DEF Good, Shaped, Mirrors, Quiet, SameId, ClearContinuationTimer,
         ClearContinuationState, ClearContinuationStateFor
<1>2. ASSUME Fit(m)
      PROVE  /\ Fit(ClearContinuationTimer(m)) /\ Fit(ClearContinuationState(m))
             /\ Fit(ClearContinuationStateFor(m, id))
  BY <1>2 DEF Good, Shaped, Fit, IsActive, ClearContinuationTimer, ClearContinuationState,
         ClearContinuationStateFor
<1> QED BY <1>0, <1>1, <1>2, QuietKeeps

\* A continuation is marked and sent in one step.
LEMMA MaybeContinueKeeps ==
  ASSUME NEW m, Good(m), NEW idle, NEW e
  PROVE  Keeps(m, MaybeContinue(m, idle), e)
<1>1. CASE ~CanPlanContinuation(m)
  BY <1>1 DEF MaybeContinue, Keeps, Tells, SameId, Tame
<1>2. CASE CanPlanContinuation(m) /\ (~idle \/ m.queue # <<>>)
  <2>1. Good(ScheduleContinuationCheck(m)) /\ Quiet(m, ScheduleContinuationCheck(m))
    BY <1>2 DEF Good, Shaped, Mirrors, Quiet, SameId, ScheduleContinuationCheck,
                CanPlanContinuation, IsActive, NoGoalOr, Goals, Tame, Orderly
  <2>2. Fit(m) => Fit(ScheduleContinuationCheck(m))
    BY DEF Good, Shaped, Fit, IsActive, ScheduleContinuationCheck
  <2> QED BY <1>2, <2>1, <2>2, QuietKeeps DEF MaybeContinue
<1>3. CASE CanPlanContinuation(m) /\ idle /\ m.queue = <<>>
  <2> DEFINE c == ClearContinuationTimer(m)
             message == Message("continuation", m.goal.id)
             s == Send(c, message)
             n == [s EXCEPT !.queuedFor = m.goal.id]
  <2>1. Good(c) /\ (Fit(m) => Fit(c)) /\ c.goal = m.goal /\ Eases(m, c)
    BY ClearKeeps DEF Keeps, Tells, Tame, Good, Shaped, ClearContinuationTimer
  <2>2. m.goal.id \in GoalIds /\ message \in Messages /\ message.id = m.goal.id
    BY <1>3 DEF Good, Shaped, CanPlanContinuation, IsActive, NoGoalOr, Goals, Messages,
                GoalKinds, Message
  <2>3. Good(s) /\ (Fit(c) => Fit(s)) /\ ToSet(s.queue) = ToSet(c.queue) \cup {message}
        /\ s.goal = c.goal /\ Eases(c, s)
    BY <2>1, <2>2, SendKeeps
  <2>4. SendContinuation(c) = n
    BY <2>1 DEF SendContinuation, Send, Good, Shaped
  <2> HIDE DEF c, s, message
  <2>5. Good(n) /\ (Fit(s) => Fit(n)) /\ n.queue = s.queue /\ n.queuedFor = m.goal.id
        /\ n.goal = s.goal /\ Eases(s, n)
    BY <2>2, <2>3 DEF Good, Shaped, Mirrors, Fit, IsActive, Eases
  <2>6. Marked(n, e)
    BY <2>2, <2>3, <2>5 DEF Marked
  <2>7. MaybeContinue(m, idle) = n
    BY <1>3, <2>4 DEF MaybeContinue, c
  <2>8. Tame(m, n)
    BY <2>1, <2>3, <2>5, EasedIsTame
  <2> QED BY <2>1, <2>3, <2>5, <2>6, <2>7, <2>8 DEF Keeps, Tells, Tame, SameId
<1> QED BY <1>1, <1>2, <1>3

\* Setting the timer after an event breaks nothing.
LEMMA MaybeContinueAfterCurrentEventKeeps ==
  ASSUME NEW m, Good(m), NEW e
  PROVE  Keeps(m, MaybeContinueAfterCurrentEvent(m), e)
<1>1. CASE ~CanPlanContinuation(m)
  BY <1>1 DEF MaybeContinueAfterCurrentEvent, Keeps, Tells, SameId, Tame
<1>2. CASE CanPlanContinuation(m)
  <2>1. Good(ScheduleContinuationCheck(m)) /\ Quiet(m, ScheduleContinuationCheck(m))
    BY <1>2 DEF Good, Shaped, Mirrors, Quiet, SameId, ScheduleContinuationCheck,
                CanPlanContinuation, IsActive, NoGoalOr, Goals, Tame, Orderly
  <2>2. Fit(m) => Fit(ScheduleContinuationCheck(m))
    BY DEF Good, Shaped, Fit, IsActive, ScheduleContinuationCheck
  <2> QED BY <1>2, <2>1, <2>2, QuietKeeps DEF MaybeContinueAfterCurrentEvent
<1> QED BY <1>1, <1>2

-----------------------------------------------------------------------------
(***************************************************************************)
(* The recovery machine, and changes of the goal.                          *)
(***************************************************************************)
\* What the operations of the recovery machine leave in the record.
LEMMA RecoveryTypes ==
  ASSUME NEW r \in Recoveries
  PROVE  /\ ClearHostOverflowActive(r) \in Recoveries
         /\ ClearHostOverflowActive(r).needsUser = r.needsUser
         /\ ClearHostOverflowActive(r).attention = r.attention
         /\ ClearHostOverflowActive(r).attempts = r.attempts
         /\ ResetCounters(r) \in Recoveries
         /\ ResetCounters(r).needsUser = r.needsUser
         /\ ResetCounters(r).attention = "none" /\ ResetCounters(r).attempts = 0
         /\ ResetMachine(r) \in Recoveries
         /\ ResetMachine(r).needsUser = r.needsUser
         /\ ResetMachine(r).attention = "none" /\ ResetMachine(r).attempts = 0
         /\ OnSessionCompact(r) \in Recoveries
         /\ OnSessionCompact(r).needsUser = r.needsUser
         /\ OnSessionCompact(r).attention \in {r.attention, "none"}
         /\ OnSessionCompact(r).attempts = r.attempts
         /\ ~ClearHostOverflowActive(r).recovering /\ ~ResetMachine(r).recovering
         /\ ResetCounters(r).recovering = r.recovering
         /\ OnSessionCompact(r).recovering = r.recovering
BY DEF Recoveries, Attentions, ClearHostOverflowActive, ResetCounters, ResetMachine,
       OnSessionCompact

\* A new record of recovery with the same flag keeps the memory good.
LEMMA NewRecovery ==
  ASSUME NEW m, Good(m), NEW r \in Recoveries, r.needsUser = m.rec.needsUser,
         r.recovering => m.rec.recovering
  PROVE  LET n == [m EXCEPT !.rec = r]
         IN  /\ Good(n) /\ n.rec = r /\ n.goal = m.goal /\ Quiet(m, n)
             /\ n.queuedFor = m.queuedFor /\ Eases(m, n)
<1>1. Eases(m, [m EXCEPT !.rec = r])
  BY DEF Good, Shaped, Eases
<1> QED BY <1>1, EasedIsTame DEF Good, Shaped, Mirrors, Quiet, SameId

\* Where the named effects leave the memory of a goal.
EffectsOf(m, n, effects) ==
    /\ Eases(m, n)
    /\ n.goal = m.goal /\ n.queue = m.queue /\ n.inbox = m.inbox
    /\ n.rec.attention = IF "setRecoveryPausedAttention" \in effects THEN "paused"
                         ELSE IF "resetRecovery" \in effects THEN "none" ELSE m.rec.attention
    /\ n.rec.attempts = IF "resetRecovery" \in effects THEN 0 ELSE m.rec.attempts
    /\ n.queuedFor = IF "markContinuationQueued" \in effects THEN m.goal.id
                     ELSE IF "clearContinuation" \in effects THEN Null ELSE m.queuedFor

\* The effects of a plan, one after the other in the code's order.
LEMMA EffectsDo ==
  ASSUME NEW m, Good(m), NEW effects, "markContinuationQueued" \in effects => m.goal \in Goals
  PROVE  Good(ApplyEffects(m, effects)) /\ EffectsOf(m, ApplyEffects(m, effects), effects)
<1> DEFINE a == IF "clearContinuation" \in effects THEN ClearContinuationState(m) ELSE m
           b == IF "resetRecovery" \in effects THEN ResetErrorRecovery(a) ELSE a
           c == IF "clearBudgetWarning" \in effects THEN [b EXCEPT !.warned = Null] ELSE b
           d == IF "clearHostOverflowRecovery" \in effects
                THEN [c EXCEPT !.rec = ClearHostOverflowActive(@)] ELSE c
           f == IF "setRecoveryPausedAttention" \in effects
                THEN [d EXCEPT !.rec.attention = "paused"] ELSE d
           n == IF "markContinuationQueued" \in effects
                THEN MarkContinuationQueued(f, f.goal.id) ELSE f
           Same(x, y) == /\ x.goal = y.goal /\ x.queue = y.queue /\ x.inbox = y.inbox
                         /\ Eases(y, x)
           SameRec(x, y) == x.rec.attention = y.rec.attention /\ x.rec.attempts = y.rec.attempts
<1>1. /\ Good(a) /\ Same(a, m) /\ SameRec(a, m)
      /\ a.queuedFor = IF "clearContinuation" \in effects THEN Null ELSE m.queuedFor
  BY DEF Good, Shaped, Mirrors, ClearContinuationState, Eases
<1> HIDE DEF a
<1>2. /\ Good(b) /\ Same(b, a) /\ b.queuedFor = a.queuedFor
      /\ b.rec.attention = IF "resetRecovery" \in effects THEN "none" ELSE a.rec.attention
      /\ b.rec.attempts = IF "resetRecovery" \in effects THEN 0 ELSE a.rec.attempts
  <2>1. a.rec \in Recoveries
    BY <1>1 DEF Good, Shaped
  <2>2. ResetErrorRecovery(a) = [a EXCEPT !.rec = ResetMachine(a.rec)]
    BY DEF ResetErrorRecovery
  <2> DEFINE k == [a EXCEPT !.rec = ResetMachine(a.rec)]
  <2>3. /\ Good(k) /\ Same(k, a) /\ k.queuedFor = a.queuedFor
        /\ k.rec.attention = "none" /\ k.rec.attempts = 0
    BY <1>1, <2>1, RecoveryTypes, NewRecovery DEF Quiet
  <2> HIDE DEF k
  <2> QED BY <1>1, <2>2, <2>3 DEF k, Eases
<1> HIDE DEF b
<1>3. Good(c) /\ Same(c, b) /\ SameRec(c, b) /\ c.queuedFor = b.queuedFor
  BY <1>2 DEF Good, Shaped, Mirrors, Eases
<1> HIDE DEF c
<1>4. Good(d) /\ Same(d, c) /\ SameRec(d, c) /\ d.queuedFor = c.queuedFor
  <2>1. c.rec \in Recoveries
    BY <1>3 DEF Good, Shaped
  <2> DEFINE k == [c EXCEPT !.rec = ClearHostOverflowActive(c.rec)]
  <2>2. Good(k) /\ Same(k, c) /\ SameRec(k, c) /\ k.queuedFor = c.queuedFor
    BY <1>3, <2>1, RecoveryTypes, NewRecovery DEF Quiet
  <2> HIDE DEF k
  <2>3. d \in {c, k}
    BY DEF k
  <2> HIDE DEF d
  <2> QED BY <1>3, <2>2, <2>3 DEF Eases
<1> HIDE DEF d
<1>5. /\ Good(f) /\ Same(f, d) /\ f.queuedFor = d.queuedFor
      /\ f.rec.attempts = d.rec.attempts
      /\ f.rec.attention = IF "setRecoveryPausedAttention" \in effects
                           THEN "paused" ELSE d.rec.attention
  <2>1. d.rec \in Recoveries
    BY <1>4 DEF Good, Shaped
  <2> DEFINE r == [d.rec EXCEPT !.attention = "paused"]
  <2>2. /\ r \in Recoveries /\ r.needsUser = d.rec.needsUser
        /\ r.attempts = d.rec.attempts /\ r.attention = "paused"
        /\ r.recovering = d.rec.recovering
    BY <2>1 DEF Recoveries, Attentions
  <2>3. [d EXCEPT !.rec.attention = "paused"] = [d EXCEPT !.rec = r]
    BY <1>4 DEF Good, Shaped
  <2> HIDE DEF r
  <2>4. CASE "setRecoveryPausedAttention" \in effects
    <3> DEFINE k == [d EXCEPT !.rec = r]
    <3>1. /\ Good(k) /\ k.rec = r /\ k.goal = d.goal /\ Quiet(d, k) /\ k.queuedFor = d.queuedFor
          /\ Eases(d, k)
      BY <1>4, <2>2, NewRecovery
    <3>2. f = k
      BY <2>3, <2>4
    <3> HIDE DEF k, f
    <3> QED BY <2>2, <2>4, <3>1, <3>2 DEF Quiet, SameId
  <2>5. CASE "setRecoveryPausedAttention" \notin effects
    BY <1>4, <2>5 DEF Eases
  <2> QED BY <2>4, <2>5
<1> HIDE DEF f
<1>6. /\ Good(n) /\ Same(n, f) /\ SameRec(n, f)
      /\ n.queuedFor = IF "markContinuationQueued" \in effects THEN m.goal.id ELSE f.queuedFor
  <2>1. f.goal = m.goal
    BY <1>1, <1>2, <1>3, <1>4, <1>5
  <2> QED BY <1>5, <2>1 DEF Good, Shaped, Mirrors, MarkContinuationQueued, Goals, Eases
<1>7. ApplyEffects(m, effects) = n
  BY DEF ApplyEffects, a, b, c, d, f
<1> HIDE DEF n
<1>8. Eases(m, n)
  BY <1>1, <1>2, <1>3, <1>4, <1>5, <1>6, EasedIsTame
<1> QED BY <1>1, <1>2, <1>3, <1>4, <1>5, <1>6, <1>7, <1>8 DEF EffectsOf

\* Where a change of the goal to next leaves the memory.
ChangeOf(m, n, next, before, after) ==
    /\ Eases(m, n)
    /\ n.goal = next /\ n.queue = m.queue /\ n.inbox = m.inbox
    /\ n.rec.attention = IF "resetRecovery" \in after THEN "none"
                         ELSE IF "setRecoveryPausedAttention" \in before THEN "paused"
                         ELSE IF "resetRecovery" \in before THEN "none" ELSE m.rec.attention
    /\ n.rec.attempts = IF "resetRecovery" \in before \cup after THEN 0 ELSE m.rec.attempts
    /\ n.queuedFor = IF "markContinuationQueued" \in after THEN next.id
                     ELSE IF "clearContinuation" \in before \cup after THEN Null
                     ELSE m.queuedFor

\* A transition: effects, the new goal, effects.
LEMMA TransitionDo ==
  ASSUME NEW m, Good(m), NEW next \in NoGoalOr, NEW before, NEW after,
         "markContinuationQueued" \notin before,
         "setRecoveryPausedAttention" \notin after,
         "markContinuationQueued" \in after => next \in Goals
  PROVE  /\ Good(Transition(m, next, before, after))
         /\ ChangeOf(m, Transition(m, next, before, after), next, before, after)
<1> DEFINE a == ApplyEffects(m, before)
           b == [a EXCEPT !.goal = next]
           n == ApplyEffects(b, after)
<1>1. Good(a) /\ EffectsOf(m, a, before)
  BY EffectsDo
<1> HIDE DEF a
<1>2. /\ Good(b) /\ b.goal = next /\ b.queue = a.queue /\ b.inbox = a.inbox
      /\ b.rec = a.rec /\ b.queuedFor = a.queuedFor /\ Eases(a, b)
  BY <1>1 DEF Good, Shaped, Mirrors, Eases
<1> HIDE DEF b
<1>3. Good(n) /\ EffectsOf(b, n, after)
  BY <1>2, EffectsDo
<1> HIDE DEF n
<1>4. Transition(m, next, before, after) = n
  BY DEF Transition, a, b, n
<1>5. Eases(m, n)
  BY <1>1, <1>2, <1>3, EasedIsTame DEF EffectsOf
<1> QED BY <1>1, <1>2, <1>3, <1>4, <1>5 DEF EffectsOf, ChangeOf

\* Operations that keep the memory do so one after the other.
LEMMA KeepsInTurn ==
  ASSUME NEW m, NEW n, NEW k, NEW e
  PROVE  /\ Keeps(m, n, e) /\ Keeps(n, k, e) => Keeps(m, k, e)
         /\ Keeps(m, n, e) => Tells(m, n, m.guard, e)
         /\ \A g, h : Tells(m, n, g, e) /\ Tells(n, k, h, e) => Tells(m, k, h, e)
         /\ \A g : Tells(m, n, g, e) /\ Keeps(n, k, e) => Tells(m, k, g, e)
BY DEF Keeps, Tells, SameId, Tame

\* The goal with another status is the same goal.
LEMMA SameGoal ==
  ASSUME NEW m, Good(m), m.goal # Null, NEW status \in Statuses
  PROVE  /\ WithStatus(m, status) \in Goals /\ WithStatus(m, status) \in NoGoalOr
         /\ WithStatus(m, status) # Null
         /\ WithStatus(m, status).id = m.goal.id
         /\ WithStatus(m, status).status = status
         /\ ~T!GoalIdChanged(m.goal, WithStatus(m, status))
BY NullAssumption DEF Good, Shaped, WithStatus, NoGoalOr, Goals, T!GoalIdChanged

\* A change that marks nothing keeps the mark; a change to a goal that is not
\* active, with recovery reset or paused, keeps the attention fitting.
LEMMA ChangeDoes ==
  ASSUME NEW m, Good(m), NEW next \in NoGoalOr, NEW before, NEW e,
         "markContinuationQueued" \notin before,
         \/ "setRecoveryPausedAttention" \in before
            /\ next \in Goals /\ next # Null /\ next.status = "paused"
         \/ "resetRecovery" \in before /\ "setRecoveryPausedAttention" \notin before
  PROVE  LET n == Transition(m, next, before, {})
         IN  Good(n) /\ Fit(n) /\ (Marked(m, e) => Marked(n, e)) /\ n.goal = next /\ Tame(m, n)
<1> DEFINE n == Transition(m, next, before, {})
<1>1. Good(n) /\ ChangeOf(m, n, next, before, {})
  BY TransitionDo
<1> HIDE DEF n
<1>2. Marked(m, e) => Marked(n, e)
  BY <1>1 DEF ChangeOf, Marked
<1>3. Fit(n)
  BY <1>1 DEF ChangeOf, Fit, IsPending, IsActive, MaxContextCompactionRetries
<1> QED BY <1>1, <1>2, <1>3, EasedIsTame DEF ChangeOf, n

\* The same, for a change that leaves the goal the goal it was.
LEMMA ChangeKeeps ==
  ASSUME NEW m, Good(m), NEW next \in NoGoalOr, NEW before, NEW e,
         "markContinuationQueued" \notin before,
         next # Null => m.goal # Null /\ next.id = m.goal.id,
         \/ "setRecoveryPausedAttention" \in before
            /\ next \in Goals /\ next # Null /\ next.status = "paused"
         \/ "resetRecovery" \in before /\ "setRecoveryPausedAttention" \notin before
  PROVE  /\ Keeps(m, Transition(m, next, before, {}), e)
         /\ Transition(m, next, before, {}).goal = next
<1> DEFINE n == Transition(m, next, before, {})
<1>1. Good(n) /\ Fit(n) /\ (Marked(m, e) => Marked(n, e)) /\ n.goal = next /\ Tame(m, n)
  BY ChangeDoes
<1> HIDE DEF n
<1> QED BY <1>1 DEF Keeps, Tells, Tame, SameId, n

\* pauseForAbort and pauseForRecoveryAttention.
LEMMA PausesKeep ==
  ASSUME NEW m, Good(m), NEW e
  PROVE  /\ Keeps(m, PauseForAbort(m), e)
         /\ Keeps(m, PauseForRecovery(m), e)
         /\ IsActive(m) => Fit(PauseForRecovery(m))
         /\ ~IsActive(PauseForAbort(m)) /\ ~IsActive(PauseForRecovery(m))
<1>1. CASE ~IsActive(m)
  BY <1>1 DEF PauseForAbort, PauseForRecovery, PauseWith, Keeps, Tells, SameId, Tame
<1>2. CASE IsActive(m)
  <2> DEFINE next == WithStatus(m, "paused")
             effects == T!MemoryEffects(m.goal, next)
  <2>1. next \in Goals /\ next \in NoGoalOr /\ next # Null /\ next.status = "paused"
        /\ ~T!GoalIdChanged(m.goal, next) /\ next.id = m.goal.id /\ m.goal # Null
    BY <1>2, SameGoal DEF IsActive, Statuses
  <2>2. /\ "markContinuationQueued" \notin effects
        /\ "setRecoveryPausedAttention" \notin effects
    BY <2>1 DEF T!MemoryEffects, T!ForgetGoal
  <2> HIDE DEF effects, next
  <2>4. /\ Keeps(m, Transition(m, next, T!ForgetGoal \cup effects, {}), e)
        /\ Transition(m, next, T!ForgetGoal \cup effects, {}).goal = next
    BY <2>1, <2>2, ChangeKeeps DEF T!ForgetGoal
  <2> DEFINE recovery == {"clearContinuation", "setRecoveryPausedAttention"} \cup effects
  <2>5. /\ Keeps(m, Transition(m, next, recovery, {}), e)
        /\ Fit(Transition(m, next, recovery, {}))
        /\ Transition(m, next, recovery, {}).goal = next
    <3>1. "setRecoveryPausedAttention" \in recovery /\ "markContinuationQueued" \notin recovery
      BY <2>2
    <3> HIDE DEF recovery
    <3> QED BY <2>1, <3>1, ChangeKeeps, ChangeDoes
  <2>6. ~IsActive(Transition(m, next, T!ForgetGoal \cup effects, {}))
        /\ ~IsActive(Transition(m, next, recovery, {}))
    BY <2>1, <2>4, <2>5 DEF IsActive
  <2> QED BY <1>2, <2>4, <2>5, <2>6 DEF PauseForAbort, PauseForRecovery, PauseWith, effects,
                                        next, recovery
<1> QED BY <1>1, <1>2

\* accountProgress, with a budget that may be crossed and a warning sent.
LEMMA AccountKeeps ==
  ASSUME NEW m, Good(m), NEW charge, NEW steers, NEW e
  PROVE  Keeps(m, AccountProgress(m, charge, steers), e)
<1>1. CASE ~IsActive(m) \/ charge = "nothing"
  BY <1>1 DEF AccountProgress, Keeps, Tells, SameId, Tame
<1>2. CASE IsActive(m) /\ charge = "usage"
  <2> DEFINE n == [m EXCEPT !.warned = Null]
  <2>1. Good(n) /\ Quiet(m, n) /\ n.goal = m.goal /\ n.rec = m.rec
    BY DEF Good, Shaped, Mirrors, Quiet, SameId, Tame, Orderly
  <2>2. AccountProgress(m, charge, steers) = n
    BY <1>2 DEF AccountProgress
  <2> HIDE DEF n
  <2> QED BY <2>1, <2>2, QuietKeeps DEF Fit, IsActive
<1>3. CASE IsActive(m) /\ charge \notin {"nothing", "usage"}
  <2> DEFINE next == WithStatus(m, "budgetLimited")
             effects == T!MemoryEffects(m.goal, next)
             limited == Transition(m, next, effects, {})
             warned == [limited EXCEPT !.warned = m.goal.id]
             message == Message("budget", Null)
  <2>1. /\ next \in NoGoalOr /\ next.status = "budgetLimited"
        /\ ~T!GoalIdChanged(m.goal, next) /\ next.id = m.goal.id /\ m.goal # Null
    BY <1>3, SameGoal DEF IsActive, Statuses
  <2>2. /\ "markContinuationQueued" \notin effects /\ "resetRecovery" \in effects
        /\ "setRecoveryPausedAttention" \notin effects
    BY <2>1 DEF T!MemoryEffects, T!ForgetGoal
  <2>3. Keeps(m, limited, e)
    <3> HIDE DEF next, effects
    <3> QED BY <2>1, <2>2, ChangeKeeps
  <2> HIDE DEF limited
  <2>4. m.goal.id \in GoalIds /\ Good(limited) /\ message \in Messages
    BY <1>3, <2>3 DEF IsActive, Good, Shaped, NoGoalOr, Goals, Keeps, Tells, Tame, SameId, Message, Messages
  <2>5. Good(warned) /\ Quiet(limited, warned) /\ (Fit(limited) => Fit(warned))
    BY <2>4 DEF Good, Shaped, Mirrors, Quiet, SameId, Fit, IsActive, Tame, Orderly
  <2> HIDE DEF warned, message
  <2>6. LET n == Send(warned, message)
        IN  Good(n) /\ (Fit(warned) => Fit(n)) /\ n.queuedFor = warned.queuedFor
              /\ ToSet(n.queue) = ToSet(warned.queue) \cup {message} /\ n.inbox = warned.inbox
              /\ n.goal = warned.goal /\ Tame(warned, n)
    BY <2>4, <2>5, SendKeeps
  <2>7. Keeps(warned, Send(warned, message), e)
    BY <2>6 DEF Keeps, Tells, Tame, SameId, Marked
  <2>8. Keeps(limited, Send(warned, message), e)
    BY <2>5, <2>7, QuietKeeps, KeepsInTurn
  <2>9. AccountProgress(m, charge, steers) \in {limited, Send(warned, message)}
    BY <1>3 DEF AccountProgress, BudgetCrossed, limited, warned, message
  <2> QED BY <2>3, <2>8, <2>9, KeepsInTurn
<1> QED BY <1>1, <1>2, <1>3

-----------------------------------------------------------------------------
(***************************************************************************)
(* Commands and tools.                                                     *)
(***************************************************************************)
\* The message that starts a goal's turn carries its id.
LEMMA StartMessagesKeep ==
  ASSUME NEW m, Good(m), m.goal \in Goals, NEW e
  PROVE  /\ Keeps(m, QueueGoalUserTurn(m), e)
         /\ \A a : Coming(QueueGoalUserTurn(m), a)
         /\ LET n == Send(m, Message("start", m.goal.id))
            IN  Good(n) /\ (Fit(m) => Fit(n)) /\ Tame(m, n) /\ \A a : Coming(n, a)
         /\ m.queuedFor = m.goal.id =>
              /\ Marked(QueueGoalUserTurn(m), e)
              /\ Marked(Send(m, Message("start", m.goal.id)), e)
<1> DEFINE prompt == Message("goalUser", m.goal.id)
           start == Message("start", m.goal.id)
<1>1. /\ prompt \in Messages /\ start \in Messages
      /\ prompt.id = m.goal.id /\ start.id = m.goal.id
  BY DEF Goals, Message, Messages, GoalKinds
<1>2. QueueGoalUserTurn(m) = SendUser(m, prompt)
  BY DEF QueueGoalUserTurn
<1> HIDE DEF prompt, start
<1>3. LET n == SendUser(m, prompt)
      IN  /\ Good(n) /\ (Fit(m) => Fit(n))
          /\ ToSet(n.inbox) = ToSet(m.inbox) \cup {prompt}
          /\ n.queue = m.queue /\ n.queuedFor = m.queuedFor /\ n.goal = m.goal
          /\ Tame(m, n)
  BY <1>1, SendUserKeeps
<1>4. LET n == Send(m, start)
      IN  /\ Good(n) /\ (Fit(m) => Fit(n))
          /\ ToSet(n.queue) = ToSet(m.queue) \cup {start}
          /\ n.inbox = m.inbox /\ n.queuedFor = m.queuedFor
          /\ Tame(m, n)
  BY <1>1, SendKeeps
<1>5. Keeps(m, SendUser(m, prompt), e)
  BY <1>3 DEF Keeps, Tells, Tame, SameId, Marked
<1>6. m.queuedFor = m.goal.id => Marked(SendUser(m, prompt), e) /\ Marked(Send(m, start), e)
  BY <1>1, <1>3, <1>4 DEF Marked
<1>7. \A a : Coming(SendUser(m, prompt), a) /\ Coming(Send(m, start), a)
  <2>1. \A message : message \notin ToSet(<<>>)
    BY DEF ToSet
  <2> QED BY <1>1, <1>3, <1>4, <2>1 DEF Coming
<1> QED BY <1>2, <1>4, <1>5, <1>6, <1>7 DEF start

\* /goal <objective>
LEMMA StartGoalKeeps ==
  ASSUME NEW m, Good(m), NEW id \in GoalIds, m.goal # Null => m.goal.id # id, NEW e
  PROVE  /\ Good(StartGoal(m, id)) /\ Fit(StartGoal(m, id)) /\ Marked(StartGoal(m, id), e)
         /\ StartGoal(m, id).goal = NewGoal(id)
         /\ Tame(m, StartGoal(m, id)) /\ \A a : Coming(StartGoal(m, id), a)
<1> DEFINE next == NewGoal(id)
           before == T!MemoryEffects(m.goal, next)
           after == T!CommandEffects(m.goal, next)
           set == Transition(m, next, before, after)
<1>1. next \in Goals /\ next \in NoGoalOr /\ next.id = id /\ next.status = "active"
  BY DEF NewGoal, Goals, NoGoalOr, Statuses
<1>2. T!GoalIdChanged(m.goal, next)
  BY <1>1 DEF T!GoalIdChanged
<1> HIDE DEF next
<1>3. /\ "markContinuationQueued" \notin before /\ "resetRecovery" \in before
      /\ "setRecoveryPausedAttention" \notin before
      /\ after = {"markContinuationQueued"}
  BY <1>1, <1>2 DEF T!MemoryEffects, T!ForgetGoal, T!CommandEffects
<1> HIDE DEF before, after
<1>4. Good(set) /\ ChangeOf(m, set, next, before, after)
  BY <1>1, <1>3, TransitionDo
<1> HIDE DEF set
<1>5. Fit(set) /\ set.queuedFor = set.goal.id /\ set.goal = next /\ Tame(m, set)
  BY <1>1, <1>3, <1>4, EasedIsTame DEF ChangeOf, Fit, IsPending, MaxContextCompactionRetries
<1> DEFINE started == Send(set, Message("start", set.goal.id))
<1>6. /\ Good(QueueGoalUserTurn(set)) /\ Fit(QueueGoalUserTurn(set))
      /\ Marked(QueueGoalUserTurn(set), e)
      /\ Good(started) /\ Fit(started) /\ Marked(started, e)
      /\ Tame(m, QueueGoalUserTurn(set)) /\ Tame(m, started)
      /\ \A a : Coming(QueueGoalUserTurn(set), a) /\ Coming(started, a)
  BY <1>1, <1>4, <1>5, StartMessagesKeep DEF Keeps, Tells, SameId, Tame
<1>7. QueueGoalUserTurn(set).goal = next /\ started.goal = next
  BY <1>4, <1>5 DEF QueueGoalUserTurn, Send, SendUser, Good, Shaped
<1>8. StartGoal(m, id) \in {QueueGoalUserTurn(set), started}
  BY <1>1, <1>5 DEF StartGoal, SetGoalByCommand, set, before, after, next
<1> HIDE DEF started
<1> QED BY <1>6, <1>7, <1>8 DEF next

\* /goal pause, /goal resume, /goal clear, and the dialog of a new session.
LEMMA CommandsKeep ==
  ASSUME NEW m, Good(m), m.goal # Null, NEW e
  PROVE  /\ IsActive(m) =>
              /\ Keeps(m, SetGoalByCommand(m, WithStatus(m, "paused")), e)
              /\ ~IsActive(SetGoalByCommand(m, WithStatus(m, "paused")))
         /\ m.goal.status = "paused" =>
              LET commanded == QueueGoalUserTurn(SetGoalByCommand(m, WithStatus(m, "active")))
                  resumed == QueueGoalUserTurn(ResumePausedGoal(m))
              IN  /\ Keeps(m, commanded, e) /\ \A a : Coming(commanded, a)
                  /\ Keeps(m, resumed, e) /\ \A a : Coming(resumed, a)
         /\ Keeps(m, ClearGoal(m), e) /\ ~IsActive(ClearGoal(m))
<1> DEFINE paused == WithStatus(m, "paused")
           active == WithStatus(m, "active")
<1>1. /\ paused \in Goals /\ paused \in NoGoalOr /\ paused.status = "paused"
      /\ active \in Goals /\ active \in NoGoalOr /\ active.status = "active"
      /\ active.id = m.goal.id /\ paused.id = m.goal.id
      /\ ~T!GoalIdChanged(m.goal, paused) /\ ~T!GoalIdChanged(m.goal, active)
  BY SameGoal DEF Statuses
<1>2. Keeps(m, ClearGoal(m), e) /\ ~IsActive(ClearGoal(m))
  BY ChangeKeeps DEF ClearGoal, T!ForgetGoal, NoGoalOr, IsActive
<1>3. ASSUME IsActive(m)
      PROVE  /\ Keeps(m, SetGoalByCommand(m, paused), e)
             /\ ~IsActive(SetGoalByCommand(m, paused))
  <2> DEFINE before == T!MemoryEffects(m.goal, paused)
             after == T!CommandEffects(m.goal, paused)
             n == Transition(m, paused, before, after)
  <2> HIDE DEF paused
  <2>1. /\ "markContinuationQueued" \notin before /\ "setRecoveryPausedAttention" \notin before
        /\ after = {"resetRecovery"}
    BY <1>1 DEF T!MemoryEffects, T!ForgetGoal, T!CommandEffects
  <2>2. SetGoalByCommand(m, paused) = n
    BY DEF SetGoalByCommand
  <2> HIDE DEF before, after
  <2>3. Good(n) /\ ChangeOf(m, n, paused, before, after)
    BY <1>1, <2>1, TransitionDo
  <2> HIDE DEF n
  <2>4. Quiet(m, n) /\ Fit(n) /\ ~IsActive(n)
    BY <1>1, <2>1, <2>3, EasedIsTame DEF ChangeOf, Quiet, SameId, Fit, IsPending, IsActive
  <2> QED BY <2>2, <2>3, <2>4, QuietKeeps
<1>4. ASSUME m.goal.status = "paused"
      PROVE  /\ Keeps(m, QueueGoalUserTurn(SetGoalByCommand(m, active)), e)
             /\ \A a : Coming(QueueGoalUserTurn(SetGoalByCommand(m, active)), a)
  <2> DEFINE before == T!MemoryEffects(m.goal, active)
             after == T!CommandEffects(m.goal, active)
             n == Transition(m, active, before, after)
  <2> HIDE DEF active
  <2>1. /\ "markContinuationQueued" \notin before /\ "setRecoveryPausedAttention" \notin before
        /\ after = {"markContinuationQueued", "resetRecovery"}
    BY <1>1, <1>4 DEF T!MemoryEffects, T!ForgetGoal, T!CommandEffects
  <2>2. SetGoalByCommand(m, active) = n
    BY DEF SetGoalByCommand
  <2> HIDE DEF before, after
  <2>3. Good(n) /\ ChangeOf(m, n, active, before, after)
    BY <1>1, <2>1, TransitionDo
  <2> HIDE DEF n
  <2>4. Fit(n) /\ n.goal \in Goals /\ n.queuedFor = n.goal.id /\ SameId(m, n) /\ Tame(m, n)
    BY <1>1, <2>1, <2>3, EasedIsTame DEF ChangeOf, SameId, Fit, IsPending,
                                         MaxContextCompactionRetries
  <2>5. /\ Keeps(n, QueueGoalUserTurn(n), e) /\ Marked(QueueGoalUserTurn(n), e)
        /\ \A a : Coming(QueueGoalUserTurn(n), a)
    BY <2>3, <2>4, StartMessagesKeep
  <2> QED BY <2>2, <2>4, <2>5 DEF Keeps, Tells, SameId, Tame
<1>5. ASSUME m.goal.status = "paused"
      PROVE  /\ Keeps(m, QueueGoalUserTurn(ResumePausedGoal(m)), e)
             /\ \A a : Coming(QueueGoalUserTurn(ResumePausedGoal(m)), a)
  <2> DEFINE effects == T!MemoryEffects(m.goal, active)
             before == {"clearContinuation", "resetRecovery"} \cup effects
             n == Transition(m, active, before, {})
  <2>1. ResumePausedGoal(m) = n
    BY DEF ResumePausedGoal
  <2> HIDE DEF active
  <2>2. /\ "markContinuationQueued" \notin before /\ "setRecoveryPausedAttention" \notin before
        /\ "resetRecovery" \in before
    BY <1>1 DEF T!MemoryEffects, T!ForgetGoal
  <2> HIDE DEF before
  <2>3. Keeps(m, n, e) /\ n.goal = active
    BY <1>1, <2>2, ChangeKeeps
  <2> HIDE DEF n
  <2>4. Keeps(n, QueueGoalUserTurn(n), e) /\ \A a : Coming(QueueGoalUserTurn(n), a)
    BY <1>1, <2>3, StartMessagesKeep DEF Keeps, Tells, Tame, SameId
  <2> QED BY <2>1, <2>3, <2>4, KeepsInTurn
<1> QED BY <1>2, <1>3, <1>4, <1>5

\* create_goal and update_goal.
LEMMA ToolsKeep ==
  ASSUME NEW m, Good(m), NEW e
  PROVE  /\ \A id \in GoalIds : (m.goal # Null => m.goal.id # id)
              => LET n == SetGoalByTool(m, NewGoal(id))
                 IN  /\ Good(n) /\ Fit(n) /\ (Marked(m, e) => Marked(n, e))
                     /\ n.goal = NewGoal(id) /\ Tame(m, n)
         /\ m.goal # Null => Keeps(m, SetGoalByTool(m, WithStatus(m, "complete")), e)
<1>1. ASSUME NEW id \in GoalIds, m.goal # Null => m.goal.id # id
      PROVE  LET n == SetGoalByTool(m, NewGoal(id))
             IN  /\ Good(n) /\ Fit(n) /\ (Marked(m, e) => Marked(n, e))
                     /\ n.goal = NewGoal(id) /\ Tame(m, n)
  <2>1. NewGoal(id) \in NoGoalOr /\ NewGoal(id).status = "active" /\ NewGoal(id).id = id
    BY DEF NewGoal, Goals, NoGoalOr, Statuses
  <2>2. T!GoalIdChanged(m.goal, NewGoal(id))
    BY <1>1, <2>1 DEF T!GoalIdChanged
  <2>3. LET effects == T!MemoryEffects(m.goal, NewGoal(id))
        IN  /\ "markContinuationQueued" \notin effects /\ "resetRecovery" \in effects
            /\ "setRecoveryPausedAttention" \notin effects
    BY <2>2 DEF T!MemoryEffects, T!ForgetGoal
  <2> QED BY <2>1, <2>3, ChangeDoes DEF SetGoalByTool
<1>2. ASSUME m.goal # Null
      PROVE  Keeps(m, SetGoalByTool(m, WithStatus(m, "complete")), e)
  <2> DEFINE next == WithStatus(m, "complete")
  <2>1. next \in NoGoalOr /\ next.status = "complete" /\ next.id = m.goal.id
    BY <1>2, SameGoal DEF Statuses
  <2> HIDE DEF next
  <2>2. LET effects == T!MemoryEffects(m.goal, next)
        IN  /\ "markContinuationQueued" \notin effects /\ "resetRecovery" \in effects
            /\ "setRecoveryPausedAttention" \notin effects
    BY <2>1 DEF T!MemoryEffects, T!ForgetGoal
  <2> QED BY <1>2, <2>1, <2>2, ChangeKeeps DEF SetGoalByTool, next
<1> QED BY <1>1, <1>2

-----------------------------------------------------------------------------
(***************************************************************************)
(* The recovery machine in the memory.                                     *)
(***************************************************************************)
\* Operations that calm the recovery down.
LEMMA CalmerKeeps ==
  ASSUME NEW m, Good(m), NEW r \in Recoveries, NEW e,
         r.needsUser = m.rec.needsUser,
         r.attention \in {m.rec.attention, "none"}, r.attempts <= m.rec.attempts,
         r.recovering => m.rec.recovering
  PROVE  Keeps(m, [m EXCEPT !.rec = r], e)
<1> DEFINE n == [m EXCEPT !.rec = r]
<1>1. Good(n) /\ n.rec = r /\ n.goal = m.goal /\ Quiet(m, n)
  BY NewRecovery
<1>2. m.rec.attempts \in Nat /\ r.attempts \in Nat
  BY DEF Good, Shaped, Recoveries
<1> HIDE DEF n
<1>3. Fit(m) => Fit(n)
  BY <1>1, <1>2 DEF Fit, IsPending, IsActive, MaxContextCompactionRetries
<1> QED BY <1>1, <1>3, QuietKeeps DEF n

\* The resets of the recovery machine, by users, successes and compactions.
LEMMA ResetsKeep ==
  ASSUME NEW m, Good(m), NEW e
  PROVE  /\ Keeps(m, ResetErrorRecovery(m), e)
         /\ Keeps(m, [m EXCEPT !.rec = ResetCounters(@)], e)
         /\ Keeps(m, [m EXCEPT !.rec = OnSessionCompact(@)], e)
         /\ Keeps(m, [m EXCEPT !.rec = ClearHostOverflowActive(@)], e)
<1>1. m.rec \in Recoveries /\ m.rec.attempts \in Nat
  BY DEF Good, Shaped, Recoveries
<1>2. /\ Keeps(m, [m EXCEPT !.rec = ResetMachine(m.rec)], e)
      /\ Keeps(m, [m EXCEPT !.rec = ResetCounters(m.rec)], e)
      /\ Keeps(m, [m EXCEPT !.rec = OnSessionCompact(m.rec)], e)
      /\ Keeps(m, [m EXCEPT !.rec = ClearHostOverflowActive(m.rec)], e)
  <2>1. 0 <= m.rec.attempts /\ m.rec.attempts <= m.rec.attempts
    BY <1>1
  <2>2. Keeps(m, [m EXCEPT !.rec = ResetMachine(m.rec)], e)
    BY <1>1, <2>1, RecoveryTypes, CalmerKeeps
  <2>3. Keeps(m, [m EXCEPT !.rec = ResetCounters(m.rec)], e)
    BY <1>1, <2>1, RecoveryTypes, CalmerKeeps
  <2>4. Keeps(m, [m EXCEPT !.rec = OnSessionCompact(m.rec)], e)
    BY <1>1, <2>1, RecoveryTypes, CalmerKeeps
  <2>5. Keeps(m, [m EXCEPT !.rec = ClearHostOverflowActive(m.rec)], e)
    BY <1>1, <2>1, RecoveryTypes, CalmerKeeps
  <2> QED BY <2>2, <2>3, <2>4, <2>5
<1> QED BY <1>2 DEF ResetErrorRecovery

\* The guard is told of an event.
LEMMA GuardTold ==
  ASSUME NEW m, Good(m), NEW e, NEW guard
  PROVE  Tells(m, [m EXCEPT !.guard = guard], guard, e)
<1> DEFINE n == [m EXCEPT !.guard = guard]
<1>1. /\ Good(n) /\ n.rec = m.rec /\ n.goal = m.goal /\ n.guard = guard
      /\ n.queue = m.queue /\ n.inbox = m.inbox /\ n.queuedFor = m.queuedFor
      /\ n.timerFor = m.timerFor
  BY DEF Good, Shaped, Mirrors
<1> HIDE DEF n
<1> QED BY <1>1 DEF n, Tells, Fit, IsActive, Marked, SameId, Orderly

\* Nor is the fallback timer.
LEMMA FallbackChangeKeeps ==
  ASSUME NEW m, Good(m), NEW e, NEW fallback \in {"none", "armed", "overtaken"}
  PROVE  Keeps(m, [m EXCEPT !.fallback = fallback], e)
<1> DEFINE n == [m EXCEPT !.fallback = fallback]
<1>1. Good(n) /\ Quiet(m, n) /\ n.rec = m.rec /\ n.goal = m.goal
  BY DEF Good, Shaped, Mirrors, Quiet, SameId, Tame, Orderly
<1> HIDE DEF n
<1>2. Fit(m) => Fit(n)
  BY <1>1 DEF Fit, IsActive
<1> QED BY <1>1, <1>2, QuietKeeps DEF n

\* An overflow sets the flag in memory and, if it was not set, in the log.
LEMMA OverflowKeeps ==
  ASSUME NEW m, Good(m), NEW e
  PROVE  Keeps(m, BeginOverflowRecovery(m), e) /\ ~Wants(BeginOverflowRecovery(m))
<1> DEFINE r == IF IsActive(m) THEN BeginHostOverflowRecovery(m.rec)
                ELSE RequireUserReset(m.rec)
           n == BeginOverflowRecovery(m)
<1>1. /\ r \in Recoveries /\ r.needsUser = TRUE /\ r.attempts = m.rec.attempts
      /\ r.attention = IF IsActive(m) THEN "hostOverflow" ELSE m.rec.attention
      /\ ~IsActive(m) => r.recovering = m.rec.recovering
  BY DEF Good, Shaped, Recoveries, Attentions, BeginHostOverflowRecovery, RequireUserReset,
         ApplyPersistedUserReset
<1> HIDE DEF r
<1>2. OverflowBegun(m) = IF IsActive(m) THEN [ClearContinuationState(m) EXCEPT !.rec = r]
                         ELSE [m EXCEPT !.rec = r]
  BY DEF OverflowBegun, r, ClearContinuationState, Good, Shaped
<1> DEFINE o == OverflowBegun(m)
<1>3. /\ o.rec = r /\ Shaped(o) /\ o.cap = m.cap /\ o.goal = m.goal
      /\ o.queue = m.queue /\ o.inbox = m.inbox /\ o.queuedFor \in {m.queuedFor, Null}
      /\ o.guard = m.guard /\ o.timerFor = IF IsActive(m) THEN Null ELSE m.timerFor
  <2>1. CASE IsActive(m)
    BY <1>1, <1>2, <2>1 DEF ClearContinuationState, Good, Shaped
  <2>2. CASE ~IsActive(m)
    BY <1>1, <1>2, <2>2 DEF Good, Shaped
  <2> QED BY <2>1, <2>2
<1> HIDE DEF o
<1>4. n = IF m.rec.needsUser THEN o ELSE [o EXCEPT !.cap = TRUE]
  BY DEF BeginOverflowRecovery, o
<1>5. /\ n.rec = r /\ Shaped(n) /\ n.cap = TRUE /\ n.goal = m.goal
      /\ n.queue = m.queue /\ n.inbox = m.inbox /\ n.queuedFor \in {m.queuedFor, Null}
      /\ n.guard = m.guard /\ n.timerFor = IF IsActive(m) THEN Null ELSE m.timerFor
  BY <1>3, <1>4 DEF Good, Shaped, Mirrors
<1> HIDE DEF n
<1>9. Tame(m, n)
  BY <1>1, <1>5 DEF Tame, Orderly
<1>10. Quiet(m, n)
  BY <1>5, <1>9 DEF Quiet, SameId
<1>6. Good(n)
  BY <1>1, <1>5 DEF Good, Mirrors
<1>7. Fit(m) => Fit(n)
  BY <1>1, <1>5 DEF Fit, IsPending, IsActive
<1>8. ~Wants(n)
  BY <1>1, <1>5 DEF Wants, IsPending, IsActive
<1> QED BY <1>6, <1>7, <1>8, <1>10, QuietKeeps DEF n

\* persistHostOverflowUserReset writes the flag where it changes it.
LEMMA PersistResetKeeps ==
  ASSUME NEW m, Good(m), NEW needsReset \in BOOLEAN, NEW e
  PROVE  Keeps(m, PersistUserReset(m, needsReset), e)
<1> DEFINE n == PersistUserReset(m, needsReset)
<1>1. Good(n) /\ Quiet(m, n) /\ n.goal = m.goal
      /\ n.rec.attention = m.rec.attention /\ n.rec.attempts = m.rec.attempts
  BY DEF PersistUserReset, ApplyPersistedUserReset, Good, Shaped, Mirrors, Quiet, SameId,
         Recoveries, Tame, Orderly
<1> HIDE DEF n
<1>2. Fit(m) => Fit(n)
  BY <1>1 DEF Fit, IsPending, IsActive
<1> QED BY <1>1, <1>2, QuietKeeps DEF n

\* The overflow that is counted once too often pauses the goal.
LEMMA ErrorKeeps ==
  ASSUME NEW m, Good(m), NEW outcome \in Errors \cup {"silent"}, NEW e
  PROVE  /\ Keeps(m, HandlePersistentError(m, outcome), e)
         /\ (IsOverflow(outcome) => ~Wants(m)) => ~Wants(HandlePersistentError(m, outcome))
<1> DEFINE plan == PlanForOutcome(m.rec, outcome)
           noted == [m EXCEPT !.rec = plan.rec]
<1>1. CASE ~IsActive(m)
  BY <1>1 DEF HandlePersistentError, Keeps, Tells, SameId, Tame, Wants
<1>2. CASE IsActive(m)
  <2>1. /\ plan.rec \in Recoveries /\ plan.rec.needsUser = m.rec.needsUser
        /\ plan.rec.attention = m.rec.attention
        /\ plan.action = "noop" => plan.rec.attempts <= MaxContextCompactionRetries
        /\ plan.action = "pending" => plan.rec.attempts = m.rec.attempts
        /\ plan.action \in {"noop", "pause", "pending"}
        /\ plan.action = "noop" => IsOverflow(outcome)
        /\ plan.rec.recovering = m.rec.recovering
    BY DEF PlanForOutcome, PlanForOverflow, IsOverflow, Errors, Action, Good, Shaped, Recoveries,
           MaxContextCompactionRetries
  <2> HIDE DEF plan
  <2>2. Good(noted) /\ noted.rec = plan.rec /\ noted.goal = m.goal /\ Quiet(m, noted)
    BY <2>1, NewRecovery
  <2> HIDE DEF noted
  <2>3. IsActive(noted) /\ SameId(m, noted)
    BY <1>2, <2>2 DEF IsActive, Quiet
  <2>4. CASE plan.action = "noop"
    <3>1. Fit(m) => Fit(noted)
      BY <2>1, <2>2, <2>3, <2>4 DEF Fit
    <3>2. HandlePersistentError(m, outcome) = noted
      BY <1>2, <2>4 DEF HandlePersistentError, noted, plan
    <3>3. ~Wants(m) => ~Wants(noted)
      BY <2>1, <2>2 DEF Wants, IsActive, IsPending
    <3> QED BY <2>1, <2>2, <2>4, <3>1, <3>2, <3>3, QuietKeeps
  <2>5. CASE plan.action = "pause"
    <3>1. HandlePersistentError(m, outcome) = PauseForRecovery(noted)
      BY <1>2, <2>5 DEF HandlePersistentError, noted, plan
    <3>2. /\ Keeps(noted, PauseForRecovery(noted), e) /\ Fit(PauseForRecovery(noted))
          /\ ~IsActive(PauseForRecovery(noted))
      BY <2>2, <2>3, PausesKeep
    <3>3. Marked(m, e) => Marked(noted, e)
      BY <2>2 DEF Quiet, Marked
    <3> QED BY <2>2, <2>3, <3>1, <3>2, <3>3 DEF Keeps, Tells, SameId, Quiet, Tame, Wants
  <2>6. CASE plan.action = "pending"
    <3> DEFINE n == [ClearContinuationState(noted) EXCEPT !.rec.attention = "provider"]
    <3>1. /\ Good(n) /\ n.goal = noted.goal /\ n.queue = noted.queue /\ n.inbox = noted.inbox
          /\ n.queuedFor = Null
          /\ n.rec.attention = "provider" /\ n.rec.attempts = noted.rec.attempts
          /\ Eases(noted, n)
      BY <2>2 DEF ClearContinuationState, Good, Shaped, Mirrors, Recoveries, Attentions, Eases
    <3> HIDE DEF n
    <3>2. Fit(m) => Fit(n)
      BY <2>1, <2>2, <2>3, <2>6, <3>1 DEF Fit, IsActive
    <3>3. HandlePersistentError(m, outcome) = n
      BY <1>2, <2>6 DEF HandlePersistentError, noted, plan, n
    <3>4. Quiet(m, n) /\ ~Wants(n)
      BY <2>2, <3>1, EasedIsTame DEF Quiet, SameId, Tame, Wants, IsPending
    <3> QED BY <3>1, <3>2, <3>3, <3>4, QuietKeeps
  <2> QED BY <2>1, <2>4, <2>5, <2>6
<1> QED BY <1>1, <1>2

-----------------------------------------------------------------------------
(***************************************************************************)
(* The invariant, and steps of operations that keep the memory.            *)
(***************************************************************************)
\* Between two processes only the goal and the flag in the log are left.
Closed ==
    /\ mem = FreshMemory(mem.goal, mem.cap)
    /\ phase = "idle" /\ retry = FALSE /\ accepted = NoMessage

\* Ids are given out once, so a new goal never has the id of an older one.
Issued ==
    /\ mem.goal # Null => mem.goal.id \in used
    /\ older.goal # Null => older.goal.id \in used

Inv ==
    /\ open => Good(mem)
    /\ ~open => Closed
    /\ mem.goal \in NoGoalOr /\ mem.cap \in BOOLEAN
    /\ Marked(mem, {accepted})
    /\ accepted \in Messages \cup {NoMessage}
    /\ older \in [goal : NoGoalOr, cap : BOOLEAN]
    /\ Issued

\* What a step gives that leaves the guard in g, and is no move in the tree.
StepDone(g) ==
    /\ Inv' /\ mem'.guard = g
    /\ Fit(mem) => Fit(mem)'
    /\ Orderly(mem) => Orderly(mem')

\* A step of the system that is an operation which tells the guard and keeps
\* the rest of the memory.
LEMMA ToldStep ==
  ASSUME Inv, open, NEW g, Tells(mem, mem', g, {accepted}),
         UNCHANGED <<open, accepted, older, used>>
  PROVE  StepDone(g)
BY DEF StepDone, Inv, Tells, SameId, Issued, Good, Shaped, Mirrors, Fit, IsPending, IsActive, Marked

\* A step of the system that is an operation which keeps the memory.
LEMMA KeptStep ==
  ASSUME Inv, open, Keeps(mem, mem', {accepted}), UNCHANGED <<open, accepted, older, used>>
  PROVE  StepDone(mem.guard)
BY ToldStep DEF Keeps, Tells, Tame

\* Nothing runs before a session starts.
LEMMA OnlyWhenOpen ==
  ASSUME Inv,
         \/ phase # "idle" \/ retry \/ accepted # NoMessage
         \/ mem.queue # <<>> \/ mem.inbox # <<>> \/ mem.timerFor # Null \/ mem.fallback # "none"
  PROVE  open
BY DEF Inv, Closed, FreshMemory

\* A step that leaves the memory alone.
LEMMA SameMemory ==
  ASSUME Inv, UNCHANGED <<mem, open, accepted, used>>,
         older' = older \/ older' = [goal |-> mem.goal, cap |-> mem.cap],
         ~open => UNCHANGED <<phase, retry>>
  PROVE  StepDone(mem.guard)
<1> QED BY DEF StepDone, Inv, Closed, Issued, Good, Shaped, Mirrors, Fit, IsPending, IsActive,
            Marked, FreshMemory

\* The first process starts from an empty log.
LEMMA InitInv == Init => Inv /\ Fit(mem)
<1> SUFFICES ASSUME Init PROVE Inv /\ Fit(mem)
  OBVIOUS
<1>1. /\ mem.goal = Null /\ mem.cap = FALSE /\ mem.rec = FreshRecovery /\ mem.queuedFor = Null
      /\ mem = FreshMemory(Null, FALSE)
  BY DEF Init, FreshMemory
<1>2. Fit(mem)
  BY <1>1 DEF Fit, IsPending, IsActive, FreshRecovery
<1>3. Marked(mem, {accepted})
  BY <1>1 DEF Marked
<1> QED BY <1>1, <1>2, <1>3 DEF Init, Inv, Closed, Issued, NoGoalOr

-----------------------------------------------------------------------------
(***************************************************************************)
(* Commands and tools.                                                     *)
(***************************************************************************)
\* /goal <objective>, /goal pause, /goal resume and /goal clear.
LEMMA CommandSteps ==
  ASSUME Inv, \/ \E id \in GoalIds : CommandStart(id)
              \/ CommandPause \/ CommandResume \/ CommandClear
  PROVE  StepDone(mem.guard)
<1>1. open /\ Good(mem)
  BY DEF CommandStart, CommandPause, CommandResume, CommandClear, Commanded, Inv
<1>2. ASSUME NEW id \in GoalIds, CommandStart(id) PROVE StepDone(mem.guard)
  <2> DEFINE n == StartGoal(mem, id)
  <2>1. /\ mem' = n /\ UNCHANGED <<open, accepted, older>> /\ used' = used \cup {id}
        /\ mem.goal # Null => mem.goal.id # id
    BY <1>2 DEF CommandStart, Commanded, Inv, Issued
  <2>2. /\ Good(n) /\ Fit(n) /\ Marked(n, {accepted}) /\ n.goal = NewGoal(id)
        /\ Tame(mem, n)
    BY <1>1, <2>1, StartGoalKeeps
  <2> HIDE DEF n
  <2>3. n.goal.id = id /\ n.goal \in NoGoalOr /\ n.cap \in BOOLEAN
    BY <2>2 DEF NewGoal, Good, Shaped
  <2>4. Good(mem)' /\ Fit(mem)' /\ Marked(mem, {accepted})'
    BY <2>1, <2>2 DEF Good, Shaped, Mirrors, Fit, IsPending, IsActive, Marked
  <2>5. Tame(mem, mem')
    BY <2>1, <2>2
  <2> QED BY <1>1, <2>1, <2>3, <2>4, <2>5 DEF StepDone, Inv, Issued, Tame
<1>3. CASE CommandPause
  <2>1. Keeps(mem, mem', {accepted})
    BY <1>1, <1>3, CommandsKeep DEF CommandPause, Commanded, IsActive
  <2> QED BY <1>1, <1>3, <2>1, KeptStep DEF CommandPause, Commanded
<1>4. CASE CommandResume
  <2>1. mem.goal \in Goals
    BY <1>1, <1>4 DEF CommandResume, Good, Shaped, NoGoalOr
  <2>2. Keeps(mem, mem', {accepted})
    BY <1>1, <1>4, <2>1, CommandsKeep, StartMessagesKeep DEF CommandResume, Commanded
  <2>3. UNCHANGED <<open, accepted, older, used>>
    BY <1>4 DEF CommandResume, Commanded
  <2> QED BY <1>1, <2>2, <2>3, KeptStep
<1>5. CASE CommandClear
  <2>1. Keeps(mem, mem', {accepted})
    BY <1>1, <1>5, CommandsKeep DEF CommandClear, Commanded
  <2> QED BY <1>1, <1>5, <2>1, KeptStep DEF CommandClear, Commanded
<1> QED BY <1>2, <1>3, <1>4, <1>5

\* create_goal gives out a new id; update_goal completes the goal.
LEMMA ToolSteps ==
  ASSUME Inv, (\E id \in GoalIds : ToolCreateGoal(id)) \/ ToolCompleteGoal
  PROVE  StepDone(mem.guard)
<1>1. open /\ Good(mem)
  BY OnlyWhenOpen DEF ToolCreateGoal, ToolCompleteGoal, ToolUsed, Inv
<1>2. ASSUME NEW id \in GoalIds, ToolCreateGoal(id) PROVE StepDone(mem.guard)
  <2> DEFINE n == SetGoalByTool(mem, NewGoal(id))
  <2>1. /\ mem' = n /\ UNCHANGED <<open, accepted, older>> /\ used' = used \cup {id}
        /\ mem.goal # Null => mem.goal.id # id
    BY <1>2 DEF ToolCreateGoal, ToolUsed, Inv, Issued
  <2>2. /\ Good(n) /\ Fit(n) /\ n.goal = NewGoal(id) /\ Tame(mem, n)
        /\ Marked(mem, {accepted}) => Marked(n, {accepted})
    BY <1>1, <2>1, ToolsKeep
  <2> HIDE DEF n
  <2>3. n.goal.id = id /\ n.goal \in NoGoalOr /\ n.cap \in BOOLEAN
    BY <2>2 DEF NewGoal, Good, Shaped
  <2>4. Good(mem)' /\ Fit(mem)' /\ (Marked(mem, {accepted}) => Marked(mem, {accepted})')
    BY <2>1, <2>2 DEF Good, Shaped, Mirrors, Fit, IsPending, IsActive, Marked
  <2>5. Tame(mem, mem')
    BY <2>1, <2>2
  <2> QED BY <1>1, <2>1, <2>3, <2>4, <2>5 DEF StepDone, Inv, Issued, Tame
<1>3. CASE ToolCompleteGoal
  <2>1. Keeps(mem, mem', {accepted})
    BY <1>1, <1>3, ToolsKeep DEF ToolCompleteGoal, ToolUsed
  <2> QED BY <1>1, <1>3, <2>1, KeptStep DEF ToolCompleteGoal, ToolUsed
<1> QED BY <1>2, <1>3

-----------------------------------------------------------------------------
(***************************************************************************)
(* Input and the delivery of messages.                                     *)
(***************************************************************************)
\* A sequence is its head and its tail.
LEMMA HeadAndTail ==
  ASSUME NEW S, NEW s \in Seq(S), s # <<>>
  PROVE  /\ Head(s) \in S /\ Tail(s) \in Seq(S)
         /\ ToSet(s) = ToSet(Tail(s)) \cup {Head(s)}
<1>1. /\ Head(s) \in S /\ Tail(s) \in Seq(S) /\ Head(s) = s[1]
      /\ Len(s) \in Nat \ {0} /\ Len(Tail(s)) = Len(s) - 1
      /\ DOMAIN s = 1..Len(s) /\ DOMAIN Tail(s) = 1..Len(Tail(s))
      /\ \A i \in 1..Len(Tail(s)) : Tail(s)[i] = s[i + 1]
  OBVIOUS
<1>2. \A i \in 1..Len(s) : i = 1 \/ (i - 1 \in 1..Len(Tail(s)) /\ s[i] = Tail(s)[i - 1])
  BY <1>1
<1>3. ToSet(s) \subseteq ToSet(Tail(s)) \cup {Head(s)}
  <2> SUFFICES ASSUME NEW i \in 1..Len(s) PROVE s[i] \in ToSet(Tail(s)) \cup {Head(s)}
    BY <1>1 DEF ToSet
  <2>1. CASE i = 1
    BY <1>1, <2>1
  <2>2. CASE i # 1
    <3>1. i - 1 \in 1..Len(Tail(s)) /\ s[i] = Tail(s)[i - 1]
      BY <1>2, <2>2
    <3> QED BY <1>1, <3>1 DEF ToSet
  <2> QED BY <2>1, <2>2
<1>4. ToSet(Tail(s)) \cup {Head(s)} \subseteq ToSet(s)
  <2>1. 1 \in 1..Len(s) /\ \A i \in 1..Len(Tail(s)) : i + 1 \in 1..Len(s)
    BY <1>1
  <2> QED BY <1>1, <2>1 DEF ToSet
<1> QED BY <1>1, <1>3, <1>4

\* Removing one position loses at most the element there.
LEMMA AllButOne ==
  ASSUME NEW S, NEW s \in Seq(S), NEW i \in DOMAIN s
  PROVE  /\ RemoveAt(s, i) \in Seq(S)
         /\ ToSet(s) \subseteq ToSet(RemoveAt(s, i)) \cup {s[i]}
<1> DEFINE a == SubSeq(s, 1, i - 1)
           b == SubSeq(s, i + 1, Len(s))
<1>1. /\ Len(s) \in Nat /\ DOMAIN s = 1..Len(s) /\ i \in 1..Len(s)
  OBVIOUS
<1>2. /\ a \in Seq(S) /\ Len(a) = i - 1 /\ \A j \in 1..(i - 1) : a[j] = s[j]
  BY <1>1
<1>3. /\ b \in Seq(S) /\ Len(b) = Len(s) - i
      /\ \A j \in 1..(Len(s) - i) : b[j] = s[i + j]
  BY <1>1
<1> HIDE DEF a, b
<1> DEFINE c == a \o b
<1>4. /\ c \in Seq(S) /\ DOMAIN c = 1..(Len(a) + Len(b))
      /\ \A j \in 1..(Len(a) + Len(b)) : c[j] = IF j <= Len(a) THEN a[j] ELSE b[j - Len(a)]
  BY <1>2, <1>3
<1>5. RemoveAt(s, i) = c
  BY DEF RemoveAt, a, b
<1> HIDE DEF c
<1>6. ASSUME NEW j \in 1..Len(s), j # i PROVE \E k \in DOMAIN c : c[k] = s[j]
  <2>1. CASE j < i
    <3>1. j \in 1..(i - 1) /\ j \in 1..((i - 1) + (Len(s) - i)) /\ j <= i - 1
      BY <1>1, <2>1
    <3> QED BY <1>2, <1>3, <1>4, <3>1
  <2>2. CASE j > i
    <3> DEFINE k == j - 1
    <3>1. /\ k \in 1..((i - 1) + (Len(s) - i)) /\ ~(k <= i - 1)
          /\ k - (i - 1) \in 1..(Len(s) - i) /\ i + (k - (i - 1)) = j
      BY <1>1, <2>2
    <3> HIDE DEF k
    <3>2. c[k] = b[k - (i - 1)] /\ b[k - (i - 1)] = s[j] /\ k \in DOMAIN c
      BY <1>2, <1>3, <1>4, <3>1
    <3> QED BY <3>2
  <2> QED BY <1>1, <1>6, <2>1, <2>2
<1> QED BY <1>1, <1>4, <1>5, <1>6 DEF ToSet

\* Input ends an abort that is under way in the guard.
LEMMA AbortCleared ==
  ASSUME NEW m, Good(m), NEW e
  PROVE  Tells(m, ClearAbort(m), W!ClearAbort(m.guard).state, e)
BY GuardTold DEF ClearAbort

\* onInput: a prompt of the current goal is accepted and marked, another is dropped.
LEMMA InputSteps ==
  ASSUME Inv, ExtensionInput \/ UserInput
  PROVE  StepDone(W!ClearAbort(mem.guard).state)
<1>1. open /\ Good(mem)
  BY OnlyWhenOpen DEF ExtensionInput, UserInput, Inv
<1>2. NoMessage.id = Null
  BY DEF NoMessage
<1>3. CASE ExtensionInput
  <2> DEFINE prompt == Head(mem.inbox)
             less == [mem EXCEPT !.inbox = Tail(@)]
             taken == ClearAbort(less)
  <2>1. /\ mem.inbox \in Seq(Messages) /\ mem.inbox # <<>> /\ accepted = NoMessage
    BY <1>1, <1>3 DEF ExtensionInput, Good, Shaped
  <2>2. /\ prompt \in Messages /\ Tail(mem.inbox) \in Seq(Messages)
        /\ ToSet(mem.inbox) = ToSet(Tail(mem.inbox)) \cup {prompt}
    BY <2>1, HeadAndTail
  <2> HIDE DEF prompt
  <2>3. /\ Good(taken) /\ taken.queue = mem.queue /\ taken.inbox = Tail(mem.inbox)
        /\ taken.goal = mem.goal /\ taken.rec = mem.rec /\ taken.queuedFor = mem.queuedFor
        /\ taken.timerFor = mem.timerFor /\ taken.guard = W!ClearAbort(mem.guard).state
    BY <1>1, <2>2 DEF ClearAbort, Good, Shaped, Mirrors
  <2> HIDE DEF taken
  <2>4. Fit(mem) => Fit(taken)
    BY <2>3 DEF Fit, IsActive
  <2>5. UNCHANGED <<open, older, used>>
    BY <1>3 DEF ExtensionInput
  <2>8. Orderly(mem) => Orderly(taken)
    BY <2>3 DEF Orderly
  <2>6. CASE IsCurrentActive(mem, prompt.id)
    <3> DEFINE n == MarkContinuationQueued(taken, prompt.id)
    <3>1. mem' = n /\ accepted' = prompt
      BY <1>3, <2>6 DEF ExtensionInput, prompt, taken
    <3>2. /\ Good(n) /\ n.goal = mem.goal /\ n.rec = mem.rec /\ n.queuedFor = prompt.id
          /\ Eases(taken, n)
      BY <1>1, <2>3, <2>6 DEF MarkContinuationQueued, IsCurrentActive, IsActive, Good, Shaped,
                              Mirrors, NoGoalOr, Goals, Eases
    <3> HIDE DEF n
    <3>3. Marked(mem', {accepted'})
      BY <3>1, <3>2 DEF Marked
    <3>4. Fit(mem) => Fit(mem')
      BY <3>1, <3>2 DEF Fit, IsActive
    <3>5. /\ mem'.goal = mem.goal /\ Good(mem') /\ accepted' \in Messages
          /\ mem'.guard = W!ClearAbort(mem.guard).state /\ (Orderly(mem) => Orderly(mem'))
      BY <2>2, <2>3, <2>8, <3>1, <3>2, EasedIsTame DEF Tame, Eases
    <3> HIDE <3>1
    <3> QED BY <1>1, <2>5, <3>3, <3>4, <3>5 DEF StepDone, Inv, Issued, Good, Shaped, Mirrors, Fit,
                IsPending, IsActive, Marked
  <2>7. CASE ~IsCurrentActive(mem, prompt.id)
    <3> DEFINE n == ClearContinuationStateFor(taken, prompt.id)
    <3>1. mem' = n /\ accepted' = accepted
      BY <1>3, <2>7 DEF ExtensionInput, prompt, taken
    <3>2. /\ Good(n) /\ n.goal = mem.goal /\ n.rec = mem.rec
          /\ n.queue = mem.queue /\ n.inbox = Tail(mem.inbox)
          /\ n.queuedFor # Null => n.queuedFor = mem.queuedFor /\ n.queuedFor # prompt.id
          /\ Eases(taken, n)
      BY <2>3 DEF ClearContinuationStateFor, Good, Shaped, Mirrors, Eases
    <3> HIDE DEF n
    <3>3. Marked(mem', {accepted'})
      BY <2>2, <3>1, <3>2 DEF Marked, Inv
    <3>4. Fit(mem) => Fit(mem')
      BY <3>1, <3>2 DEF Fit, IsActive
    <3>5. /\ mem'.goal = mem.goal /\ Good(mem')
          /\ mem'.guard = W!ClearAbort(mem.guard).state /\ (Orderly(mem) => Orderly(mem'))
      BY <2>3, <2>8, <3>1, <3>2, EasedIsTame DEF Tame, Eases
    <3> QED BY <1>1, <2>5, <3>1, <3>3, <3>4, <3>5 DEF StepDone, Inv, Issued, Good, Shaped, Mirrors,
                Fit, IsPending, IsActive, Marked
  <2> QED BY <2>6, <2>7
<1>4. CASE UserInput
  <2> DEFINE n == ClearAbort(ResetErrorRecovery(mem))
  <2>1. Tells(mem, n, W!ClearAbort(mem.guard).state, {accepted})
    <3> DEFINE reset == ResetErrorRecovery(mem)
    <3>1. Keeps(mem, reset, {accepted}) /\ Good(reset) /\ reset.guard = mem.guard
      BY <1>1, ResetsKeep DEF Keeps, Tells, Tame
    <3>2. Tells(reset, ClearAbort(reset), W!ClearAbort(mem.guard).state, {accepted})
      BY <3>1, AbortCleared
    <3> HIDE DEF reset
    <3> QED BY <3>1, <3>2, KeepsInTurn DEF reset
  <2>2. /\ mem' = n /\ accepted = NoMessage /\ accepted' \in Messages
        /\ UNCHANGED <<open, older, used>>
    BY <1>4 DEF UserInput, Message, Messages
  <2> HIDE DEF n
  <2>3. Marked(n, {accepted'})
    BY <1>2, <2>1, <2>2 DEF Tells, Marked, Inv
  <2> QED BY <1>1, <2>1, <2>2, <2>3 DEF StepDone, Inv, Issued, Tells, SameId, Good, Shaped,
              Mirrors, Fit, IsPending, IsActive, Marked
<1> QED BY <1>3, <1>4

\* The part of ClearKeeps that prompts need.
LEMMA ClearStateKeeps ==
  ASSUME NEW m, Good(m), NEW id, NEW e
  PROVE  /\ Keeps(m, ClearContinuationState(m), e)
         /\ Keeps(m, ClearContinuationStateFor(m, id), e)
BY ClearKeeps

\* onBeforeAgentStart clears the mark, and the prompt joins the queue.
LEMMA DeliverStep ==
  ASSUME Inv, DeliverPrompt
  PROVE  /\ StepDone(mem'.guard) /\ mem'.queue # <<>>
         /\ \/ mem'.guard = mem.guard
            \/ (~Busy /\ mem'.guard = W!ClearAbort(mem.guard).state)
<1> DEFINE n == IF Busy THEN mem ELSE BeforeAgentStart(mem, accepted)
<1>1. open /\ Good(mem)
  BY OnlyWhenOpen DEF DeliverPrompt, Inv
<1>2. /\ accepted \in Messages /\ mem' = Send(n, accepted) /\ accepted' = NoMessage
      /\ UNCHANGED <<open, older, used>>
  BY DEF DeliverPrompt, Inv
<1> DEFINE cleared == W!ClearAbort(mem.guard).state
<1>3. /\ Tells(mem, n, n.guard, {accepted})
      /\ n.guard = mem.guard \/ (~Busy /\ n.guard = cleared)
  <2>1. CASE Busy
    BY <1>1, <2>1 DEF Tells, SameId
  <2>2. CASE ~Busy /\ accepted.kind # "goalUser"
    <3>1. Tells(mem, ClearAbort(mem), cleared, {accepted}) /\ Good(ClearAbort(mem))
      BY <1>1, AbortCleared DEF Tells
    <3> HIDE DEF cleared
    <3>2. Tells(mem, ClearContinuationState(ClearAbort(mem)), cleared, {accepted})
      BY <3>1, ClearStateKeeps, KeepsInTurn
    <3> QED BY <2>2, <3>2 DEF BeforeAgentStart, Tells
  <2>3. CASE ~Busy /\ accepted.kind = "goalUser"
    <3> DEFINE clear == ClearContinuationStateFor(mem, accepted.id)
    <3>1. Tells(mem, clear, mem.guard, {accepted}) /\ Good(clear) /\ clear.guard = mem.guard
      BY <1>1, ClearStateKeeps DEF Keeps, Tells, Tame
    <3> HIDE DEF clear
    <3>2. Tells(clear, ClearAbort(clear), cleared, {accepted})
      BY <3>1, AbortCleared
    <3> HIDE DEF cleared
    <3>3. Tells(mem, ClearAbort(clear), cleared, {accepted})
      BY <3>1, <3>2, KeepsInTurn
    <3>4. n \in {clear, ClearAbort(clear)}
      BY <2>3 DEF BeforeAgentStart, clear
    <3> QED BY <2>3, <3>1, <3>3, <3>4 DEF Tells
  <2> QED BY <2>1, <2>2, <2>3
<1> HIDE DEF n
<1>4. LET k == Send(n, accepted)
      IN  /\ Good(k) /\ (Fit(n) => Fit(k))
          /\ ToSet(k.queue) = ToSet(n.queue) \cup {accepted}
          /\ k.inbox = n.inbox /\ k.queuedFor = n.queuedFor /\ k.goal = n.goal
          /\ Tame(n, k)
  BY <1>2, <1>3, SendKeeps DEF Tells
<1>5. Marked(mem', {accepted'})
  BY <1>2, <1>3, <1>4 DEF Marked, Tells, Inv
<1>6. /\ Good(mem') /\ (Fit(mem) => Fit(mem')) /\ mem'.goal = n.goal /\ SameId(mem, n)
      /\ mem'.guard = n.guard /\ (Orderly(mem) => Orderly(mem'))
  BY <1>2, <1>3, <1>4 DEF Tells, Tame
<1>7. open' /\ accepted' = NoMessage /\ UNCHANGED <<older, used>>
  BY <1>1, <1>2
<1>8. mem'.queue # <<>>
  BY <1>2, <1>4 DEF ToSet
<1> QED BY <1>3, <1>5, <1>6, <1>7, <1>8 DEF StepDone, Inv, Issued, SameId, Good, Shaped, Mirrors, Fit,
            IsPending, IsActive, Marked

-----------------------------------------------------------------------------
(***************************************************************************)
(* Turns.                                                                  *)
(***************************************************************************)
\* onTurnStart overtakes a fallback and tells the guard.
LEMMA TurnStartSteps ==
  ASSUME Inv, RunStart \/ HostRetry \/ NextTurn
  PROVE  StepDone(W!TurnStartEvent(mem.guard).state)
<1>1. open /\ Good(mem)
  BY OnlyWhenOpen DEF RunStart, HostRetry, NextTurn, Inv
<1>2. mem' = TurnStarted(mem) /\ UNCHANGED <<open, accepted, older, used>>
  BY DEF RunStart, HostRetry, NextTurn, TurnStart
<1> DEFINE guard == W!TurnStartEvent(mem.guard).state
           fallback == IF mem.fallback = "armed" THEN "overtaken" ELSE mem.fallback
           told == [mem EXCEPT !.guard = guard]
<1>3. fallback \in {"none", "armed", "overtaken"}
  BY <1>1 DEF Good, Shaped
<1>4. TurnStarted(mem) = [told EXCEPT !.fallback = fallback]
  BY <1>1 DEF TurnStarted, Good, Shaped
<1> HIDE DEF guard, fallback
<1>5. Tells(mem, told, guard, {accepted}) /\ Good(told)
  BY <1>1, GuardTold DEF Tells
<1> HIDE DEF told
<1>6. Tells(mem, [told EXCEPT !.fallback = fallback], guard, {accepted})
  BY <1>3, <1>5, FallbackChangeKeeps, KeepsInTurn
<1> QED BY <1>1, <1>2, <1>4, <1>6, ToldStep DEF guard

\* The message a turn starts with leaves the queue, and with it any mark that
\* only this message stood for.
LEMMA MessageStep ==
  ASSUME Inv, MessageStart
  PROVE  \E message \in Messages :
           /\ StepDone(mem'.guard)
           /\ carried' = carried \cup ({message.id} \ {Null})
           /\ \/ mem'.guard = W!RunnableWorkStarted(mem.guard)
              \/ message.id # Null /\ mem'.guard = W!StaleWorkStarted(mem.guard, message.id)
<1>1. open /\ Good(mem)
  BY OnlyWhenOpen DEF MessageStart, Inv
<1>2. PICK i \in DOMAIN mem.queue :
        /\ mem' = MessageStarted([mem EXCEPT !.queue = RemoveAt(@, i)], mem.queue[i])
        /\ carried' = carried \cup ({mem.queue[i].id} \ {Null})
  BY DEF MessageStart, Deliverable
<1> DEFINE message == mem.queue[i]
           less == [mem EXCEPT !.queue = RemoveAt(@, i)]
           reset == IF IsUserRole(message) THEN PersistUserReset(less, FALSE) ELSE less
           clear == IF message.id = Null THEN ClearContinuationState(reset)
                    ELSE ClearContinuationStateFor(reset, message.id)
           guard == IF message.id = Null \/ IsCurrentActive(less, message.id)
                    THEN W!RunnableWorkStarted(clear.guard)
                    ELSE W!StaleWorkStarted(clear.guard, message.id)
<1>3. mem' = [clear EXCEPT !.guard = guard]
  BY <1>2 DEF MessageStarted
<1>4. mem.queue \in Seq(Messages)
  BY <1>1 DEF Good, Shaped
<1>5. /\ RemoveAt(mem.queue, i) \in Seq(Messages)
      /\ ToSet(mem.queue) \subseteq ToSet(RemoveAt(mem.queue, i)) \cup {message}
      /\ message \in Messages
  BY <1>4, AllButOne
<1>6. /\ Good(less) /\ less.queue = RemoveAt(mem.queue, i) /\ less.inbox = mem.inbox
      /\ less.goal = mem.goal /\ less.rec = mem.rec /\ less.queuedFor = mem.queuedFor
      /\ Tame(mem, less)
  BY <1>1, <1>5 DEF Good, Shaped, Mirrors, Tame, Orderly
<1> HIDE DEF message, less
<1>7. Fit(mem) => Fit(less)
  BY <1>6 DEF Fit, IsActive
<1>8. Marked(mem, {accepted}) => Marked(less, {accepted, message})
  BY <1>5, <1>6 DEF Marked
<1>9. Keeps(less, reset, {accepted, message}) /\ Good(reset)
  BY <1>6, PersistResetKeeps DEF Keeps, Tells, SameId, Tame
<1> HIDE DEF reset
<1> HIDE DEF guard
<1>10. /\ Keeps(reset, clear, {accepted, message}) /\ Good(clear)
       /\ clear.queuedFor # Null => clear.queuedFor # message.id
  <2>1. /\ Keeps(reset, clear, {accepted, message})
        /\ clear.queuedFor # Null => clear.queuedFor # message.id
    BY <1>9, ClearKeeps
  <2> HIDE DEF clear
  <2> QED BY <2>1 DEF Keeps, Tells
<1> HIDE DEF clear
<1> DEFINE n == [clear EXCEPT !.guard = guard]
<1>16. /\ clear.guard = mem.guard
       /\ \/ guard = W!RunnableWorkStarted(mem.guard)
          \/ message.id # Null /\ guard = W!StaleWorkStarted(mem.guard, message.id)
  BY <1>6, <1>9, <1>10 DEF Keeps, Tells, Tame, guard
<1>11. /\ Tells(clear, n, guard, {accepted, message}) /\ n.queuedFor = clear.queuedFor
  <2> HIDE DEF guard
  <2> QED BY <1>10, GuardTold DEF Good, Shaped
<1> HIDE DEF n, guard
<1>12. /\ Good(n) /\ (Fit(mem) => Fit(n)) /\ SameId(mem, n)
       /\ n.guard = guard /\ (Orderly(mem) => Orderly(n))
  BY <1>6, <1>7, <1>9, <1>10, <1>11 DEF Keeps, Tells, SameId, Tame
<1>13. Marked(n, {accepted, message})
  BY <1>8, <1>9, <1>10, <1>11 DEF Keeps, Tells, Tame, Inv
<1>14. Marked(n, {accepted})
  BY <1>10, <1>11, <1>13 DEF Marked
<1>15. mem' = n /\ UNCHANGED <<open, accepted, older, used>>
  BY <1>3 DEF n, MessageStart
<1>17. StepDone(guard) /\ mem'.guard = guard
  BY <1>1, <1>12, <1>14, <1>15, ToldStep DEF Tells
<1> QED BY <1>2, <1>5, <1>16, <1>17 DEF message

\* A turn's end: usage, and then what its outcome asks for.
LEMMA OutcomesKeep ==
  ASSUME NEW m, Good(m), NEW outcome \in Outcomes, NEW charge, NEW e
  PROVE  /\ Keeps(m, TurnEnded(m, outcome, charge), e)
         /\ outcome # "toolUse" => Keeps(m, AgentEnded(m, outcome, charge), e)
<1> DEFINE a == AccountProgress(m, charge, TRUE)
           b == AccountProgress(m, charge, FALSE)
           succeeded == [a EXCEPT !.rec = ResetCounters(@)]
           begun == IF IsOverflow(outcome) THEN BeginOverflowRecovery(b) ELSE b
<1>1. Keeps(m, a, e) /\ Good(a) /\ Keeps(m, b, e) /\ Good(b)
  BY AccountKeeps DEF Keeps, Tells, Tame
<1>2. TurnEnded(m, outcome, charge) \in
        {a, PauseForAbort(a), BeginOverflowRecovery(a), succeeded, MaybeContinue(succeeded, FALSE)}
  BY DEF TurnEnded, Outcomes
<1>3. outcome # "toolUse" =>
        \/ AgentEnded(m, outcome, charge)
             \in {PauseForAbort(b), MaybeContinue(ResetErrorRecovery(b), FALSE)}
        \/ /\ outcome \in Errors \cup {"silent"}
           /\ AgentEnded(m, outcome, charge) = HandlePersistentError(begun, outcome)
  BY DEF AgentEnded, AgentErrorHandled, Outcomes, Errors
<1> HIDE DEF a, b
<1>4. Keeps(m, PauseForAbort(a), e) /\ Keeps(m, BeginOverflowRecovery(a), e)
  BY <1>1, PausesKeep, OverflowKeeps, KeepsInTurn
<1>5. Keeps(m, succeeded, e) /\ Good(succeeded)
  <2>1. Keeps(a, succeeded, e)
    BY <1>1, ResetsKeep
  <2> HIDE DEF succeeded
  <2> QED BY <1>1, <2>1, KeepsInTurn DEF Keeps, Tells, Tame
<1> HIDE DEF succeeded
<1>6. Keeps(m, MaybeContinue(succeeded, FALSE), e)
  BY <1>5, MaybeContinueKeeps, KeepsInTurn
<1>7. Keeps(m, PauseForAbort(b), e)
  BY <1>1, PausesKeep, KeepsInTurn
<1>8. Keeps(m, MaybeContinue(ResetErrorRecovery(b), FALSE), e)
  <2>1. Keeps(m, ResetErrorRecovery(b), e) /\ Good(ResetErrorRecovery(b))
    BY <1>1, ResetsKeep, KeepsInTurn DEF Keeps, Tells, Tame
  <2> QED BY <2>1, MaybeContinueKeeps, KeepsInTurn
<1>9. Keeps(m, begun, e) /\ Good(begun)
  BY <1>1, OverflowKeeps, KeepsInTurn DEF Keeps, Tells, Tame
<1> HIDE DEF begun
<1>10. outcome \in Errors \cup {"silent"} => Keeps(m, HandlePersistentError(begun, outcome), e)
  BY <1>9, ErrorKeeps, KeepsInTurn
<1> QED BY <1>1, <1>2, <1>3, <1>4, <1>5, <1>6, <1>7, <1>8, <1>10

\* onContext, onToolExecutionEnd, onTurnEnd and onAgentEnd.
LEMMA TurnSteps ==
  ASSUME Inv,
         \/ Context
         \/ (\E charge \in TimeCharges : ToolEnd(charge))
         \/ (\E outcome \in Outcomes, charge \in Charges : TurnEnd(outcome, charge))
         \/ (\E charge \in Charges : AgentEnd(charge)),
         last \in Outcomes
  PROVE  /\ StepDone(mem'.guard)
         /\ Context => mem'.guard = W!ContextAbort(mem.guard, Turn).state
         /\ (\E charge \in TimeCharges : ToolEnd(charge)) => mem'.guard = mem.guard
         /\ (\E outcome \in Outcomes, charge \in Charges : TurnEnd(outcome, charge))
              => mem'.guard = W!TurnEndEvent(mem.guard, Turn).state
         /\ (\E charge \in Charges : AgentEnd(charge))
              => mem'.guard = W!AgentEndEvent(mem.guard,
                                              [goalIds |-> carried, terminal |-> TRUE]).state
<1>1. open /\ Good(mem)
  BY OnlyWhenOpen DEF Context, ToolEnd, TurnEnd, AgentEnd, Inv
<1>2. UNCHANGED <<open, accepted, older, used>>
  BY DEF Context, ToolEnd, TurnEnd, AgentEnd
<1> DEFINE halted == W!ContextAbort(mem.guard, Turn).state
           turned == W!TurnEndEvent(mem.guard, Turn).state
           ended == W!AgentEndEvent(mem.guard, [goalIds |-> carried, terminal |-> TRUE]).state
<1> SUFFICES /\ Context => StepDone(halted)
             /\ \A charge : ToolEnd(charge) => StepDone(mem.guard)
             /\ \A outcome \in Outcomes : \A charge : TurnEnd(outcome, charge) => StepDone(turned)
             /\ \A charge : AgentEnd(charge) => StepDone(ended)
  BY DEF StepDone
<1>3. ASSUME Context PROVE StepDone(halted)
  <2>1. mem' = [mem EXCEPT !.guard = halted]
    BY <1>3 DEF Context
  <2> HIDE DEF halted
  <2>2. Tells(mem, mem', halted, {accepted})
    BY <1>1, <2>1, GuardTold
  <2> QED BY <1>1, <1>2, <2>2, ToldStep
<1>4. ASSUME NEW charge, ToolEnd(charge) PROVE StepDone(mem.guard)
  <2>1. Keeps(mem, mem, {accepted})
    BY <1>1 DEF Keeps, Tells, Tame, SameId
  <2>2. mem' \in {mem, AccountProgress(mem, charge, TRUE)}
    BY <1>4 DEF ToolEnd
  <2> QED BY <1>1, <1>2, <2>1, <2>2, AccountKeeps, KeptStep
<1>5. ASSUME NEW outcome \in Outcomes, NEW charge, TurnEnd(outcome, charge) PROVE StepDone(turned)
  <2> DEFINE told == [mem EXCEPT !.guard = turned]
  <2>1. mem' \in {told, TurnEnded(told, outcome, charge)}
    BY <1>5 DEF TurnEnd
  <2> HIDE DEF turned
  <2>2. Tells(mem, told, turned, {accepted}) /\ Good(told)
    BY <1>1, GuardTold DEF Tells
  <2> HIDE DEF told
  <2>3. Tells(mem, TurnEnded(told, outcome, charge), turned, {accepted})
    BY <2>2, OutcomesKeep, KeepsInTurn
  <2> QED BY <1>1, <1>2, <2>1, <2>2, <2>3, ToldStep
<1>6. ASSUME NEW charge, AgentEnd(charge) PROVE StepDone(ended)
  <2> DEFINE told == [mem EXCEPT !.guard = ended]
  <2>1. mem' \in {told, AgentEnded(told, last, charge)} /\ last # "toolUse"
    BY <1>6 DEF AgentEnd
  <2> HIDE DEF ended
  <2>2. Tells(mem, told, ended, {accepted}) /\ Good(told)
    BY <1>1, GuardTold DEF Tells
  <2> HIDE DEF told
  <2>3. Tells(mem, AgentEnded(told, last, charge), ended, {accepted})
    BY <2>1, <2>2, OutcomesKeep, KeepsInTurn
  <2> QED BY <1>1, <1>2, <2>1, <2>2, <2>3, ToldStep
<1> QED BY <1>3, <1>4, <1>5, <1>6

-----------------------------------------------------------------------------
(***************************************************************************)
(* Compactions, timers and sessions.                                       *)
(***************************************************************************)
\* What the host does without an event for the extension.
LEMMA QuietHostSteps ==
  ASSUME Inv, Settle \/ CompactFail \/ CompactSettle \/ Bookmark
  PROVE  StepDone(mem.guard)
<1>1. open
  BY OnlyWhenOpen DEF Settle, CompactFail, CompactSettle, Bookmark
<1> QED BY <1>1, SameMemory DEF Settle, CompactFail, CompactSettle, Bookmark

\* onSessionBeforeCompact and onSessionCompact.
LEMMA CompactSteps ==
  ASSUME Inv, CompactDone \/ \E charge \in TimeCharges : CompactStart(charge)
  PROVE  StepDone(mem.guard)
<1>1. open /\ Good(mem)
  BY OnlyWhenOpen DEF CompactDone, CompactStart, Inv
<1>2. UNCHANGED <<open, accepted, older, used>> /\ Keeps(mem, mem, {accepted})
  BY <1>1 DEF CompactDone, CompactStart, Keeps, Tells, SameId, Tame
<1>3. ASSUME NEW charge, CompactStart(charge) PROVE StepDone(mem.guard)
  <2>1. mem' \in {mem, AccountProgress(mem, charge, FALSE)}
    BY <1>3 DEF CompactStart
  <2> QED BY <1>1, <1>2, <2>1, AccountKeeps, KeptStep
<1>4. CASE CompactDone
  <2> DEFINE told == [mem EXCEPT !.rec = OnSessionCompact(@)]
  <2>1. mem' \in {mem, [told EXCEPT !.fallback = "armed"], MaybeContinueAfterCurrentEvent(told)}
    BY <1>4 DEF CompactDone, SessionCompacted
  <2>2. Keeps(mem, told, {accepted})
    BY <1>1, ResetsKeep
  <2> HIDE DEF told
  <2>3. Good(told)
    BY <2>2 DEF Keeps, Tells, Tame
  <2>4. Keeps(mem, [told EXCEPT !.fallback = "armed"], {accepted})
    BY <2>2, <2>3, FallbackChangeKeeps, KeepsInTurn
  <2>5. Keeps(mem, MaybeContinueAfterCurrentEvent(told), {accepted})
    BY <2>2, <2>3, MaybeContinueAfterCurrentEventKeeps, KeepsInTurn
  <2> QED BY <1>1, <1>2, <2>1, <2>4, <2>5, KeptStep
<1> QED BY <1>3, <1>4

\* The continuation timer and the fallback.
LEMMA TimerStepsDone ==
  ASSUME Inv, ContinuationTimer \/ FallbackTimer
  PROVE  StepDone(mem.guard)
<1>1. open /\ Good(mem)
  BY OnlyWhenOpen DEF ContinuationTimer, FallbackTimer, Inv
<1>2. UNCHANGED <<open, accepted, older, used>>
  BY DEF ContinuationTimer, FallbackTimer
<1>3. CASE ContinuationTimer
  <2> DEFINE cleared == ClearContinuationTimer(mem)
  <2>1. Keeps(mem, cleared, {accepted}) /\ Good(cleared)
    BY <1>1, ClearKeeps DEF Keeps, Tells, Tame
  <2>2. mem' = MaybeContinue(cleared, ~Busy)
    BY <1>3 DEF ContinuationTimer
  <2> HIDE DEF cleared
  <2>3. Keeps(mem, mem', {accepted})
    BY <2>1, <2>2, MaybeContinueKeeps, KeepsInTurn
  <2> QED BY <1>1, <1>2, <2>3, KeptStep
<1>4. CASE FallbackTimer
  <2> DEFINE fired == [mem EXCEPT !.fallback = "none"]
             calmed == [fired EXCEPT !.rec = ClearHostOverflowActive(@)]
  <2>1. mem' \in {fired, MaybeContinue(calmed, TRUE)}
    BY <1>4 DEF FallbackTimer
  <2>2. Keeps(mem, fired, {accepted})
    BY <1>1, FallbackChangeKeeps
  <2> HIDE DEF fired
  <2>3. Keeps(fired, calmed, {accepted})
    BY <2>2, ResetsKeep DEF Keeps, Tells, Tame
  <2> HIDE DEF calmed
  <2>4. Keeps(mem, MaybeContinue(calmed, TRUE), {accepted})
    <3>1. Keeps(mem, calmed, {accepted}) /\ Good(calmed)
      BY <2>2, <2>3, KeepsInTurn DEF Keeps, Tells, Tame
    <3> QED BY <3>1, MaybeContinueKeeps, KeepsInTurn
  <2> QED BY <1>1, <1>2, <2>1, <2>2, <2>4, KeptStep
<1> QED BY <1>3, <1>4

\* Reading the log takes the flag over with the goal, and drops the mark.
LEMMA ReloadDoes ==
  ASSUME NEW m, Shaped(m), NEW goal \in NoGoalOr, NEW cap \in BOOLEAN, NEW e
  PROVE  LET n == ReloadFromSession(m, goal, cap)
         IN  /\ Good(n) /\ n.goal = goal /\ Marked(n, e)
             /\ n.rec.attention \in {m.rec.attention, "none"}
             /\ n.rec.attempts \in {m.rec.attempts, 0}
             /\ Eases(m, n)
<1> DEFINE read == [m EXCEPT !.goal = goal, !.cap = cap,
                             !.rec = ApplyPersistedUserReset(@, cap)]
           idOf(g) == IF g = Null THEN Null ELSE g.id
           effects == {"clearContinuation"} \cup
                      IF idOf(goal) # idOf(m.goal) THEN {"resetRecovery"} ELSE {}
           n == ApplyEffects(read, effects)
<1>1. /\ Good(read) /\ read.goal = goal
      /\ read.rec.attention = m.rec.attention /\ read.rec.attempts = m.rec.attempts
      /\ Eases(m, read)
  BY DEF Good, Shaped, Mirrors, ApplyPersistedUserReset, Recoveries, Eases
<1>2. /\ "markContinuationQueued" \notin effects /\ "clearContinuation" \in effects
      /\ "setRecoveryPausedAttention" \notin effects
  OBVIOUS
<1>3. ReloadFromSession(m, goal, cap) = n
  BY DEF ReloadFromSession
<1> HIDE DEF read, effects
<1>4. Good(n) /\ EffectsOf(read, n, effects)
  BY <1>1, <1>2, EffectsDo
<1> HIDE DEF n
<1> QED BY <1>1, <1>2, <1>3, <1>4, EasedIsTame DEF EffectsOf, Marked

\* onSessionShutdown, until the process ends.
LEMMA ShutDownKeeps ==
  ASSUME NEW m, Good(m), NEW charge
  PROVE  Good(ShutDown(m, charge)) /\ SameId(m, ShutDown(m, charge))
<1> DEFINE a == [m EXCEPT !.fallback = "none"]
           guard == W!SessionShutdownEvent(m.guard).state
           b == [a EXCEPT !.guard = guard]
           c == AccountProgress(b, charge, FALSE)
           d == ClearContinuationTimer(c)
<1>1. ShutDown(m, charge) = IF IsActive(d) /\ IsPending(d.rec) THEN PauseForShutdown(d)
                            ELSE ResetErrorRecovery(d)
  BY DEF ShutDown, Good, Shaped
<1>2. Keeps(m, a, {}) /\ Good(a)
  BY FallbackChangeKeeps DEF Keeps, Tells, Tame
<1> HIDE DEF a, guard
<1>3. Tells(a, b, guard, {})
  BY <1>2, GuardTold
<1> HIDE DEF b
<1>4. Tells(m, b, guard, {}) /\ Good(b)
  BY <1>2, <1>3, KeepsInTurn DEF Tells
<1>5. Tells(m, c, guard, {}) /\ Good(c)
  BY <1>4, AccountKeeps, KeepsInTurn DEF Tells
<1> HIDE DEF c
<1>6. Tells(m, d, guard, {}) /\ Good(d)
  BY <1>5, ClearKeeps, KeepsInTurn DEF Tells
<1> HIDE DEF d
<1>7. Keeps(d, ResetErrorRecovery(d), {})
  BY <1>6, ResetsKeep
<1>8. IsActive(d) => Keeps(d, PauseForShutdown(d), {})
  <2> SUFFICES ASSUME IsActive(d) PROVE Keeps(d, PauseForShutdown(d), {})
    OBVIOUS
  <2> DEFINE next == WithStatus(d, "paused")
             effects == T!MemoryEffects(d.goal, next)
             before == {"clearContinuation", "clearHostOverflowRecovery",
                        "setRecoveryPausedAttention"} \cup effects
  <2>1. next \in Goals /\ next \in NoGoalOr /\ next # Null /\ next.status = "paused"
        /\ ~T!GoalIdChanged(d.goal, next) /\ next.id = d.goal.id /\ d.goal # Null
    BY <1>6, SameGoal DEF IsActive, Statuses
  <2>2. "markContinuationQueued" \notin before /\ "setRecoveryPausedAttention" \in before
    BY <2>1 DEF T!MemoryEffects, T!ForgetGoal
  <2>3. PauseForShutdown(d) = Transition(d, next, before, {})
    BY DEF PauseForShutdown, PauseWith
  <2> HIDE DEF next, before
  <2> QED BY <1>6, <2>1, <2>2, <2>3, ChangeKeeps
<1>10. Tells(m, ShutDown(m, charge), guard, {})
  BY <1>1, <1>6, <1>7, <1>8, KeepsInTurn
<1> QED BY <1>10 DEF Tells

\* A new process has an idle guard and no timers.
LEMMA FreshIsOrderly ==
  ASSUME NEW goal, NEW cap
  PROVE  Orderly(FreshMemory(goal, cap)) /\ FreshMemory(goal, cap).guard = W!Idle
BY DEF FreshMemory, FreshRecovery, Orderly

\* The end of the process, orderly or not.
LEMMA EndSteps ==
  ASSUME Inv, Crash \/ \E charge \in TimeCharges : SessionShutdown(charge)
  PROVE  StepDone(W!Idle)
<1>1. open /\ Good(mem)
  BY DEF Crash, SessionShutdown, EndWith, Inv
<1>2. PICK n : EndWith(n) /\ Good(n) /\ SameId(mem, n)
  <2>1. CASE Crash
    BY <1>1, <2>1 DEF Crash, SameId
  <2>2. ASSUME NEW charge, SessionShutdown(charge)
        PROVE  \E n : EndWith(n) /\ Good(n) /\ SameId(mem, n)
    BY <1>1, <2>2, ShutDownKeeps DEF SessionShutdown
  <2> QED BY <2>1, <2>2
<1>3. /\ open' = FALSE /\ mem' = FreshMemory(n.goal, n.cap) /\ UNCHANGED <<older, used>>
      /\ phase' = "idle" /\ retry' = FALSE /\ accepted' = NoMessage
  BY <1>2 DEF EndWith, HostReset
<1>4. /\ n.goal \in NoGoalOr /\ n.cap \in BOOLEAN
      /\ mem'.goal = n.goal /\ mem'.cap = n.cap
      /\ mem'.queuedFor = Null /\ mem'.rec = FreshRecovery
  BY <1>2, <1>3 DEF Good, Shaped, FreshMemory
<1>5. Closed'
  BY <1>3, <1>4 DEF Closed, FreshMemory, FreshRecovery, NoMessage
<1>6. Fit(mem)'
  BY <1>4 DEF Fit, IsPending, IsActive, FreshRecovery, MaxContextCompactionRetries
<1>7. Marked(mem, {accepted})'
  BY <1>4 DEF Marked
<1>8. Orderly(mem') /\ mem'.guard = W!Idle
  BY <1>3, FreshIsOrderly
<1> QED BY <1>2, <1>3, <1>4, <1>5, <1>6, <1>7, <1>8 DEF StepDone, Inv, Issued, SameId

\* onSessionStart reads the log into a fresh memory.
LEMMA StartStep ==
  ASSUME Inv, NEW resumes \in BOOLEAN, SessionStart(resumes)
  PROVE  StepDone(W!Idle)
<1> DEFINE empty == FreshMemory(Null, FALSE)
           read == ReloadFromSession(empty, mem.goal, mem.cap)
           n == IF resumes THEN QueueGoalUserTurn(ResumePausedGoal(read))
                ELSE MaybeContinue(read, TRUE)
<1>1. /\ mem' = n /\ open' /\ UNCHANGED <<accepted, older, used>>
      /\ resumes => mem.goal # Null /\ mem.goal.status = "paused"
  BY DEF SessionStart
<1>2. Shaped(empty) /\ empty.rec = FreshRecovery /\ Orderly(empty)
      /\ empty.guard = W!Idle
  BY FreshIsOrderly DEF FreshMemory, Shaped, NoGoalOr, FreshRecovery, Recoveries, Attentions
<1> HIDE DEF empty
<1>3. /\ Good(read) /\ read.goal = mem.goal /\ Marked(read, {accepted})
      /\ read.rec.attention = "none" /\ read.rec.attempts = 0
      /\ Eases(empty, read)
  BY <1>2, ReloadDoes DEF Inv, FreshRecovery
<1> HIDE DEF read
<1>4. Fit(read)
  BY <1>3 DEF Fit, IsPending, MaxContextCompactionRetries
<1>5. Keeps(read, n, {accepted})
  BY <1>1, <1>3, MaybeContinueKeeps, CommandsKeep
<1> HIDE DEF n
<1>6. Good(mem)' /\ Fit(mem)' /\ Marked(mem, {accepted})'
  BY <1>1, <1>3, <1>4, <1>5 DEF Keeps, Tells, Tame, Good, Shaped, Mirrors, Fit, IsPending, IsActive, Marked
<1>7. SameId(mem, n) /\ mem'.goal \in NoGoalOr /\ mem'.cap \in BOOLEAN
  BY <1>1, <1>3, <1>5 DEF Keeps, Tells, Tame, SameId, Good, Shaped
<1>8. Orderly(mem') /\ mem'.guard = W!Idle
  BY <1>1, <1>2, <1>3, <1>5, EasedIsTame DEF Keeps, Tells, Tame
<1> QED BY <1>1, <1>6, <1>7, <1>8 DEF StepDone, Inv, Issued, SameId

\* A move in the tree keeps the invariant; attention may not fit afterwards.
LEMMA TreeStep ==
  ASSUME Inv, SessionTree
  PROVE  Inv' /\ mem'.guard = mem.guard /\ (Orderly(mem) => Orderly(mem'))
<1> DEFINE calm == [mem EXCEPT !.fallback = "none"]
           read == ReloadFromSession(calm, older.goal, older.cap)
           n == MaybeContinue(read, TRUE)
<1>1. /\ open /\ mem' = n /\ UNCHANGED <<open, accepted, older, used>>
  BY DEF SessionTree
<1>2. /\ Shaped(calm) /\ older.goal \in NoGoalOr /\ older.cap \in BOOLEAN
      /\ calm.rec = mem.rec /\ calm.guard = mem.guard /\ calm.timerFor = mem.timerFor
  BY <1>1 DEF Inv, Good, Shaped
<1> HIDE DEF calm
<1>3. Good(read) /\ read.goal = older.goal /\ Marked(read, {accepted}) /\ Tame(calm, read)
  BY <1>2, ReloadDoes, EasedIsTame
<1> HIDE DEF read
<1>4. Keeps(read, n, {accepted})
  BY <1>3, MaybeContinueKeeps
<1> HIDE DEF n
<1>5. Good(mem)' /\ Marked(mem, {accepted})'
  BY <1>1, <1>3, <1>4 DEF Keeps, Tells, Tame, Good, Shaped, Mirrors, Marked
<1>6. mem'.goal # Null => older.goal # Null /\ mem'.goal.id = older.goal.id
  BY <1>1, <1>3, <1>4 DEF Keeps, Tells, Tame, SameId
<1>7. mem'.goal \in NoGoalOr /\ mem'.cap \in BOOLEAN
  BY <1>1, <1>4 DEF Keeps, Tells, Tame, Good, Shaped
<1>8. mem'.guard = mem.guard /\ (Orderly(mem) => Orderly(mem'))
  BY <1>1, <1>2, <1>3, <1>4 DEF Keeps, Tells, Tame, Orderly
<1> QED BY <1>1, <1>5, <1>6, <1>7, <1>8 DEF Inv, Issued

-----------------------------------------------------------------------------
(***************************************************************************)
(* The guard.  Here it hears of every end, so that it owes at most the     *)
(* ends of the run it has aborted, and nothing between runs.               *)
(***************************************************************************)
\* One obligation, taken away, leaves none.
LEMMA NoneIsLeft ==
  ASSUME NEW o
  PROVE  W!Without(<<o>>, {1}) = <<>> /\ \A P : W!Without(<<>>, P) = <<>>
<1> DEFINE IsKept(k, s, P, l) ==
             k = [n \in 0..l |-> IF n = 0 THEN <<>> ELSE IF n \in P THEN k[n - 1]
                                                        ELSE Append(k[n - 1], s[n])]
<1>1. \A s, P : W!Without(s, P) = W!Kept(s, P)[Len(s)]
  BY DEF W!Without
<1>2. \A s, P : W!Kept(s, P) = CHOOSE k : IsKept(k, s, P, Len(s))
  BY Zenon DEF W!Kept
<1>3. Len(<<o>>) = 1 /\ Len(<<>>) = 0
  OBVIOUS
<1>4. W!Kept(<<o>>, {1})[1] = <<>>
  <2> DEFINE k == W!Kept(<<o>>, {1})
             f == [n \in 0..1 |-> <<>>]
  <2>1. IsKept(f, <<o>>, {1}, 1)
    OBVIOUS
  <2>2. k = CHOOSE h : IsKept(h, <<o>>, {1}, 1)
    BY <1>2, <1>3
  <2>3. IsKept(k, <<o>>, {1}, 1)
    <3> HIDE DEF k, f, IsKept
    <3> QED BY <2>1, <2>2
  <2> HIDE DEF k
  <2>4. k[1] = k[0] /\ k[0] = <<>>
    BY <2>3
  <2> QED BY <2>4 DEF k
<1>5. ASSUME NEW P PROVE W!Kept(<<>>, P)[0] = <<>>
  <2> DEFINE k == W!Kept(<<>>, P)
             f == [n \in 0..0 |-> <<>>]
  <2>1. IsKept(f, <<>>, P, 0)
    OBVIOUS
  <2>2. k = CHOOSE h : IsKept(h, <<>>, P, 0)
    BY <1>2, <1>3
  <2>3. IsKept(k, <<>>, P, 0)
    <3> HIDE DEF k, f, IsKept
    <3> QED BY <2>1, <2>2
  <2> HIDE DEF k
  <2>4. k[0] = <<>>
    BY <2>3
  <2> QED BY <2>4 DEF k
<1> HIDE DEF IsKept
<1> QED BY <1>1, <1>3, <1>4, <1>5

\* The idle guard is one that owes nothing.
LEMMA IdleOwesNothing ==
  /\ OwesNothing(W!Idle) /\ W!Idle \in W!GuardStates /\ W!Idle.kind = "idle"
  /\ \A p, l, c : p # "aborting" => GuardOk(W!Idle, p, l, c)
<1>1. /\ W!Idle.kind = "idle" /\ W!Idle.stale = {} /\ W!Idle.turnEnds = {}
      /\ W!Idle.agentEnds = <<>>
  BY DEF W!Idle
<1>2. W!Idle \in W!GuardStates
  BY DEF W!Idle, W!GuardStates, W!Kinds
<1> QED BY <1>1, <1>2 DEF OwesNothing, GuardOk

\* What was observed of a turn settles into nothing owed.
LEMMA NothingSettles ==
  ASSUME NEW g, g.turnEnds = {}, g.agentEnds = <<>>
  PROVE  W!Settle(g) = W!Idle
BY DEF W!Settle, W!HasPending

\* A guard that owes ends goes on waiting for them when the turn is released.
LEMMA OwedSettles ==
  ASSUME NEW g \in W!GuardStates, NEW o \in W!Obligations, g.agentEnds = <<o>>
  PROVE  /\ W!Settle(g) \in W!GuardStates
         /\ W!Settle(g).kind = "awaiting" /\ W!Settle(g).agentEnds = <<o>>
         /\ W!Settle(g).turnEnds = g.turnEnds
<1>1. g.agentEnds # <<>> /\ g.turnEnds \in SUBSET Nat /\ <<o>> \in Seq(W!Obligations)
  BY DEF W!GuardStates
<1>2. W!Settle(g) = W!Awaiting(g.turnEnds, <<o>>)
  BY <1>1 DEF W!Settle, W!HasPending
<1> QED BY <1>1, <1>2 DEF W!Awaiting, W!Idle, W!GuardStates, W!Kinds

\* Input, or a message that begins a run, releases the turn that is aborted.
LEMMA ClearAbortOk ==
  ASSUME NEW g, NEW p, NEW l, NEW c, GuardOk(g, p, l, c)
  PROVE  GuardOk(W!ClearAbort(g).state, p, l, c)
<1>1. \A s, r : W!Result(s, r).state = s
  BY DEF W!Result
<1>2. CASE g.kind # "aborting"
  BY <1>1, <1>2 DEF W!ClearAbort
<1>3. CASE g.kind = "aborting"
  <2>1. Owes(g, c) /\ p # "turn"
    BY <1>3, IdleOwesNothing DEF GuardOk, OwesNothing
  <2>2. PICK o \in W!Obligations : g.agentEnds = <<o>> /\ o.goalIds # {} /\ o.goalIds \subseteq c
    BY <2>1 DEF Owes
  <2> DEFINE q == [o EXCEPT !.phase = "older"]
             h == [g EXCEPT !.agentEnds = W!WithPhase(@, "older")]
  <2>3. q \in W!Obligations /\ q.goalIds = o.goalIds
    BY DEF W!Obligations
  <2>4. W!WithPhase(g.agentEnds, "older") = <<q>>
    BY <2>2 DEF W!WithPhase
  <2> HIDE DEF q
  <2>5. h \in W!GuardStates /\ h.agentEnds = <<q>> /\ h.turnEnds = g.turnEnds
    <3>1. g \in W!GuardStates /\ <<q>> \in Seq(W!Obligations)
      BY <2>3 DEF GuardOk
    <3>2. h = [g EXCEPT !.agentEnds = <<q>>]
      BY <2>4
    <3> HIDE DEF h
    <3> QED BY <3>1, <3>2 DEF W!GuardStates
  <2>6. W!ClearAbort(g).state = W!Settle(h)
    BY <1>1, <1>3 DEF W!ClearAbort
  <2> HIDE DEF h
  <2> DEFINE s == W!Settle(h)
  <2>7. s \in W!GuardStates /\ s.kind = "awaiting" /\ s.agentEnds = <<q>>
        /\ s.turnEnds = g.turnEnds
    BY <2>3, <2>5, OwedSettles
  <2> HIDE DEF s
  <2>8. Owes(s, c)
    BY <2>2, <2>3, <2>7 DEF Owes
  <2>9. ~OwesNothing(g)
    BY <1>3, IdleOwesNothing DEF OwesNothing
  <2> QED BY <2>1, <2>6, <2>7, <2>8, <2>9 DEF GuardOk, s
<1> QED BY <1>2, <1>3

\* A turn begins with nothing observed.
LEMMA TurnStartOk ==
  ASSUME NEW g, OwesNothing(g)
  PROVE  W!TurnStartEvent(g).state = W!Idle
<1>1. \A s, r : W!Result(s, r).state = s
  BY DEF W!Result
<1> QED BY <1>1, IdleOwesNothing, NothingSettles DEF OwesNothing, W!TurnStartEvent, W!ClearAbort

\* A message that starts is observed, and its goal is one the run works on.
LEMMA MessageStartOk ==
  ASSUME NEW g, NEW l, NEW c, NEW d, c \subseteq d, GuardOk(g, "turn", l, c)
  PROVE  /\ GuardOk(W!RunnableWorkStarted(g), "turn", l, d)
         /\ \A id \in GoalIds : id \in d => GuardOk(W!StaleWorkStarted(g, id), "turn", l, d)
<1>1. /\ g \in W!GuardStates /\ g.stale \subseteq d /\ g.kind # "aborting"
      /\ g.turnEnds = {} /\ g.agentEnds = <<>>
  BY IdleOwesNothing DEF GuardOk, OwesNothing
<1> DEFINE r == W!RunnableWorkStarted(g)
           s(id) == W!StaleWorkStarted(g, id)
<1>2. /\ r \in W!GuardStates /\ r.kind = "observing" /\ r.stale = g.stale
      /\ r.turnEnds = {} /\ r.agentEnds = <<>>
  BY <1>1 DEF W!RunnableWorkStarted, W!Observe, W!GuardStates, W!Kinds
<1>3. ASSUME NEW id \in GoalIds
      PROVE  /\ s(id) \in W!GuardStates /\ s(id).kind = "observing" /\ s(id).stale = g.stale \cup {id}
             /\ s(id).turnEnds = {} /\ s(id).agentEnds = <<>>
  BY <1>1 DEF W!StaleWorkStarted, W!Observe, W!GuardStates, W!Kinds
<1> HIDE DEF r, s
<1>4. GuardOk(r, "turn", l, d) /\ \A id \in GoalIds : id \in d => GuardOk(s(id), "turn", l, d)
  BY <1>1, <1>2, <1>3 DEF GuardOk, OwesNothing
<1> QED BY <1>4 DEF r, s

\* A turn with stale work alone is aborted, and its ends are owed.
LEMMA ContextOk ==
  ASSUME NEW g, NEW l, NEW c, GuardOk(g, "turn", l, c)
  PROVE  LET r == W!ContextAbort(g, Turn)
         IN  GuardOk(r.state, IF r.plan.aborts THEN "aborting" ELSE "model", l, c)
<1>1. \A s, p : W!Result(s, p).state = s /\ W!Result(s, p).plan = p
  BY DEF W!Result
<1>2. W!AbortPlan.aborts = TRUE /\ W!EmptyPlan.aborts = FALSE
  BY DEF W!AbortPlan, W!EmptyPlan, W!Plan
<1>3. /\ g \in W!GuardStates /\ g.stale \subseteq c /\ g.kind # "aborting" /\ OwesNothing(g)
      /\ g.turnEnds = {} /\ g.agentEnds = <<>>
  BY IdleOwesNothing DEF GuardOk, OwesNothing
<1>4. CASE W!StartsAbort(g)
  <2> DEFINE o == [goalIds |-> g.stale, anonymous |-> TRUE, phase |-> "active"]
             agentEnds == Append(W!WithAnonymous(W!WithPhase(g.agentEnds, "older"), TRUE), o)
             turnEnds == W!NoteTurn(g.turnEnds, Turn)
             s == [W!Idle EXCEPT !.kind = "aborting", !.activeTurn = Turn,
                                 !.turnEnds = turnEnds, !.agentEnds = agentEnds]
  <2>1. W!ContextAbort(g, Turn) = W!Result(s, W!AbortPlan)
    BY <1>3, <1>4 DEF W!ContextAbort
  <2>2. o \in W!Obligations /\ o.goalIds = g.stale /\ o.goalIds # {} /\ o.phase = "active"
    BY <1>3, <1>4 DEF W!GuardStates, W!Obligations, W!StartsAbort
  <2> HIDE DEF o
  <2>3. agentEnds = <<o>> /\ agentEnds \in Seq(W!Obligations)
    <3>1. W!WithAnonymous(W!WithPhase(<<>>, "older"), TRUE) = <<>>
      BY DEF W!WithAnonymous, W!WithPhase
    <3>2. agentEnds = Append(<<>>, o)
      BY <1>3, <3>1
    <3> HIDE DEF agentEnds
    <3>3. Append(<<>>, o) = <<o>> /\ <<o>> \in Seq(W!Obligations)
      BY <2>2
    <3> QED BY <3>2, <3>3
  <2>4. turnEnds \subseteq {Turn} /\ turnEnds \in SUBSET Nat /\ Turn \in Nat
    BY <1>3 DEF W!NoteTurn, Turn
  <2> HIDE DEF agentEnds, turnEnds
  <2>5. /\ s \in W!GuardStates /\ s.kind = "aborting" /\ s.activeTurn = Turn
        /\ s.turnEnds = turnEnds /\ s.agentEnds = agentEnds
    BY <2>3, <2>4 DEF W!Idle, W!GuardStates, W!Kinds
  <2> HIDE DEF s
  <2>6. Owes(s, c)
    BY <1>3, <2>2, <2>3, <2>5 DEF Owes
  <2>7. GuardOk(s, "aborting", l, c)
    BY <2>4, <2>5, <2>6 DEF GuardOk
  <2> QED BY <1>1, <1>2, <2>1, <2>7
<1>5. CASE ~W!StartsAbort(g)
  <2>1. W!ContextAbort(g, Turn) = W!Result(g, W!EmptyPlan)
    BY <1>3, <1>5 DEF W!ContextAbort, W!HasPending
  <2> QED BY <1>1, <1>2, <1>3, <2>1 DEF GuardOk
<1> QED BY <1>4, <1>5

\* After the end of the turn that was aborted only that of its run is owed.
LEMMA TurnEndOk ==
  ASSUME NEW g, NEW p \in {"model", "aborting"}, NEW l, NEW c, GuardOk(g, p, l, c),
         NEW outcome, p = "aborting" => outcome = "aborted"
  PROVE  GuardOk(W!TurnEndEvent(g, Turn).state, "ended", outcome, c)
<1> DEFINE consumed == [g EXCEPT !.turnEnds = @ \ {Turn}]
           h == W!TurnEndEvent(g, Turn).state
<1>1. \A s, r : W!Result(s, r).state = s
  BY DEF W!Result
<1>2. h \in {g, consumed, W!AfterTerminal(consumed)}
  BY <1>1 DEF W!TurnEndEvent
<1>3. CASE OwesNothing(g)
  <2>1. h = g
    BY <1>1, <1>3, IdleOwesNothing DEF W!TurnEndEvent, OwesNothing
  <2> HIDE DEF h
  <2>2. GuardOk(h, "ended", outcome, c)
    BY <1>3, <2>1 DEF GuardOk
  <2> QED BY <2>2 DEF h
<1>4. CASE ~OwesNothing(g)
  <2>1. /\ g \in W!GuardStates /\ Owes(g, c) /\ p = "aborting" /\ g.turnEnds \subseteq {Turn}
    BY <1>4 DEF GuardOk
  <2>2. h = g => g.turnEnds = {}
    <3>1. CASE Turn \notin g.turnEnds
      BY <2>1, <3>1
    <3>2. CASE Turn \in g.turnEnds
      <4>1. h \in {consumed, W!AfterTerminal(consumed)}
        BY <1>1, <3>2 DEF W!TurnEndEvent
      <4> QED BY <2>1, <3>2, <4>1, OwedSettles DEF W!AfterTerminal, Owes, W!GuardStates
    <3> QED BY <3>1, <3>2
  <2>3. /\ consumed \in W!GuardStates /\ consumed.turnEnds = {} /\ consumed.kind = g.kind
        /\ consumed.agentEnds = g.agentEnds /\ consumed.activeTurn = g.activeTurn
    BY <2>1 DEF W!GuardStates
  <2> HIDE DEF consumed
  <2>4. Owes(consumed, c)
    BY <2>1, <2>3 DEF Owes
  <2>5. PICK o \in W!Obligations : g.agentEnds = <<o>> /\ o.goalIds # {} /\ o.goalIds \subseteq c
    BY <2>1 DEF Owes
  <2> DEFINE s == W!Settle(consumed)
  <2>6. /\ s \in W!GuardStates /\ s.kind = "awaiting" /\ s.agentEnds = <<o>> /\ s.turnEnds = {}
    BY <2>3, <2>5, OwedSettles
  <2>7. W!AfterTerminal(consumed) \in {consumed, s}
    BY DEF W!AfterTerminal
  <2> HIDE DEF s, h
  <2>8. Owes(s, c)
    BY <2>5, <2>6 DEF Owes
  <2>9. h \in {g, consumed, s}
    BY <1>2, <2>7
  <2>10. Owes(h, c) /\ h.turnEnds = {} /\ h \in W!GuardStates
    BY <2>1, <2>2, <2>3, <2>4, <2>6, <2>8, <2>9
  <2>11. GuardOk(h, "ended", outcome, c)
    BY <2>1, <2>10 DEF GuardOk
  <2> QED BY <2>11 DEF h
<1> QED BY <1>3, <1>4

\* The end of a run is known by the goals it worked on, and settles what is owed.
LEMMA AgentEndOk ==
  ASSUME NEW g, NEW l, NEW c, GuardOk(g, "ended", l, c)
  PROVE  LET h == W!AgentEndEvent(g, [goalIds |-> c, terminal |-> TRUE]).state
         IN  h \in W!GuardStates /\ OwesNothing(h)
<1> DEFINE end == [goalIds |-> c, terminal |-> TRUE]
           h == W!AgentEndEvent(g, end).state
<1> SUFFICES h \in W!GuardStates /\ OwesNothing(h)
  OBVIOUS
<1>1. \A s, r : W!Result(s, r).state = s
  BY DEF W!Result
<1>2. CASE OwesNothing(g)
  <2>1. g.agentEnds = <<>> /\ g.kind \in {"idle", "observing"}
    BY <1>2, IdleOwesNothing DEF OwesNothing
  <2>2. W!PendingConsumed(<<>>, end) = {}
    BY DEF W!PendingConsumed, W!ByGoalAt, W!AnonymousFirst, W!AnonymousAt, W!FirstOf
  <2>3. W!Consume(<<>>, {}).taken = {}
    BY DEF W!Consume
  <2>4. h = g
    BY <1>1, <2>1, <2>2, <2>3 DEF W!AgentEndEvent
  <2> HIDE DEF h
  <2> QED BY <1>2, <2>4 DEF GuardOk
<1>3. CASE ~OwesNothing(g)
  <2>1. g \in W!GuardStates /\ Owes(g, c) /\ g.turnEnds = {}
    BY <1>3 DEF GuardOk
  <2>2. PICK o \in W!Obligations :
          /\ g.agentEnds = <<o>> /\ o.goalIds # {} /\ o.goalIds \subseteq c
          /\ \/ g.kind = "aborting" /\ o.phase = "active" /\ g.activeTurn = Turn
             \/ g.kind = "awaiting"
    BY <2>1 DEF Owes
  <2>3. end.goalIds = c /\ c # {} /\ ~W!IsAnonymous(end)
    BY <2>2 DEF W!IsAnonymous
  <2>4. DOMAIN <<o>> = {1} /\ <<o>>[1] = o
    OBVIOUS
  <2>5. \A ids, first : ids \cap o.goalIds # {} => W!ByGoalAt(<<o>>, ids, first) = {1}
    <3> SUFFICES ASSUME NEW ids, NEW first, ids \cap o.goalIds # {}
                 PROVE  W!ByGoalAt(<<o>>, ids, first) = {1}
      OBVIOUS
    <3>1. ~(1 < 1)
      OBVIOUS
    <3> QED BY <2>4, <3>1 DEF W!ByGoalAt
  <2>6. /\ W!Consume(<<o>>, {1}).rest = <<>> /\ W!Consume(<<o>>, {1}).taken = {o.phase}
    BY <2>4, NoneIsLeft DEF W!Consume
  <2> DEFINE left == [g EXCEPT !.agentEnds = <<>>]
  <2>7. /\ left.agentEnds = <<>> /\ left.turnEnds = {} /\ left.kind = g.kind
        /\ left \in W!GuardStates
    <3>1. <<>> \in Seq(W!Obligations)
      OBVIOUS
    <3> QED BY <2>1, <3>1 DEF W!GuardStates
  <2>8. W!Settle(left) = W!Idle
    BY <2>7, NothingSettles
  <2>9. CASE g.kind = "aborting"
    <3>1. W!AbortingConsumed(g, end) = {1}
      <4>1. W!GoalIdsAt(<<o>>, DOMAIN <<o>>) = o.goalIds
        BY <2>4 DEF W!GoalIdsAt
      <4>2. (c \cap o.goalIds) \cap o.goalIds # {}
        BY <2>2
      <4> QED BY <2>2, <2>3, <2>5, <4>1, <4>2 DEF W!AbortingConsumed
    <3> HIDE DEF end
    <3>2. h = W!FinishAbort(left).state
      <4>1. W!Consume(g.agentEnds, W!AbortingConsumed(g, end)) = W!Consume(<<o>>, {1})
        BY <2>2, <3>1
      <4>2. "active" \in W!Consume(<<o>>, {1}).taken
        BY <2>2, <2>6, <2>9
      <4> QED BY <2>6, <2>9, <4>1, <4>2 DEF W!AgentEndEvent
    <3>3. W!FinishAbort(left).state = W!Settle([left EXCEPT !.agentEnds = <<>>])
      BY <1>1, <2>7, NoneIsLeft DEF W!FinishAbort
    <3>4. [left EXCEPT !.agentEnds = <<>>] = left
      BY <2>7 DEF W!GuardStates
    <3> QED BY <2>8, <3>2, <3>3, <3>4, IdleOwesNothing
  <2>10. CASE g.kind = "awaiting"
    <3>1. W!PendingConsumed(<<o>>, end) = {1}
      BY <2>2, <2>3, <2>5 DEF W!PendingConsumed
    <3> HIDE DEF end
    <3>2. h = W!AfterTerminal(left)
      BY <1>1, <2>2, <2>6, <2>10, <3>1 DEF W!AgentEndEvent
    <3> QED BY <2>7, <2>8, <2>10, <3>2, IdleOwesNothing DEF W!AfterTerminal
  <2> QED BY <2>2, <2>9, <2>10
<1> QED BY <1>2, <1>3

-----------------------------------------------------------------------------
(***************************************************************************)
(* An active goal is awaited.  While a run goes on, its end decides; at    *)
(* any other time a goal that wants a turn is served by what is on its     *)
(* way.  What the decision needs is that the end of a run that stopped by  *)
(* itself never finds the guard aborting.                                  *)
(***************************************************************************)
RunPhases == {"turn", "model", "aborting", "ended"}

Awaited == open /\ ~gaveUp /\ phase \notin RunPhases => Served(mem, accepted)

WaitInv == Orderly(mem) /\ Awaited

\* Between runs the guard refuses no continuation.
LEMMA CalmBetweenRuns ==
  ASSUME NEW g, NEW p, NEW l, NEW c, GuardOk(g, p, l, c), p \notin RunPhases
  PROVE  g.kind # "aborting"
BY IdleOwesNothing DEF GuardOk, OwesNothing, RunPhases

\* The invariant in the next state.
LEMMA WaitNext ==
  ASSUME Orderly(mem'), open' /\ ~gaveUp' /\ phase' \notin RunPhases => Served(mem', accepted')
  PROVE  WaitInv'
BY DEF WaitInv, Awaited, Orderly, Served, Wants, IsActive, IsPending, Coming, Timed

\* A step after which a run is under way.
LEMMA WaitInside ==
  ASSUME Orderly(mem'), phase' \in RunPhases
  PROVE  WaitInv'
BY WaitNext

\* The scheduler serves the goal, or finds the mark of a turn that is queued,
\* and the mark stands for a message.
LEMMA ContinueServes ==
  ASSUME NEW m, Good(m), NEW a, Marked(m, {a}), ~Aborts(m),
         ~m.rec.recovering, NEW idle
  PROVE  /\ Served(MaybeContinue(m, idle), a)
         /\ Served(MaybeContinueAfterCurrentEvent(m), a)
<1>1. CASE ~CanPlanContinuation(m)
  <2>1. MaybeContinue(m, idle) = m /\ MaybeContinueAfterCurrentEvent(m) = m
    BY <1>1 DEF MaybeContinue, MaybeContinueAfterCurrentEvent
  <2>2. ASSUME Wants(m) PROVE Coming(m, a)
    <3>1. m.queuedFor = m.goal.id /\ m.queuedFor # Null
      BY <1>1, <2>2, NullAssumption DEF CanPlanContinuation, Wants, Aborts, IsActive, Good, Shaped,
                                        NoGoalOr, Goals
    <3>2. PICK message \in ToSet(m.queue) \cup ToSet(m.inbox) \cup {a} : message.id = m.queuedFor
      BY <3>1 DEF Marked
    <3>3. ToSet(<<>>) = {} /\ NoMessage.id = Null
      BY DEF ToSet, NoMessage
    <3> QED BY <3>1, <3>2, <3>3 DEF Coming
  <2> QED BY <2>1, <2>2 DEF Served
<1>2. CASE CanPlanContinuation(m)
  <2>1. Timed(ScheduleContinuationCheck(m))
    BY DEF ScheduleContinuationCheck, Timed, Good, Shaped
  <2> DEFINE sent == SendContinuation(ClearContinuationTimer(m))
  <2>2. sent.queue = Append(m.queue, Message("continuation", m.goal.id))
    BY DEF SendContinuation, ClearContinuationTimer, Good, Shaped
  <2>3. m.queue \in Seq(Messages)
    BY DEF Good, Shaped
  <2> HIDE DEF sent
  <2>4. sent.queue # <<>>
    BY <2>2, <2>3
  <2>5. MaybeContinue(m, idle) \in {ScheduleContinuationCheck(m), sent}
        /\ MaybeContinueAfterCurrentEvent(m) = ScheduleContinuationCheck(m)
    BY <1>2 DEF MaybeContinue, MaybeContinueAfterCurrentEvent, sent
  <2> QED BY <2>1, <2>4, <2>5 DEF Served, Coming
<1> QED BY <1>1, <1>2

\* Commands start a turn of the goal they make active.
LEMMA CommandsWait ==
  ASSUME Inv, WaitInv, Orderly(mem'),
         (\E id \in GoalIds : CommandStart(id)) \/ CommandPause \/ CommandResume \/ CommandClear
  PROVE  WaitInv'
<1>1. open /\ Good(mem) /\ UNCHANGED <<phase, last, accepted>>
  BY DEF CommandStart, CommandPause, CommandResume, CommandClear, Commanded, Inv, host
<1>2. ASSUME NEW id \in GoalIds, CommandStart(id) PROVE Served(mem', accepted')
  <2>1. mem.goal # Null => mem.goal.id # id
    BY <1>2 DEF CommandStart, Inv, Issued
  <2>2. Coming(StartGoal(mem, id), accepted)
    BY <1>1, <2>1, StartGoalKeeps
  <2> QED BY <1>1, <1>2, <2>2 DEF CommandStart, Commanded, Served
<1>3. CASE CommandPause
  <2>1. ~IsActive(mem')
    BY <1>1, <1>3, CommandsKeep DEF CommandPause, Commanded, IsActive
  <2> QED BY <1>1, <2>1, WaitNext DEF Served, Wants
<1>4. CASE CommandResume
  <2>1. mem.goal \in Goals /\ mem.goal # Null
    BY <1>1, <1>4 DEF CommandResume, Good, Shaped, NoGoalOr
  <2>2. Coming(mem', accepted)
    BY <1>1, <1>4, <2>1, CommandsKeep, StartMessagesKeep DEF CommandResume, Commanded
  <2> QED BY <1>1, <2>2, WaitNext DEF Served
<1>5. CASE CommandClear
  <2>1. ~IsActive(mem')
    BY <1>1, <1>5, CommandsKeep DEF CommandClear, Commanded
  <2> QED BY <1>1, <2>1, WaitNext DEF Served, Wants
<1> QED BY <1>1, <1>2, <1>3, <1>4, <1>5, WaitNext

\* A prompt that is dropped is one of another goal; the timer of the goal that
\* is active goes on.
LEMMA InputWaits ==
  ASSUME Inv, WaitInv, Orderly(mem'), ExtensionInput \/ UserInput \/ DeliverPrompt
  PROVE  WaitInv'
<1>1. open /\ Good(mem) /\ UNCHANGED <<phase, last, gaveUp, open>>
  BY OnlyWhenOpen DEF ExtensionInput, UserInput, DeliverPrompt, Inv, host
<1>2. CASE UserInput
  <2>1. accepted' # NoMessage
    BY <1>2 DEF UserInput, Message, NoMessage
  <2> QED BY <1>1, <2>1, WaitNext DEF Served, Coming
<1>3. CASE DeliverPrompt
  <2>1. mem'.queue # <<>>
    BY <1>3, DeliverStep
  <2> QED BY <1>1, <2>1, WaitNext DEF Served, Coming
<1>4. CASE ExtensionInput
  <2> DEFINE prompt == Head(mem.inbox)
             less == [mem EXCEPT !.inbox = Tail(@)]
             taken == ClearAbort(less)
             n == ClearContinuationStateFor(taken, prompt.id)
  <2>1. /\ mem.inbox \in Seq(Messages) /\ mem.inbox # <<>> /\ accepted = NoMessage
    BY <1>1, <1>4 DEF ExtensionInput, Good, Shaped
  <2>2. /\ prompt \in Messages /\ Tail(mem.inbox) \in Seq(Messages)
        /\ ToSet(mem.inbox) = ToSet(Tail(mem.inbox)) \cup {prompt}
    BY <2>1, HeadAndTail
  <2>3. \/ accepted' = prompt
        \/ ~IsCurrentActive(mem, prompt.id) /\ mem' = n /\ accepted' = accepted
    BY <1>4 DEF ExtensionInput
  <2> HIDE DEF prompt
  <2>4. CASE accepted' = prompt
    <3>1. accepted' # NoMessage
      BY <2>2, <2>4 DEF Messages, GoalKinds, NoMessage
    <3> QED BY <1>1, <3>1, WaitNext DEF Served, Coming
  <2>5. CASE ~IsCurrentActive(mem, prompt.id) /\ mem' = n /\ accepted' = accepted
    <3>1. /\ n.goal = mem.goal /\ n.rec = mem.rec /\ n.queue = mem.queue
          /\ n.inbox = Tail(mem.inbox) /\ n.fallback = mem.fallback
          /\ n.timerFor = IF mem.timerFor = prompt.id THEN Null ELSE mem.timerFor
      BY <1>1, <2>2 DEF ClearContinuationStateFor, ClearAbort, Good, Shaped
    <3> HIDE DEF n
    <3>2. ASSUME Wants(n), Served(mem, accepted) PROVE Coming(n, accepted) \/ Timed(n)
      <4>1. Wants(mem) /\ mem.goal.id # prompt.id
        BY <2>5, <3>1, <3>2 DEF Wants, IsActive, IsCurrentActive
      <4>2. Coming(mem, accepted) => Coming(n, accepted)
        BY <2>2, <3>1, <4>1 DEF Coming
      <4>3. Timed(mem) => Timed(n)
        BY <3>1, <4>1 DEF Timed
      <4> QED BY <3>2, <4>1, <4>2, <4>3 DEF Served
    <3>3. open' /\ ~gaveUp' /\ phase \notin RunPhases => Served(mem', accepted')
      BY <1>1, <2>5, <3>2 DEF WaitInv, Awaited, Served
    <3> QED BY <1>1, <3>3, WaitNext
  <2> QED BY <2>3, <2>4, <2>5
<1> QED BY <1>2, <1>3, <1>4

\* While a run goes on, only the timers need looking at.
LEMMA RunsWait ==
  ASSUME Inv, WaitInv, Orderly(mem'),
         \/ (\E id \in GoalIds : ToolCreateGoal(id)) \/ ToolCompleteGoal
         \/ (\E charge \in TimeCharges : ToolEnd(charge))
         \/ RunStart \/ HostRetry \/ NextTurn \/ MessageStart \/ Context
         \/ (\E outcome \in Outcomes, charge \in Charges : TurnEnd(outcome, charge))
  PROVE  WaitInv'
<1>1. phase' \in RunPhases
  BY DEF ToolCreateGoal, ToolCompleteGoal, ToolUsed, ToolEnd, MessageStart, RunStart, HostRetry,
         NextTurn, TurnStart, Context, TurnEnd, host, RunPhases
<1> QED BY <1>1, WaitInside

\* onAgentEnd pauses the goal, lets a recovery hold it, or serves it.
LEMMA AgentEndWaits ==
  ASSUME Inv, WaitInv, Orderly(mem'), ~Aborts(mem'), last \in Outcomes, NEW charge, AgentEnd(charge)
  PROVE  WaitInv'
<1> DEFINE r == W!AgentEndEvent(mem.guard, [goalIds |-> carried, terminal |-> TRUE])
           told == [mem EXCEPT !.guard = r.state]
           counted == AccountProgress(told, charge, FALSE)
<1>1. open /\ Good(mem) /\ Marked(mem, {accepted})
  BY OnlyWhenOpen DEF AgentEnd, Inv
<1>2. /\ mem' = IF r.plan.skip THEN told ELSE AgentEnded(told, last, charge)
      /\ gaveUp' = (r.plan.skip /\ IsActive(mem))
      /\ phase = "ended" /\ last # "toolUse" /\ phase' = "settling" /\ accepted' = accepted
  BY DEF AgentEnd
<1> HIDE DEF r
<1>4. Tells(mem, told, r.state, {accepted}) /\ told.goal = mem.goal
  BY <1>1, GuardTold DEF Good, Shaped
<1> HIDE DEF told
<1>5. Keeps(told, counted, {accepted})
  BY <1>4, AccountKeeps DEF Tells
<1>6. AgentEnded(told, last, charge) =
        CASE last = "aborted" -> PauseForAbort(counted)
          [] last \in Errors \cup {"silent"} -> AgentErrorHandled(counted, last)
          [] last = "stop" -> MaybeContinue(ResetErrorRecovery(counted), FALSE)
  BY DEF AgentEnded
<1> HIDE DEF counted
<1>7. Good(counted) /\ Marked(counted, {accepted})
  BY <1>1, <1>4, <1>5 DEF Keeps, Tells, Tame
<1>8. CASE r.plan.skip
  BY <1>2, <1>4, <1>8, WaitNext DEF RunPhases, Served, Wants, IsActive
<1>9. CASE ~r.plan.skip /\ last = "aborted"
  <2>1. mem' = PauseForAbort(counted)
    BY <1>2, <1>6, <1>9 DEF Errors
  <2>2. ~IsActive(mem')
    BY <1>7, <2>1, PausesKeep
  <2> QED BY <1>2, <2>2, WaitNext DEF RunPhases, Served, Wants
<1>10. CASE ~r.plan.skip /\ last \in Errors \cup {"silent"}
  <2>1. mem' = AgentErrorHandled(counted, last)
    BY <1>2, <1>6, <1>10 DEF Errors
  <2> DEFINE begun == IF IsOverflow(last) THEN BeginOverflowRecovery(counted) ELSE counted
  <2>2. Good(begun) /\ (IsOverflow(last) => ~Wants(begun))
    BY <1>7, OverflowKeeps DEF Keeps, Tells, Tame
  <2>3. mem' = HandlePersistentError(begun, last)
    BY <2>1 DEF AgentErrorHandled
  <2> HIDE DEF begun
  <2>4. ~Wants(mem')
    BY <1>10, <2>2, <2>3, ErrorKeeps
  <2> QED BY <1>2, <2>4, WaitNext DEF RunPhases, Served
<1>11. CASE ~r.plan.skip /\ last = "stop"
  <2> DEFINE reset == ResetErrorRecovery(counted)
  <2>1. mem' = MaybeContinue(reset, FALSE)
    BY <1>2, <1>6, <1>11 DEF Errors
  <2>2. Keeps(counted, reset, {accepted}) /\ ~reset.rec.recovering
    BY <1>7, ResetsKeep, RecoveryTypes DEF ResetErrorRecovery, Good, Shaped
  <2> HIDE DEF reset
  <2>3. ~Aborts(reset)
    BY <1>7, <2>1, <2>2, MaybeContinueKeeps DEF Keeps, Tells, Aborts
  <2>4. Served(mem', accepted)
    BY <1>7, <2>1, <2>2, <2>3, ContinueServes DEF Keeps, Tells, Tame
  <2> QED BY <1>2, <2>4, WaitNext DEF RunPhases
<1> QED BY <1>2, <1>8, <1>9, <1>10, <1>11 DEF Outcomes

\* What the host does by itself leaves what is on its way.
LEMMA QuietHostWaits ==
  ASSUME Inv, WaitInv, Orderly(mem'), Settle \/ CompactFail \/ CompactSettle \/ Bookmark
  PROVE  WaitInv'
<1>1. /\ UNCHANGED <<mem, open, accepted, gaveUp>>
      /\ phase \notin RunPhases /\ phase' \notin RunPhases
  BY DEF Settle, CompactFail, CompactSettle, Bookmark, host, RunPhases, Busy
<1> QED BY <1>1, WaitNext DEF WaitInv, Awaited

\* A compaction leaves a goal with its timer, or with the fallback, or it asks
\* the scheduler.
LEMMA CompactWaits ==
  ASSUME Inv, WaitInv, Orderly(mem'), phase \notin RunPhases => ~Aborts(mem),
         CompactDone \/ \E charge \in TimeCharges : CompactStart(charge)
  PROVE  WaitInv'
<1>1. /\ open /\ Good(mem) /\ Marked(mem, {accepted})
      /\ UNCHANGED <<open, accepted, gaveUp>>
      /\ phase \notin RunPhases /\ phase' \notin RunPhases
      /\ ~Aborts(mem)
  BY OnlyWhenOpen DEF CompactDone, CompactStart, Inv, RunPhases
<1>2. gaveUp \/ Served(mem, accepted)
  BY <1>1 DEF WaitInv, Awaited
<1>3. CASE mem' = mem
  BY <1>1, <1>2, <1>3, WaitNext
<1>4. ASSUME NEW charge \in TimeCharges, CompactStart(charge), mem' # mem PROVE WaitInv'
  <2>1. mem' = [mem EXCEPT !.warned = Null]
    BY <1>4 DEF CompactStart, AccountProgress, TimeCharges
  <2>2. /\ mem'.goal = mem.goal /\ mem'.rec = mem.rec /\ mem'.queue = mem.queue
        /\ mem'.inbox = mem.inbox /\ mem'.timerFor = mem.timerFor
        /\ mem'.fallback = mem.fallback
    BY <1>1, <2>1 DEF Good, Shaped
  <2>3. Served(mem, accepted) => Served(mem', accepted)
    BY <2>2 DEF Served, Wants, IsActive, Coming, Timed
  <2> QED BY <1>1, <1>2, <2>3, WaitNext
<1>5. CASE CompactDone /\ mem' # mem
  <2> DEFINE told == [mem EXCEPT !.rec = OnSessionCompact(@)]
  <2>1. mem' = SessionCompacted(mem)
    BY <1>5 DEF CompactDone
  <2>2. Keeps(mem, told, {accepted})
    BY <1>1, ResetsKeep
  <2>3. mem' = IF told.rec.recovering THEN [told EXCEPT !.fallback = "armed"]
               ELSE MaybeContinueAfterCurrentEvent(told)
    BY <2>1 DEF SessionCompacted
  <2> HIDE DEF told
  <2>4. Good(told) /\ ~Aborts(told) /\ Marked(told, {accepted})
    BY <1>1, <2>2 DEF Keeps, Tells, Aborts
  <2>5. CASE told.rec.recovering
    <3>1. Timed(mem')
      BY <2>3, <2>4, <2>5 DEF Timed, Good, Shaped
    <3> QED BY <1>1, <3>1, WaitNext DEF Served
  <2>6. CASE ~told.rec.recovering
    <3>1. Served(mem', accepted)
      BY <2>3, <2>4, <2>6, ContinueServes
    <3> QED BY <1>1, <3>1, WaitNext
  <2> QED BY <2>5, <2>6
<1> QED BY <1>3, <1>4, <1>5

\* A timer of the goal asks the scheduler; that of another goal takes nothing
\* from it.
LEMMA TimersWait ==
  ASSUME Inv, WaitInv, Orderly(mem'), phase \notin RunPhases => ~Aborts(mem),
         ContinuationTimer \/ FallbackTimer
  PROVE  WaitInv'
<1>1. /\ open /\ Good(mem) /\ Marked(mem, {accepted})
      /\ UNCHANGED <<open, phase, last, accepted>>
  BY OnlyWhenOpen DEF ContinuationTimer, FallbackTimer, Inv, host
<1>2. SUFFICES ASSUME ~gaveUp', phase \notin RunPhases, ~Aborts(mem)
               PROVE  Served(mem', accepted)
  BY <1>1, WaitNext
<1>3. CASE ContinuationTimer
  <2> DEFINE cleared == ClearContinuationTimer(mem)
  <2>1. mem' = MaybeContinue(cleared, ~Busy) /\ mem.timerFor # Null /\ gaveUp' = gaveUp
    BY <1>3 DEF ContinuationTimer
  <2>2. Keeps(mem, cleared, {accepted}) /\ cleared.rec = mem.rec /\ cleared.goal = mem.goal
        /\ cleared.queue = mem.queue /\ cleared.inbox = mem.inbox /\ cleared.guard = mem.guard
    BY <1>1, ClearKeeps DEF ClearContinuationTimer, Good, Shaped
  <2> HIDE DEF cleared
  <2>3. ~mem.rec.recovering
    BY <2>1 DEF WaitInv, Orderly
  <2> QED BY <1>1, <1>2, <2>1, <2>2, <2>3, ContinueServes DEF Keeps, Tells, Aborts
<1>4. CASE FallbackTimer
  <2> DEFINE fired == [mem EXCEPT !.fallback = "none"]
             calmed == [fired EXCEPT !.rec = ClearHostOverflowActive(@)]
  <2>1. /\ mem' = IF MayFallBack THEN MaybeContinue(calmed, TRUE) ELSE fired
        /\ ~gaveUp /\ (mem.fallback = "armed" => MayFallBack)
    BY <1>2, <1>4 DEF FallbackTimer
  <2>2. Served(mem, accepted)
    BY <1>1, <1>2, <2>1 DEF WaitInv, Awaited
  <2>3. /\ fired.rec = mem.rec /\ fired.goal = mem.goal /\ fired.queue = mem.queue
        /\ fired.inbox = mem.inbox /\ fired.guard = mem.guard /\ fired.timerFor = mem.timerFor
    BY <1>1 DEF Good, Shaped
  <2>4. Keeps(mem, fired, {accepted})
    BY <1>1, FallbackChangeKeeps
  <2> HIDE DEF fired
  <2>5. CASE ~MayFallBack
    BY <2>1, <2>2, <2>3, <2>5 DEF Served, Wants, IsActive, Coming, Timed
  <2>6. CASE MayFallBack
    <3>1. Keeps(fired, calmed, {accepted})
      BY <2>4, ResetsKeep DEF Keeps, Tells, Tame
    <3>2. /\ ~calmed.rec.recovering /\ calmed.goal = mem.goal /\ calmed.queue = mem.queue
          /\ calmed.inbox = mem.inbox /\ calmed.guard = mem.guard
          /\ calmed.rec.attention = mem.rec.attention
      BY <2>3, <2>4, RecoveryTypes DEF Keeps, Tells, Tame, Good, Shaped
    <3> HIDE DEF calmed
    <3>3. Good(calmed) /\ Marked(calmed, {accepted}) /\ ~Aborts(calmed)
      BY <1>1, <1>2, <2>4, <3>1, <3>2 DEF Keeps, Tells, Aborts
    <3> QED BY <2>1, <2>6, <3>2, <3>3, ContinueServes
  <2> QED BY <2>5, <2>6
<1> QED BY <1>3, <1>4

\* A new session asks the user, or the scheduler.
LEMMA SessionsWait ==
  ASSUME Inv, WaitInv, Orderly(mem'),
         \/ \E resumes \in BOOLEAN : SessionStart(resumes)
         \/ Crash \/ \E charge \in TimeCharges : SessionShutdown(charge)
  PROVE  WaitInv'
<1>1. CASE Crash \/ \E charge \in TimeCharges : SessionShutdown(charge)
  <2>1. ~open' /\ phase' = "idle"
    BY <1>1 DEF Crash, SessionShutdown, EndWith, HostReset
  <2> QED BY <2>1, WaitNext DEF RunPhases
<1>2. ASSUME NEW resumes \in BOOLEAN, SessionStart(resumes) PROVE WaitInv'
  <2> DEFINE empty == FreshMemory(Null, FALSE)
             read == ReloadFromSession(empty, mem.goal, mem.cap)
  <2>1. /\ mem' = IF resumes THEN QueueGoalUserTurn(ResumePausedGoal(read))
                  ELSE MaybeContinue(read, TRUE)
        /\ resumes => mem.goal # Null /\ mem.goal.status = "paused"
        /\ ~open /\ UNCHANGED <<phase, last, accepted>>
    BY <1>2 DEF SessionStart, host
  <2>2. Shaped(empty) /\ ~empty.rec.recovering /\ ~Aborts(empty)
    BY FreshIsOrderly, IdleOwesNothing DEF Aborts, FreshMemory, Shaped, NoGoalOr, FreshRecovery, Recoveries, Attentions
  <2> HIDE DEF empty
  <2>3. /\ Good(read) /\ read.goal = mem.goal /\ Marked(read, {accepted})
        /\ ~read.rec.recovering /\ ~Aborts(read)
    BY <2>2, ReloadDoes DEF Inv, Eases, Aborts
  <2> HIDE DEF read
  <2>4. Served(mem', accepted)
    <3>1. CASE resumes
      BY <2>1, <2>3, <3>1, CommandsKeep DEF Served
    <3>2. CASE ~resumes
      BY <2>1, <2>3, <3>2, ContinueServes
    <3> QED BY <3>1, <3>2
  <2> QED BY <2>1, <2>4, WaitNext
<1> QED BY <1>1, <1>2

\* A move in the tree reads another goal and asks the scheduler, unless it
\* broke off a recovery.
LEMMA TreeWaits ==
  ASSUME Inv, WaitInv, Orderly(mem'), phase \notin RunPhases => ~Aborts(mem), SessionTree
  PROVE  WaitInv'
<1> DEFINE calm == [mem EXCEPT !.fallback = "none"]
           read == ReloadFromSession(calm, older.goal, older.cap)
<1>1. /\ open /\ mem' = MaybeContinue(read, TRUE) /\ gaveUp' = mem.rec.recovering
      /\ phase = "idle" /\ UNCHANGED <<open, phase, accepted>>
  BY DEF SessionTree, Busy, host
<1>2. /\ Shaped(calm) /\ older.goal \in NoGoalOr /\ older.cap \in BOOLEAN
      /\ calm.rec = mem.rec /\ calm.guard = mem.guard
  BY <1>1 DEF Inv, Good, Shaped
<1> HIDE DEF calm
<1>3. Good(read) /\ Marked(read, {accepted}) /\ Eases(calm, read)
  BY <1>2, ReloadDoes
<1> HIDE DEF read
<1>4. ASSUME ~gaveUp' PROVE Served(mem', accepted)
  <2>1. ~read.rec.recovering /\ ~Aborts(read)
    BY <1>1, <1>2, <1>3, <1>4 DEF Eases, Aborts, RunPhases
  <2> QED BY <1>1, <1>3, <2>1, ContinueServes
<1> QED BY <1>1, <1>4, WaitNext

-----------------------------------------------------------------------------
(***************************************************************************)
(* Every step, by the lemma of its action.                                 *)
(***************************************************************************)
\* What a step leaves in the guard is what it leaves in the guard.
LEMMA DoneAnyhow == ASSUME NEW g, StepDone(g) PROVE StepDone(mem'.guard)
BY DEF StepDone

\* Every step but a move in the tree.
LEMMA NextDone ==
  ASSUME Inv, last \in Outcomes, Next
  PROVE  StepDone(mem'.guard) \/ SessionTree
<1>1. CASE UserSteps
  BY <1>1, CommandSteps, InputSteps, QuietHostSteps, EndSteps, StartStep, DoneAnyhow DEF UserSteps
<1>2. CASE ModelSteps
  BY <1>2, ToolSteps, TurnSteps, DoneAnyhow DEF ModelSteps
<1>3. CASE RunSteps
  <2>1. \/ ExtensionInput \/ DeliverPrompt \/ (RunStart \/ HostRetry \/ NextTurn) \/ MessageStart
        \/ \/ Context
           \/ \E outcome \in Outcomes, charge \in Charges : TurnEnd(outcome, charge)
           \/ \E charge \in Charges : AgentEnd(charge)
        \/ CompactDone \/ (Settle \/ CompactFail \/ CompactSettle)
    BY <1>3 DEF RunSteps
  <2> QED BY <2>1, InputSteps, DeliverStep, TurnStartSteps, MessageStep, TurnSteps,
             QuietHostSteps, CompactSteps, DoneAnyhow
<1>4. CASE TimerSteps
  BY <1>4, TimerStepsDone, DoneAnyhow DEF TimerSteps
<1>5. CASE \E charge \in TimeCharges : CompactStart(charge)
  BY <1>5, CompactSteps, DoneAnyhow
<1> QED BY <1>1, <1>2, <1>3, <1>4, <1>5 DEF Next

\* The invariant is inductive, and no step times a continuation in a recovery.
LEMMA StepInv ==
  ASSUME Inv, last \in Outcomes, [Next]_vars
  PROVE  Inv' /\ (Orderly(mem) => Orderly(mem'))
<1>1. CASE Next
  BY <1>1, NextDone, TreeStep DEF StepDone
<1>2. CASE UNCHANGED vars
  BY <1>2, SameMemory DEF vars, host, StepDone
<1> QED BY <1>1, <1>2

\* The variables of the host have their types.
HostOK ==
    /\ open \in BOOLEAN /\ fresh \in BOOLEAN /\ retry \in BOOLEAN
    /\ phase \in Phases /\ last \in Outcomes
    /\ carried \subseteq GoalIds /\ used \subseteq GoalIds

LEMMA HostTyped ==
  ASSUME Inv, HostOK, [Next]_vars
  PROVE  HostOK'
<1>1. "stop" \in Outcomes /\ \A p \in {"idle", "turn", "model", "aborting", "ended", "settling",
                                       "compacting", "compacted"} : p \in Phases
  BY DEF Outcomes, Phases
<1>2. CASE UNCHANGED vars
  BY <1>2 DEF vars, host, HostOK
<1>3. CASE UserSteps
  BY <1>1, <1>3 DEF UserSteps, host, CommandStart, CommandPause, CommandResume, CommandClear,
     Commanded, UserInput, Bookmark, SessionTree, SessionShutdown, Crash, EndWith, HostReset,
     SessionStart, HostOK
<1>4. CASE ModelSteps
  BY <1>4 DEF ModelSteps, host, ToolCreateGoal, ToolCompleteGoal, ToolUsed, ToolEnd, HostOK
<1>5. CASE MessageStart
  <2>1. PICK message \in Messages : carried' = carried \cup ({message.id} \ {Null})
    BY <1>5, MessageStep
  <2>2. message.id \in GoalIds \cup {Null}
    BY DEF Messages
  <2> QED BY <1>5, <2>1, <2>2 DEF MessageStart, HostOK
<1>6. CASE RunSteps /\ ~MessageStart
  BY <1>1, <1>6 DEF RunSteps, host, ExtensionInput, DeliverPrompt, RunStart, HostRetry, NextTurn,
     TurnStart, Context, TurnEnd, AgentEnd, Settle, CompactDone, CompactFail, CompactSettle, HostOK
<1>7. CASE TimerSteps \/ \E charge \in TimeCharges : CompactStart(charge)
  BY <1>1, <1>7 DEF TimerSteps, host, ContinuationTimer, FallbackTimer, CompactStart, HostOK
<1> QED BY <1>2, <1>3, <1>4, <1>5, <1>6, <1>7 DEF Next

-----------------------------------------------------------------------------
(***************************************************************************)
(* The guard, step by step.                                                *)
(***************************************************************************)
GuardInv == GuardOk(mem.guard, phase, last, carried)

\* In most phases the guard owes nothing, and then nothing depends on the run.
LEMMA OwesNothingBetweenRuns ==
  ASSUME NEW g, NEW p, p \notin {"turn", "aborting", "ended"}
  PROVE  \A l, c : GuardOk(g, p, l, c) <=> g \in W!GuardStates /\ OwesNothing(g)
BY DEF GuardOk

\* A step that leaves the guard alone, or releases an aborted turn, in a run
\* or between runs.
LEMMA GuardKept ==
  ASSUME GuardInv,
         mem'.guard = mem.guard \/ mem'.guard = W!ClearAbort(mem.guard).state,
         \/ UNCHANGED <<phase, last, carried>>
         \/ /\ phase \notin {"turn", "aborting", "ended"}
            /\ phase' \notin {"turn", "aborting", "ended"}
  PROVE  GuardInv'
<1>1. GuardOk(mem'.guard, phase, last, carried)
  BY ClearAbortOk DEF GuardInv
<1>2. GuardOk(mem'.guard, phase', last', carried')
  BY <1>1, OwesNothingBetweenRuns
<1> QED BY <1>2 DEF GuardInv

\* The steps of a run.
LEMMA RunGuard ==
  ASSUME Inv, GuardInv, HostOK,
         \/ RunStart \/ HostRetry \/ NextTurn \/ MessageStart \/ Context
         \/ (\E outcome \in Outcomes, charge \in Charges : TurnEnd(outcome, charge))
         \/ (\E charge \in Charges : AgentEnd(charge))
  PROVE  GuardInv'
<1>1. CASE RunStart \/ HostRetry \/ NextTurn
  <2>1. /\ phase = "idle" \/ (phase = "ended" /\ last # "aborted")
        /\ phase' = "turn"
    BY <1>1 DEF RunStart, HostRetry, NextTurn, TurnStart
  <2>2. OwesNothing(mem.guard)
    BY <2>1 DEF GuardInv, GuardOk
  <2>3. mem'.guard = W!Idle
    BY <1>1, <2>2, TurnStartSteps, TurnStartOk DEF StepDone
  <2>4. GuardOk(mem'.guard, phase', last', carried')
    BY <2>1, <2>3, IdleOwesNothing
  <2> QED BY <2>4 DEF GuardInv
<1>2. CASE MessageStart
  <2>1. phase = "turn" /\ phase' = "turn" /\ last' = last
    BY <1>2 DEF MessageStart
  <2>2. PICK message \in Messages :
          /\ carried' = carried \cup ({message.id} \ {Null})
          /\ \/ mem'.guard = W!RunnableWorkStarted(mem.guard)
             \/ message.id # Null /\ mem'.guard = W!StaleWorkStarted(mem.guard, message.id)
    BY <1>2, MessageStep
  <2>3. message.id \in GoalIds \cup {Null}
    BY DEF Messages
  <2>4. GuardOk(mem.guard, "turn", last, carried)
    BY <2>1 DEF GuardInv
  <2>5. carried \subseteq carried' /\ (message.id # Null => message.id \in carried')
    BY <2>2
  <2>6. GuardOk(mem'.guard, "turn", last, carried')
    <3>1. /\ GuardOk(W!RunnableWorkStarted(mem.guard), "turn", last, carried')
          /\ \A id \in GoalIds : id \in carried' =>
               GuardOk(W!StaleWorkStarted(mem.guard, id), "turn", last, carried')
      BY <2>4, <2>5, MessageStartOk
    <3>2. CASE message.id \in GoalIds
      BY <2>2, <2>5, <3>1, <3>2
    <3>3. CASE message.id = Null
      BY <2>2, <3>1, <3>3
    <3> QED BY <2>3, <3>2, <3>3
  <2> QED BY <2>1, <2>6 DEF GuardInv
<1>3. CASE Context
  <2> DEFINE r == W!ContextAbort(mem.guard, Turn)
  <2>1. /\ phase = "turn" /\ phase' = IF r.plan.aborts THEN "aborting" ELSE "model"
        /\ UNCHANGED <<last, carried>>
    BY <1>3 DEF Context
  <2>2. mem'.guard = r.state
    BY <1>3, TurnSteps DEF HostOK
  <2>3. GuardOk(r.state, IF r.plan.aborts THEN "aborting" ELSE "model", last, carried)
    BY <2>1, ContextOk DEF GuardInv
  <2> HIDE DEF r
  <2> QED BY <2>1, <2>2, <2>3 DEF GuardInv
<1>4. CASE \E outcome \in Outcomes, charge \in Charges : TurnEnd(outcome, charge)
  <2>1. PICK outcome \in Outcomes, charge \in Charges : TurnEnd(outcome, charge)
    BY <1>4
  <2>2. /\ phase \in {"model", "aborting"} /\ (phase = "aborting" => outcome = "aborted")
        /\ phase' = "ended" /\ last' = outcome /\ carried' = carried
    BY <2>1 DEF TurnEnd
  <2>3. mem'.guard = W!TurnEndEvent(mem.guard, Turn).state
    BY <1>4, TurnSteps DEF HostOK
  <2>4. GuardOk(mem'.guard, "ended", outcome, carried)
    BY <2>2, <2>3, TurnEndOk DEF GuardInv
  <2> QED BY <2>2, <2>4 DEF GuardInv
<1>5. CASE \E charge \in Charges : AgentEnd(charge)
  <2>1. phase = "ended" /\ phase' = "settling"
    BY <1>5 DEF AgentEnd
  <2> DEFINE h == W!AgentEndEvent(mem.guard, [goalIds |-> carried, terminal |-> TRUE]).state
  <2>2. mem'.guard = h
    BY <1>5, TurnSteps DEF HostOK
  <2>3. h \in W!GuardStates /\ OwesNothing(h)
    BY <2>1, AgentEndOk DEF GuardInv
  <2> HIDE DEF h
  <2>4. GuardOk(mem'.guard, phase', last', carried')
    BY <2>1, <2>2, <2>3, OwesNothingBetweenRuns
  <2> QED BY <2>4 DEF GuardInv
<1> QED BY <1>1, <1>2, <1>3, <1>4, <1>5

\* Every step, in a run or not.
LEMMA StepGuard ==
  ASSUME Inv, GuardInv, HostOK, [Next]_vars
  PROVE  GuardInv'
<1> USE DEF HostOK
<1>1. CASE UNCHANGED vars
  BY <1>1, GuardKept DEF vars, host
<1>2. CASE UserSteps
  <2>1. CASE Crash \/ \E charge \in TimeCharges : SessionShutdown(charge)
    <3>1. mem'.guard = W!Idle /\ phase' = "idle"
      BY <2>1, EndSteps DEF StepDone, Crash, SessionShutdown, EndWith, HostReset
    <3>2. GuardOk(mem'.guard, phase', last', carried')
      BY <3>1, IdleOwesNothing
    <3> QED BY <3>2 DEF GuardInv
  <2>2. CASE \E resumes \in BOOLEAN : SessionStart(resumes)
    <3>1. mem'.guard = W!Idle /\ phase' = "idle"
      BY <2>2, StartStep DEF StepDone, SessionStart, Inv, Closed, host
    <3>2. GuardOk(mem'.guard, phase', last', carried')
      BY <3>1, IdleOwesNothing
    <3> QED BY <3>2 DEF GuardInv
  <2>3. CASE (\E id \in GoalIds : CommandStart(id)) \/ CommandPause \/ CommandResume \/ CommandClear
             \/ Bookmark
    <3>1. mem'.guard = mem.guard
      BY <2>3, CommandSteps, QuietHostSteps DEF StepDone
    <3>2. UNCHANGED <<phase, last, carried>>
      BY <2>3 DEF CommandStart, CommandPause, CommandResume, CommandClear, Commanded, Bookmark, host
    <3> QED BY <3>1, <3>2, GuardKept
  <2>4. CASE UserInput \/ SessionTree
    <3>1. mem'.guard = mem.guard \/ mem'.guard = W!ClearAbort(mem.guard).state
      BY <2>4, InputSteps, TreeStep DEF StepDone
    <3>2. UNCHANGED <<phase, last, carried>>
      BY <2>4 DEF UserInput, SessionTree, host
    <3> QED BY <3>1, <3>2, GuardKept
  <2> QED BY <1>2, <2>1, <2>2, <2>3, <2>4 DEF UserSteps
<1>3. CASE ModelSteps
  <2>1. mem'.guard = mem.guard
    BY <1>3, ToolSteps, TurnSteps DEF ModelSteps, StepDone
  <2>2. UNCHANGED <<phase, last, carried>>
    BY <1>3 DEF ModelSteps, ToolCreateGoal, ToolCompleteGoal, ToolUsed, ToolEnd, host
  <2> QED BY <2>1, <2>2, GuardKept
<1>4. CASE RunSteps
  <2>1. CASE ExtensionInput \/ DeliverPrompt
    <3>1. mem'.guard = mem.guard \/ mem'.guard = W!ClearAbort(mem.guard).state
      BY <2>1, InputSteps, DeliverStep DEF StepDone
    <3>2. UNCHANGED <<phase, last, carried>>
      BY <2>1 DEF ExtensionInput, DeliverPrompt, host
    <3> QED BY <3>1, <3>2, GuardKept
  <2>2. CASE Settle \/ CompactFail \/ CompactSettle \/ CompactDone
    <3>1. mem'.guard = mem.guard
      BY <2>2, QuietHostSteps, CompactSteps DEF StepDone
    <3>2. phase \in {"settling", "compacting", "compacted"} /\ phase' \in {"idle", "compacted"}
      BY <2>2 DEF Settle, CompactFail, CompactSettle, CompactDone
    <3> QED BY <3>1, <3>2, GuardKept
  <2> QED BY <1>4, <2>1, <2>2, RunGuard DEF RunSteps
<1>5. CASE TimerSteps
  <2>1. mem'.guard = mem.guard
    BY <1>5, TimerStepsDone DEF TimerSteps, StepDone
  <2>2. UNCHANGED <<phase, last, carried>>
    BY <1>5 DEF TimerSteps, ContinuationTimer, FallbackTimer, host
  <2> QED BY <2>1, <2>2, GuardKept
<1>6. CASE \E charge \in TimeCharges : CompactStart(charge)
  <2>1. mem'.guard = mem.guard
    BY <1>6, CompactSteps DEF StepDone
  <2>2. phase \in {"settling", "idle"} /\ phase' = "compacting"
    BY <1>6 DEF CompactStart
  <2> QED BY <2>1, <2>2, GuardKept
<1> QED BY <1>1, <1>2, <1>3, <1>4, <1>5, <1>6 DEF Next

-----------------------------------------------------------------------------
(***************************************************************************)
(* The invariants of the system.                                           *)
(***************************************************************************)
\* Without tree moves, attention goes on fitting the goal.
LEMMA StepFit == Inv /\ Fit(mem) /\ ~TreeMoves /\ last \in Outcomes /\ [Next]_vars => Fit(mem)'
<1> SUFFICES ASSUME Inv, Fit(mem), ~TreeMoves, last \in Outcomes, [Next]_vars
             PROVE  Fit(mem)'
  OBVIOUS
<1>1. CASE Next
  BY <1>1, NextDone DEF StepDone, SessionTree
<1>2. CASE UNCHANGED vars
  BY <1>2, SameMemory DEF vars, host, StepDone
<1> QED BY <1>1, <1>2

\* A goal that wants a turn goes on being awaited.
LEMMA StepWait ==
  ASSUME Inv, GuardInv, GuardInv', WaitInv, last \in Outcomes, [Next]_vars
  PROVE  WaitInv'
<1>1. Orderly(mem')
  BY StepInv DEF WaitInv
<1>2. phase \notin RunPhases => ~Aborts(mem)
  BY CalmBetweenRuns DEF GuardInv, Aborts
<1>3. GuardOk(mem'.guard, phase', last', carried')
  BY DEF GuardInv
<1>4. phase' \notin RunPhases => ~Aborts(mem')
  BY <1>3, CalmBetweenRuns DEF Aborts
<1>5. CASE UNCHANGED vars
  <2>1. UNCHANGED <<phase, last, open, gaveUp, accepted, mem>>
    BY <1>5 DEF vars, host
  <2> QED BY <1>1, <2>1, WaitNext DEF WaitInv, Awaited
<1>6. CASE UserSteps
  BY <1>1, <1>2, <1>6, CommandsWait, InputWaits, QuietHostWaits, SessionsWait, TreeWaits
     DEF UserSteps
<1>7. CASE ModelSteps
  BY <1>1, <1>7, RunsWait DEF ModelSteps
<1>8. CASE RunSteps
  <2>1. CASE \E charge \in Charges : AgentEnd(charge)
    <3>1. phase' = "settling"
      BY <2>1 DEF AgentEnd
    <3>2. ~Aborts(mem')
      BY <1>4, <3>1 DEF RunPhases
    <3> QED BY <1>1, <2>1, <3>2, AgentEndWaits
  <2> QED BY <1>1, <1>2, <1>8, <2>1, InputWaits, RunsWait, QuietHostWaits, CompactWaits
          DEF RunSteps
<1>9. CASE TimerSteps
  BY <1>1, <1>2, <1>9, TimersWait DEF TimerSteps
<1>10. CASE \E charge \in TimeCharges : CompactStart(charge)
  BY <1>1, <1>2, <1>10, CompactWaits
<1> QED BY <1>5, <1>6, <1>7, <1>8, <1>9, <1>10 DEF Next

\* What every reachable state satisfies, with or without tree moves.
Reached == Inv /\ HostOK /\ GuardInv /\ WaitInv

LEMMA ReachedAlways == Spec => []Reached
<1>1. Init => Reached
  <2> SUFFICES ASSUME Init PROVE Reached
    OBVIOUS
  <2>1. Inv /\ HostOK
    BY InitInv DEF Init, HostOK, Outcomes, Phases
  <2>2. Orderly(mem) /\ mem.guard = W!Idle
    BY FreshIsOrderly DEF Init
  <2>3. GuardInv
    BY <2>2, IdleOwesNothing DEF GuardInv, Init
  <2> QED BY <2>1, <2>2, <2>3 DEF Reached, WaitInv, Awaited, Init
<1>2. Reached /\ [Next]_vars => Reached'
  <2> SUFFICES ASSUME Reached, [Next]_vars PROVE Reached'
    OBVIOUS
  <2>1. Inv /\ HostOK /\ GuardInv /\ WaitInv /\ last \in Outcomes
    BY DEF Reached, HostOK
  <2>2. Inv' /\ HostOK' /\ GuardInv'
    BY <2>1, StepInv, HostTyped, StepGuard
  <2>3. WaitInv'
    BY <2>1, <2>2, StepWait
  <2> QED BY <2>2, <2>3 DEF Reached
<1> QED BY <1>1, <1>2, PTL DEF Spec

\* And, without tree moves, attention fits the goal.
LEMMA FitAlways == ~TreeMoves /\ Spec => [](Fit(mem))
<1> SUFFICES ASSUME ~TreeMoves PROVE Spec => [](Fit(mem))
  OBVIOUS
<1>1. Init => Fit(mem)
  BY InitInv
<1>2. Reached /\ Fit(mem) /\ [Next]_vars => Fit(mem)'
  BY StepFit DEF Reached, HostOK
<1> QED BY <1>1, <1>2, ReachedAlways, PTL DEF Spec

-----------------------------------------------------------------------------
(***************************************************************************)
(* The theorems.                                                           *)
(***************************************************************************)
\* Every variable keeps its type, the guard with what it owes to aborted turns
\* included.
THEOREM RuntimeTypesHold == Spec => []TypeOK
<1>1. Reached => TypeOK
  <2> SUFFICES ASSUME Reached PROVE TypeOK
    OBVIOUS
  <2>1. Inv /\ HostOK /\ mem.guard \in W!GuardStates
    BY DEF Reached, GuardInv, GuardOk
  <2>2. mem \in Memories
    <3>1. CASE open
      BY <2>1, <3>1 DEF Inv, Good, Shaped, Memories
    <3>2. CASE ~open
      <4>1. mem = FreshMemory(mem.goal, mem.cap) /\ mem.goal \in NoGoalOr /\ mem.cap \in BOOLEAN
        BY <2>1, <3>2 DEF Inv, Closed
      <4>2. FreshRecovery \in Recoveries
        BY DEF FreshRecovery, Recoveries, Attentions
      <4>3. <<>> \in Seq(Messages)
        OBVIOUS
      <4>4. FreshMemory(mem.goal, mem.cap) \in Memories
        BY <4>1, <4>2, <4>3, IdleOwesNothing DEF FreshMemory, Memories
      <4> QED BY <4>1, <4>4
    <3> QED BY <3>1, <3>2
  <2> QED BY <2>1, <2>2 DEF Inv, HostOK, TypeOK
<1> QED BY <1>1, ReachedAlways, PTL

\* The flag in memory that asks for a turn the user starts is always the one in
\* the log, whatever the commands, errors, restarts and moves in the tree.
THEOREM CapFlagIsMirrored == Spec => []CapFlagMirrorsLog
<1>1. Reached => CapFlagMirrorsLog
  BY DEF Reached, Inv, Good, Mirrors, CapFlagMirrorsLog
<1> QED BY <1>1, ReachedAlways, PTL

\* A goal marked as having its turn queued has a message on its way to the
\* host, so that the mark never stops its continuations for good.
THEOREM MarkIsBacked == Spec => []QueuedMarkHasMessage
<1>1. Reached => QueuedMarkHasMessage
  BY DEF Reached, Inv, Marked, QueuedMarkHasMessage, InFlight
<1> QED BY <1>1, ReachedAlways, PTL

\* Without moves in the session tree, a goal that overflows again after a
\* compaction is not left active.
THEOREM RepeatedOverflowAlwaysPauses == ~TreeMoves /\ Spec => []RepeatedOverflowPauses
<1>1. Fit(mem) => RepeatedOverflowPauses
  BY DEF Fit, RepeatedOverflowPauses
<1> QED BY <1>1, FitAlways, PTL

\* Without moves in the session tree, what is shown of recovery belongs to a
\* goal in the matching status.
THEOREM AttentionAlwaysFits == ~TreeMoves /\ Spec => []AttentionFitsGoal
<1>1. Fit(mem) => AttentionFitsGoal
  BY DEF Fit, AttentionFitsGoal
<1> QED BY <1>1, FitAlways, PTL

\* An active goal is never forgotten in an idle host: whatever the commands,
\* turns, errors, compactions, timers, restarts and moves in the tree, a
\* message, a timer or a recovery is to come, unless a handler has just chosen
\* not to continue it.
THEOREM ActiveGoalIsAlwaysAwaited == Spec => []ActiveGoalIsAwaited
<1>1. Reached => ActiveGoalIsAwaited
  <2> SUFFICES ASSUME Reached, Forgotten, ~gaveUp PROVE FALSE
    BY DEF ActiveGoalIsAwaited
  <2>1. open /\ phase \notin RunPhases /\ Wants(mem)
    BY DEF Forgotten, NothingComing, Busy, RunPhases, Wants
  <2>2. ~Coming(mem, accepted)
    BY DEF Forgotten, NothingComing, Coming, ToSet
  <2>3. ~Timed(mem)
    BY DEF Forgotten, Timed
  <2> QED BY <2>1, <2>2, <2>3 DEF Reached, WaitInv, Awaited, Served
<1> QED BY <1>1, ReachedAlways, PTL
=============================================================================
