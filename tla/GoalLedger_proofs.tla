--------------------------- MODULE GoalLedger_proofs ---------------------------
(***************************************************************************)
(* The ledger's safety properties, proved for every number of goals, every *)
(* budget, clock and log.                                                  *)
(*                                                                         *)
(* A handler is a composition of operations on the ledger, so the proof is *)
(* one lemma per operation.  Inside a handler a ledger is only Mid: tokens *)
(* may have been counted and not yet written.  Between handlers it is      *)
(* Between, and that is the inductive invariant of the specification.      *)
(***************************************************************************)
EXTENDS GoalLedger, TLAPS, WellFoundedInduction, SequenceTheorems

-----------------------------------------------------------------------------
(***************************************************************************)
(* What reading a goal back from the session log computes, for every log:  *)
(* ReconstructGoal unfolds one entry at a time.  Replay is a recursive     *)
(* function, so each fact is proved from a least counterexample.           *)
(***************************************************************************)
NatLess == OpToRel(<, Nat)

\* Every nonempty set of natural numbers has a least element.
LEMMA LeastNat ==
  ASSUME NEW S \in SUBSET Nat, S # {}
  PROVE  \E n \in S : \A m \in S : n <= m
<1>1. PICK n \in S : \A m \in S : ~(<<m, n>> \in NatLess)
  BY NatLessThanWellFounded, WFMin, Zenon DEF NatLess
<1>2. ASSUME NEW m \in S PROVE n <= m
  <2>1. <<m, n>> \in NatLess <=> m < n
    BY <1>1 DEF NatLess, OpToRel
  <2> QED BY <2>1, <1>1
<1> QED BY <1>2

IsReplay(g, log, n) ==
    g = [i \in 0..n |-> IF i = 0 THEN Null ELSE ApplyEntry(g[i - 1], log[i])]

\* The replay of the first n entries of a log exists, for every n.
LEMMA ReplayExists ==
  ASSUME NEW log
  PROVE  \A n \in Nat : \E g : IsReplay(g, log, n)
<1> DEFINE Bad == {n \in Nat : ~\E g : IsReplay(g, log, n)}
<1> SUFFICES ASSUME Bad # {} PROVE FALSE
  OBVIOUS
<1>1. PICK n \in Bad : \A m \in Bad : n <= m
  BY LeastNat
<1>2. CASE n = 0
  <2> DEFINE g == [i \in 0..0 |-> Null]
  <2>1. g = [i \in 0..0 |-> IF i = 0 THEN Null ELSE ApplyEntry(g[i - 1], log[i])]
    OBVIOUS
  <2> QED BY <1>2, <2>1 DEF IsReplay
<1>3. CASE n # 0
  <2>1. n - 1 \in Nat /\ n - 1 \notin Bad
    BY <1>1, <1>3
  <2>2. PICK g : IsReplay(g, log, n - 1)
    BY <2>1
  <2> DEFINE h == [i \in 0..n |-> IF i = n THEN ApplyEntry(g[n - 1], log[n]) ELSE g[i]]
  <2>3. h = [i \in 0..n |-> IF i = 0 THEN Null ELSE ApplyEntry(h[i - 1], log[i])]
    <3>1. \A i \in 0..(n - 1) : g[i] = IF i = 0 THEN Null ELSE ApplyEntry(g[i - 1], log[i])
      BY <2>2 DEF IsReplay
    <3>2. \A i \in 1..n : h[i - 1] = g[i - 1]
      BY <2>1
    <3>3. ASSUME NEW i \in 0..n
          PROVE  h[i] = IF i = 0 THEN Null ELSE ApplyEntry(h[i - 1], log[i])
      <4>1. CASE i = n
        BY <4>1, <3>2, <1>3, <2>1
      <4>2. CASE i # n
        <5>1. i \in 0..(n - 1) /\ h[i] = g[i]
          BY <4>2, <2>1
        <5> QED BY <5>1, <3>1, <3>2, <2>1
      <4> QED BY <4>1, <4>2
    <3> HIDE DEF h
    <3>4. h = [i \in 0..n |-> h[i]]
      BY DEF h
    <3> QED BY <3>3, <3>4
  <2> HIDE DEF h
  <2>4. IsReplay(h, log, n)
    BY <2>3 DEF IsReplay
  <2> QED BY <2>4
<1> QED BY <1>2, <1>3

\* Replay is the recursive function it is written as.
LEMMA ReplayUnfolds ==
  ASSUME NEW log, Len(log) \in Nat
  PROVE  IsReplay(Replay(log), log, Len(log))
<1>1. \E g : IsReplay(g, log, Len(log))
  BY ReplayExists
<1>2. Replay(log) = CHOOSE g : IsReplay(g, log, Len(log))
  BY Zenon DEF Replay, IsReplay
<1> QED BY <1>1, <1>2

-----------------------------------------------------------------------------
\* Nothing is read from an empty log.
LEMMA ReconstructEmpty == ReconstructGoal(<<>>) = Null
<1>1. IsReplay(Replay(<<>>), <<>>, 0)
  BY ReplayUnfolds, EmptySeq
<1> QED BY <1>1 DEF IsReplay, ReconstructGoal

\* The goals read from a log do not change when entries are added after it.
LEMMA ReplayOfPrefix ==
  ASSUME NEW log1 \in Seq(Entries), NEW log2 \in Seq(Entries), NEW k \in Nat,
         k <= Len(log1), k <= Len(log2), \A i \in 1..k : log1[i] = log2[i]
  PROVE  \A i \in 0..k : Replay(log1)[i] = Replay(log2)[i]
<1> DEFINE g == Replay(log1)
           h == Replay(log2)
           Bad == {i \in 0..k : g[i] # h[i]}
<1>1. /\ Len(log1) \in Nat /\ IsReplay(g, log1, Len(log1))
      /\ Len(log2) \in Nat /\ IsReplay(h, log2, Len(log2))
  BY ReplayUnfolds, LenProperties
<1> HIDE DEF g, h
<1> SUFFICES ASSUME Bad # {} PROVE FALSE
  BY DEF g, h
<1>2. PICK i \in Bad : \A j \in Bad : i <= j
  <2>1. Bad \in SUBSET Nat
    OBVIOUS
  <2> QED BY <2>1, LeastNat
<1>3. g[i] = IF i = 0 THEN Null ELSE ApplyEntry(g[i - 1], log1[i])
  <2>1. i \in 0..Len(log1)
    BY <1>1
  <2> QED BY <1>1, <2>1 DEF IsReplay
<1>4. h[i] = IF i = 0 THEN Null ELSE ApplyEntry(h[i - 1], log2[i])
  <2>1. i \in 0..Len(log2)
    BY <1>1
  <2> QED BY <1>1, <2>1 DEF IsReplay
<1>5. i # 0 => g[i - 1] = h[i - 1] /\ log1[i] = log2[i]
  BY <1>2
<1> QED BY <1>2, <1>3, <1>4, <1>5

\* Reading one entry more is applying it to what was read so far.
LEMMA ReplayAppend ==
  ASSUME NEW log \in Seq(Entries), NEW e \in Entries
  PROVE  /\ \A i \in 0..Len(log) : Replay(Append(log, e))[i] = Replay(log)[i]
         /\ Replay(Append(log, e))[Len(log) + 1] = ApplyEntry(ReconstructGoal(log), e)
<1> DEFINE l == Append(log, e)
<1>1. /\ l \in Seq(Entries) /\ Len(l) = Len(log) + 1 /\ l[Len(log) + 1] = e
      /\ \A i \in 1..Len(log) : l[i] = log[i]
  BY AppendProperties
<1>2. Len(log) \in Nat
  BY LenProperties
<1> HIDE DEF l
<1>3. \A i \in 0..Len(log) : Replay(l)[i] = Replay(log)[i]
  BY <1>1, <1>2, ReplayOfPrefix
<1>4. IsReplay(Replay(l), l, Len(log) + 1)
  BY <1>1, <1>2, ReplayUnfolds
<1>5. Replay(l)[Len(log) + 1] = ApplyEntry(Replay(l)[Len(log)], l[Len(log) + 1])
  BY <1>2, <1>4 DEF IsReplay
<1>6. Replay(l)[Len(log) + 1] = ApplyEntry(ReconstructGoal(log), e)
  BY <1>1, <1>2, <1>3, <1>5 DEF ReconstructGoal
<1> QED BY <1>3, <1>6 DEF l

LEMMA ReconstructAppend ==
  ASSUME NEW log \in Seq(Entries), NEW e \in Entries
  PROVE  ReconstructGoal(Append(log, e)) = ApplyEntry(ReconstructGoal(log), e)
BY ReplayAppend, AppendProperties DEF ReconstructGoal

\* What is read after n entries is what the first n entries alone give.
LEMMA ReconstructPrefix ==
  ASSUME NEW log \in Seq(Entries), NEW n \in 0..Len(log)
  PROVE  /\ SubSeq(log, 1, n) \in Seq(Entries)
         /\ Len(SubSeq(log, 1, n)) = n
         /\ \A i \in 1..n : SubSeq(log, 1, n)[i] = log[i]
         /\ ReconstructGoal(SubSeq(log, 1, n)) = Replay(log)[n]
<1> DEFINE p == SubSeq(log, 1, n)
<1>1. Len(log) \in Nat /\ \A i \in 1..n : log[i] \in Entries
  BY LenProperties, ElementOfSeq
<1>2. /\ p \in Seq(Entries) /\ Len(p) = n
      /\ \A i \in 1..n : p[i] = log[i]
  BY <1>1, SubSeqProperties
<1> HIDE DEF p
<1>3. ReconstructGoal(p) = Replay(log)[n]
  BY <1>1, <1>2, ReplayOfPrefix DEF ReconstructGoal
<1> QED BY <1>2, <1>3 DEF p

\* One entry turns a goal or none into a goal or none.
LEMMA ApplyEntryType ==
  ASSUME NEW g \in GoalOrNull, NEW e \in Entries
  PROVE  ApplyEntry(g, e) \in GoalOrNull
<1>1. CASE e \in ClearEntries
  BY <1>1 DEF ApplyEntry, ClearEntries, GoalOrNull
<1>2. CASE e \in SetEntries
  BY <1>2 DEF ApplyEntry, SetEntries, GoalOrNull
<1>3. CASE e \in UsageEntries
  <2>1. CASE CanApplyRuntimeUsageEntry(g, e)
    <3>1. g \in Goals
      BY <2>1 DEF CanApplyRuntimeUsageEntry, GoalOrNull
    <3> QED BY <1>3, <2>1, <3>1
            DEF ApplyEntry, UsageEntries, GoalOrNull, Goals, RuntimeStatuses, Statuses
  <2>2. CASE ~CanApplyRuntimeUsageEntry(g, e)
    BY <1>3, <2>2 DEF ApplyEntry, UsageEntries
  <2> QED BY <2>1, <2>2
<1> QED BY <1>1, <1>2, <1>3 DEF Entries

\* Every log of well-formed entries is read as a well-formed goal, or none.
THEOREM ReconstructType ==
  ASSUME NEW log \in Seq(Entries)
  PROVE  \A n \in 0..Len(log) : Replay(log)[n] \in GoalOrNull
<1> DEFINE Bad == {n \in 0..Len(log) : Replay(log)[n] \notin GoalOrNull}
<1> SUFFICES ASSUME Bad # {} PROVE FALSE
  OBVIOUS
<1>1. Len(log) \in Nat /\ IsReplay(Replay(log), log, Len(log))
  BY LenProperties, ReplayUnfolds
<1>2. PICK n \in Bad : \A m \in Bad : n <= m
  <2>1. Bad \in SUBSET Nat
    BY <1>1
  <2> QED BY <2>1, LeastNat
<1>3. Replay(log)[n] = IF n = 0 THEN Null ELSE ApplyEntry(Replay(log)[n - 1], log[n])
  BY <1>1 DEF IsReplay
<1>4. CASE n = 0
  BY <1>3, <1>4 DEF GoalOrNull
<1>5. CASE n # 0
  <2>1. n - 1 \in 0..Len(log) /\ n - 1 \notin Bad
    BY <1>1, <1>2, <1>5
  <2>2. log[n] \in Entries
    BY <1>1, <1>5, ElementOfSeq
  <2>3. ApplyEntry(Replay(log)[n - 1], log[n]) \in GoalOrNull
    BY <2>1, <2>2, ApplyEntryType
  <2> QED BY <1>3, <1>5, <2>3
<1> QED BY <1>4, <1>5

-----------------------------------------------------------------------------
(***************************************************************************)
(* The inductive invariant.                                                *)
(***************************************************************************)
\* The accounting belongs to the active goal in memory.
AccountingOK(m) ==
    /\ (m.owner = Null) <=> (m.since = Null)
    /\ m.owner # Null => /\ m.goal # Null
                         /\ m.goal.status = "active"
                         /\ m.goal.id = m.owner

GoodGoal(g, ids) == g # Null => g.id \in ids /\ WithinBudget(g)

\* Every prefix of the log is read as a good goal, and usage never rewinds.
GoodLog(log, ids) ==
    /\ \A n \in 0..Len(log) : GoodGoal(Replay(log)[n], ids)
    /\ \A n \in 1..Len(log) : NeverRewinds(Replay(log)[n - 1], Replay(log)[n])

\* The goal in memory is the durable one, or, while it is active, the durable
\* one moved forward.
Behind(p, g) ==
    /\ (p = Null) <=> (g = Null)
    /\ g # Null => /\ p.id = g.id /\ p.status = g.status /\ p.budget = g.budget
                   /\ p.tokens <= g.tokens /\ p.seconds <= g.seconds
                   /\ p.updatedAt <= g.updatedAt
                   /\ g.status # "active" => p = g

Readable(m, ids) ==
    /\ m \in Ledgers
    /\ m.persisted = ReconstructGoal(m.log)
    /\ GoodLog(m.log, ids)

Mid(m, ids) ==
    /\ Readable(m, ids)
    /\ GoodGoal(m.goal, ids)
    /\ AccountingOK(m)
    /\ Behind(m.persisted, m.goal)

Between(m, ids) ==
    /\ Mid(m, ids)
    /\ m.goal # Null => m.goal.tokens = m.persisted.tokens

-----------------------------------------------------------------------------
(***************************************************************************)
(* Writing the goal.                                                       *)
(***************************************************************************)
\* A good log stays good when a good goal is written at its end.
LEMMA GoodLogAppend ==
  ASSUME NEW log \in Seq(Entries), NEW e \in Entries, NEW ids, GoodLog(log, ids),
         GoodGoal(ApplyEntry(ReconstructGoal(log), e), ids),
         NeverRewinds(ReconstructGoal(log), ApplyEntry(ReconstructGoal(log), e))
  PROVE  GoodLog(Append(log, e), ids)
<1> DEFINE l == Append(log, e)
<1>1. Len(log) \in Nat /\ Len(l) = Len(log) + 1
  BY AppendProperties, LenProperties
<1>2. /\ \A i \in 0..Len(log) : Replay(l)[i] = Replay(log)[i]
      /\ Replay(l)[Len(log) + 1] = ApplyEntry(ReconstructGoal(log), e)
  BY ReplayAppend
<1> HIDE DEF l
<1>3. ASSUME NEW n \in 0..Len(l) PROVE GoodGoal(Replay(l)[n], ids)
  <2>1. CASE n = Len(log) + 1
    BY <1>2, <2>1
  <2>2. CASE n \in 0..Len(log)
    BY <1>2, <2>2 DEF GoodLog
  <2> QED BY <1>1, <2>1, <2>2
<1>4. ASSUME NEW n \in 1..Len(l) PROVE NeverRewinds(Replay(l)[n - 1], Replay(l)[n])
  <2>1. CASE n = Len(log) + 1
    BY <1>1, <1>2, <2>1 DEF ReconstructGoal
  <2>2. CASE n \in 1..Len(log)
    <3>1. Replay(l)[n - 1] = Replay(log)[n - 1] /\ Replay(l)[n] = Replay(log)[n]
      BY <1>1, <1>2, <2>2
    <3> QED BY <2>2, <3>1 DEF GoodLog
  <2> QED BY <1>1, <2>1, <2>2
<1> QED BY <1>3, <1>4 DEF GoodLog, l

\* A prefix of a good log is good, and so is the goal it is read as.
LEMMA GoodLogPrefix ==
  ASSUME NEW log \in Seq(Entries), NEW ids, GoodLog(log, ids), NEW n \in 0..Len(log)
  PROVE  /\ GoodLog(SubSeq(log, 1, n), ids)
         /\ GoodGoal(ReconstructGoal(SubSeq(log, 1, n)), ids)
<1> DEFINE p == SubSeq(log, 1, n)
<1>1. /\ p \in Seq(Entries) /\ Len(p) = n /\ \A i \in 1..n : p[i] = log[i]
      /\ ReconstructGoal(p) = Replay(log)[n]
  BY ReconstructPrefix
<1>2. Len(log) \in Nat
  BY LenProperties
<1> HIDE DEF p
<1>3. \A i \in 0..n : Replay(p)[i] = Replay(log)[i]
  BY <1>1, <1>2, ReplayOfPrefix
<1>4. \A i \in 0..n : GoodGoal(Replay(p)[i], ids)
  BY <1>2, <1>3 DEF GoodLog
<1>5. \A i \in 1..n : NeverRewinds(Replay(p)[i - 1], Replay(p)[i])
  BY <1>2, <1>3 DEF GoodLog
<1> QED BY <1>1, <1>2, <1>4, <1>5 DEF GoodLog, p

\* The goal of a Readable log is well-formed and good.
LEMMA ReadableGoal ==
  ASSUME NEW log \in Seq(Entries), NEW ids, GoodLog(log, ids)
  PROVE  ReconstructGoal(log) \in GoalOrNull /\ GoodGoal(ReconstructGoal(log), ids)
<1>1. Len(log) \in Nat
  BY LenProperties
<1> QED BY <1>1, ReconstructType DEF GoodLog, ReconstructGoal

\* The entry a flush writes is one the reader accepts, and it is read as the
\* goal in memory.
Forward(p, g) ==
    /\ ~(p.status = "budgetLimited" /\ g.status = "active")
    /\ p.tokens <= g.tokens /\ p.seconds <= g.seconds /\ p.updatedAt <= g.updatedAt

LEMMA FlushedEntryReadsBack ==
  ASSUME NEW m \in Ledgers, m.goal \in Goals, NEW source,
         source = "runtime" /\ CanPersistRuntimeUsageEntry(m.goal, m.persisted)
           => Forward(m.persisted, m.goal)
  PROVE  /\ FlushedEntry(m, source) \in Entries
         /\ ApplyEntry(m.persisted, FlushedEntry(m, source)) = m.goal
<1>1. CASE source = "runtime" /\ CanPersistRuntimeUsageEntry(m.goal, m.persisted)
  <2> DEFINE g == m.goal
             p == m.persisted
             e == RuntimeUsageEntry(g)
  <2>1. FlushedEntry(m, source) = e
    BY <1>1 DEF FlushedEntry
  <2>2. /\ g \in Goals /\ p \in Goals /\ p.id = g.id /\ p.budget = g.budget
        /\ g.status \in RuntimeStatuses /\ p.status \in RuntimeStatuses
        /\ Forward(p, g)
    BY <1>1 DEF CanPersistRuntimeUsageEntry, IsRuntimeUsageGoalStatus, Ledgers, GoalOrNull
  <2> HIDE DEF g, p
  <2>3. e \in UsageEntries
    BY <2>2 DEF RuntimeUsageEntry, UsageEntries, Goals
  <2>4. CanApplyRuntimeUsageEntry(p, e)
    BY <2>2, GoalStateAssumption
       DEF CanApplyRuntimeUsageEntry, RuntimeUsageEntry, Forward, Goals, IsRuntimeUsageGoalStatus
  <2>5. ApplyEntry(p, e) = [p EXCEPT !.status = g.status, !.tokens = g.tokens,
                                     !.seconds = g.seconds, !.updatedAt = g.updatedAt]
    BY <2>4 DEF ApplyEntry, RuntimeUsageEntry
  <2>6. ApplyEntry(p, e) = g
    BY <2>2, <2>5 DEF Goals
  <2> QED BY <2>1, <2>3, <2>6 DEF Entries, g, p
<1>2. CASE ~(source = "runtime" /\ CanPersistRuntimeUsageEntry(m.goal, m.persisted))
  BY <1>2 DEF FlushedEntry, SetEntry, SetEntries, Entries, ApplyEntry
<1> QED BY <1>1, <1>2

\* After a flush the durable copy is the goal in memory, and the log says so.
LEMMA FlushWrites ==
  ASSUME NEW m, NEW ids, Readable(m, ids), m.goal \in Goals, GoodGoal(m.goal, ids),
         NeverRewinds(m.persisted, m.goal), NEW t \in Nat, NEW source,
         source = "runtime" /\ CanPersistRuntimeUsageEntry(m.goal, m.persisted)
           => Forward(m.persisted, m.goal)
  PROVE  LET f == FlushGoalPersistence(m, source, t)
         IN  /\ Readable(f, ids)
             /\ f.goal = m.goal /\ f.persisted = m.goal
             /\ f.owner = m.owner /\ f.since = m.since
<1> DEFINE f == FlushGoalPersistence(m, source, t)
           e == FlushedEntry(m, source)
<1>1. m \in Ledgers /\ m.log \in Seq(Entries) /\ m.goal # Null
  BY GoalStateAssumption DEF Readable, Ledgers
<1>2. CASE m.goal = m.persisted
  BY <1>2 DEF FlushGoalPersistence
<1>3. CASE m.goal # m.persisted
  <2>1. f = [m EXCEPT !.log = Append(m.log, e), !.persisted = m.goal, !.persistedAt = t]
    BY <1>1, <1>3 DEF FlushGoalPersistence
  <2>2. e \in Entries /\ ApplyEntry(m.persisted, e) = m.goal
    BY <1>1, FlushedEntryReadsBack
  <2> HIDE DEF e
  <2>3. f.goal = m.goal /\ f.persisted = m.goal /\ f.owner = m.owner /\ f.since = m.since
        /\ f.log = Append(m.log, e)
    BY <1>1, <2>1 DEF Ledgers
  <2>4. f \in Ledgers
    <3>1. Append(m.log, e) \in Seq(Entries)
      BY <1>1, <2>2, AppendProperties
    <3> QED BY <1>1, <2>1, <3>1 DEF Ledgers, GoalOrNull, Instants
  <2>5. ReconstructGoal(f.log) = m.goal
    BY <1>1, <2>2, <2>3, ReconstructAppend DEF Readable
  <2>6. GoodLog(f.log, ids)
    BY <1>1, <2>2, <2>3, GoodLogAppend DEF Readable
  <2> QED BY <2>3, <2>4, <2>5, <2>6 DEF Readable
<1> QED BY <1>2, <1>3

\* A flush between two handlers' operations writes whatever was deferred.
LEMMA FlushSettles ==
  ASSUME NEW m, NEW ids, Mid(m, ids), NEW t \in Nat
  PROVE  Between(FlushGoalPersistence(m, "runtime", t), ids)
<1>1. CASE m.goal = Null
  BY <1>1 DEF FlushGoalPersistence, Mid, Between
<1>2. CASE m.goal # Null
  <2> DEFINE f == FlushGoalPersistence(m, "runtime", t)
  <2>1. m.goal \in Goals /\ m.persisted \in Goals /\ m \in Ledgers
    BY <1>2 DEF Mid, Readable, Ledgers, GoalOrNull, Behind
  <2>2. NeverRewinds(m.persisted, m.goal)
    BY <1>2 DEF NeverRewinds, Mid, Behind
  <2>3. Forward(m.persisted, m.goal)
    BY <1>2 DEF Mid, Behind, Forward
  <2>4. /\ Readable(f, ids)
        /\ f.goal = m.goal /\ f.persisted = m.goal
        /\ f.owner = m.owner /\ f.since = m.since
    BY <2>1, <2>2, <2>3, FlushWrites DEF Mid
  <2> HIDE DEF f
  <2>5. AccountingOK(f)
    BY <2>4 DEF AccountingOK, Mid
  <2>6. Behind(f.persisted, f.goal)
    BY <2>1, <2>4 DEF Behind, Goals
  <2> QED BY <2>4, <2>5, <2>6 DEF Mid, Between, f
<1> QED BY <1>1, <1>2

-----------------------------------------------------------------------------
(***************************************************************************)
(* Transitions.                                                            *)
(***************************************************************************)
ForgetsAccounting(m, plan) ==
    plan.next.status # "active" \/ m.goal = Null \/ m.goal.id # plan.next.id
      => "clearActiveAccounting" \in plan.before

LEMMA EffectsKeep ==
  ASSUME NEW m \in Ledgers, NEW ids, NEW effects
  PROVE  LET b == ApplyEffects(m, effects)
         IN  /\ b \in Ledgers
             /\ b.goal = m.goal /\ b.persisted = m.persisted /\ b.log = m.log
             /\ b.persistedAt = m.persistedAt
             /\ Readable(m, ids) => Readable(b, ids)
             /\ IF "clearActiveAccounting" \in effects
                THEN b.owner = Null /\ b.since = Null
                ELSE b.owner = m.owner /\ b.since = m.since
BY DEF ApplyEffects, ClearActiveAccounting, Ledgers, Readable, Instants

\* A plan that sets the goal leaves a written goal and its own accounting.
LEMMA SetSettles ==
  ASSUME NEW m, NEW ids, Readable(m, ids), AccountingOK(m), NEW plan, NEW t \in Nat,
         plan.persist = "set", plan.next \in Goals, GoodGoal(plan.next, ids),
         NeverRewinds(m.persisted, plan.next), ForgetsAccounting(m, plan),
         plan.source = "runtime" /\ CanPersistRuntimeUsageEntry(plan.next, m.persisted)
           => Forward(m.persisted, plan.next)
  PROVE  /\ Between(ApplyGoalTransition(m, plan, t), ids)
         /\ ApplyGoalTransition(m, plan, t).goal = plan.next
<1> DEFINE b == ApplyEffects(m, plan.before)
           c == [b EXCEPT !.goal = plan.next]
           f == FlushGoalPersistence(c, plan.source, t)
<1>1. m \in Ledgers
  BY DEF Readable
<1>2. /\ b \in Ledgers /\ b.persisted = m.persisted /\ b.log = m.log
      /\ Readable(b, ids)
      /\ IF "clearActiveAccounting" \in plan.before
         THEN b.owner = Null /\ b.since = Null
         ELSE b.owner = m.owner /\ b.since = m.since
  BY <1>1, EffectsKeep
<1>3. ApplyGoalTransition(m, plan, t) = f
  BY DEF ApplyGoalTransition
<1> HIDE DEF b
<1>4. /\ c.goal = plan.next /\ c.persisted = m.persisted
      /\ c.owner = b.owner /\ c.since = b.since /\ c.log = b.log
      /\ c \in Ledgers
  BY <1>2 DEF Ledgers, GoalOrNull
<1> HIDE DEF c
<1>5. Readable(c, ids)
  BY <1>2, <1>4 DEF Readable
<1>6. /\ Readable(f, ids) /\ f.goal = plan.next /\ f.persisted = plan.next
      /\ f.owner = b.owner /\ f.since = b.since
  BY <1>4, <1>5, FlushWrites
<1> HIDE DEF f
<1>7. AccountingOK(f)
  BY <1>2, <1>6, GoalStateAssumption DEF AccountingOK, ForgetsAccounting
<1>8. Behind(f.persisted, f.goal)
  BY <1>6 DEF Behind, Goals
<1> QED BY <1>3, <1>6, <1>7, <1>8 DEF Between, Mid

\* /goal clear
LEMMA ClearSettles ==
  ASSUME NEW m, NEW ids, Readable(m, ids), NEW t \in Nat
  PROVE  Between(ApplyGoalTransition(m, ClearPlan, t), ids)
<1> DEFINE c == ApplyGoalTransition(m, ClearPlan, t)
           b == ApplyEffects(m, ClearPlan.before)
<1>1. m \in Ledgers /\ m.log \in Seq(Entries)
  BY DEF Readable, Ledgers
<1>2. b \in Ledgers /\ b.log = m.log /\ b.owner = Null /\ b.since = Null
  BY <1>1, EffectsKeep DEF ClearPlan, ForgetGoal
<1> HIDE DEF b
<1>3. c = [b EXCEPT !.goal = Null, !.persisted = Null, !.persistedAt = Null,
                    !.log = Append(b.log, ClearEntry)]
  BY DEF ApplyGoalTransition, ClearPlan, b
<1> HIDE DEF c
<1>4. ClearEntry \in Entries /\ ApplyEntry(ReconstructGoal(m.log), ClearEntry) = Null
  BY DEF ClearEntry, ClearEntries, Entries, ApplyEntry
<1>5. /\ Append(m.log, ClearEntry) \in Seq(Entries)
      /\ ReconstructGoal(Append(m.log, ClearEntry)) = Null
  BY <1>1, <1>4, AppendProperties, ReconstructAppend
<1>6. GoodLog(Append(m.log, ClearEntry), ids)
  BY <1>1, <1>4, GoodLogAppend DEF Readable, GoodGoal, NeverRewinds
<1>7. /\ c \in Ledgers /\ c.goal = Null /\ c.persisted = Null /\ c.owner = Null
      /\ c.since = Null /\ c.log = Append(m.log, ClearEntry)
  BY <1>2, <1>3, <1>5 DEF Ledgers, GoalOrNull, Instants
<1> QED BY <1>5, <1>6, <1>7 DEF Between, Mid, Readable, GoodGoal, AccountingOK, Behind, c

\* Memory effects drop the accounting of a goal that goes or stops.
LEMMA MemoryEffectsForget ==
  ASSUME NEW current, NEW next,
         next.status # "active" \/ current = Null \/ current.id # next.id
  PROVE  "clearActiveAccounting" \in MemoryEffects(current, next)
<1>1. CASE GoalIdChanged(current, next)
  BY <1>1 DEF MemoryEffects, ForgetGoal
<1>2. CASE ~GoalIdChanged(current, next)
  <2>1. next.status # "active"
    BY <1>2 DEF GoalIdChanged
  <2> QED BY <2>1 DEF MemoryEffects
<1> QED BY <1>1, <1>2

\* setGoal with a new goal or a new state of the goal.
LEMMA SetGoalSettles ==
  ASSUME NEW m, NEW ids, Between(m, ids), NEW next \in Goals, GoodGoal(next, ids),
         NeverRewinds(m.persisted, next), NEW source \in {"command", "tool"}, NEW t \in Nat
  PROVE  /\ Between(SetGoal(m, next, source, t), ids)
         /\ SetGoal(m, next, source, t).goal = next
<1> DEFINE plan == SetPlan(m.goal, next, source)
<1>1. m \in Ledgers
  BY DEF Between, Mid, Readable
<1>2. CASE m.goal = next
  <2>1. plan.persist = "skip" /\ plan.before = {}
    BY <1>2 DEF SetPlan
  <2>2. SetGoal(m, next, source, t) = m
    BY <2>1 DEF SetGoal, ApplyGoalTransition, ApplyEffects
  <2> QED BY <1>2, <2>2
<1>3. CASE m.goal # next
  <2>1. /\ plan.persist = "set" /\ plan.next = next /\ plan.source = source
        /\ plan.before = MemoryEffects(m.goal, next)
    BY <1>3 DEF SetPlan
  <2>2. ForgetsAccounting(m, plan)
    BY <2>1, MemoryEffectsForget DEF ForgetsAccounting
  <2> HIDE DEF plan
  <2>3. /\ Between(ApplyGoalTransition(m, plan, t), ids)
        /\ ApplyGoalTransition(m, plan, t).goal = next
    BY <2>1, <2>2, SetSettles DEF Between, Mid
  <2> QED BY <2>3 DEF SetGoal, plan
<1> QED BY <1>2, <1>3

LEMMA UnixSecondsType ==
  ASSUME NEW t \in Nat
  PROVE  UnixSeconds(t) \in Nat
BY GoalStateAssumption DEF UnixSeconds

LEMMA ElapsedSecondsType ==
  ASSUME NEW since \in Nat, NEW t \in Nat
  PROVE  ElapsedSeconds(since, t) \in Nat
<1>1. (t - since) \div TicksPerSecond \in Int
  BY GoalStateAssumption
<1> QED BY <1>1 DEF ElapsedSeconds, Larger

\* A status change that is not to budgetLimited keeps id, budget and usage.
LEMMA DeriveKeeps ==
  ASSUME NEW g \in Goals, NEW ids, GoodGoal(g, ids), NEW t \in Nat,
         NEW status \in {"active", "paused", "complete"},
         g.status \in {"active", "paused"} \/ status = "complete"
  PROVE  LET n == DeriveGoalWithStatus(g, status, t)
         IN  /\ n \in Goals /\ GoodGoal(n, ids)
             /\ n.id = g.id /\ n.budget = g.budget /\ n.status = status
             /\ n.tokens = g.tokens /\ n.seconds = g.seconds
<1> DEFINE n == DeriveGoalWithStatus(g, status, t)
<1>1. UnixSeconds(t) \in Nat /\ g # Null
  BY UnixSecondsType, GoalStateAssumption
<1>2. StatusAfterBudgetLimit(status, g.tokens, g.budget) = status
  BY <1>1, GoalStateAssumption
     DEF StatusAfterBudgetLimit, GoodGoal, WithinBudget, Goals, Budgets, Statuses
<1>3. n = [g EXCEPT !.status = status, !.updatedAt = UnixSeconds(t)]
  BY <1>2 DEF DeriveGoalWithStatus
<1> HIDE DEF n
<1>4. /\ n \in Goals
      /\ n.id = g.id /\ n.budget = g.budget /\ n.status = status
      /\ n.tokens = g.tokens /\ n.seconds = g.seconds
  BY <1>1, <1>3 DEF Goals, Statuses
<1>5. GoodGoal(n, ids)
  BY <1>1, <1>4 DEF GoodGoal, WithinBudget
<1> QED BY <1>4, <1>5 DEF n

\* An automatic pause, whatever else it does.
LEMMA PauseSettles ==
  ASSUME NEW m, NEW ids, Mid(m, ids), m.goal # Null, m.goal.status = "active",
         NEW extra, NEW t \in Nat
  PROVE  Between(ApplyGoalTransition(m, PausePlan(m.goal, extra, t), t), ids)
<1> DEFINE plan == PausePlan(m.goal, extra, t)
           next == DeriveGoalWithStatus(m.goal, "paused", t)
<1>1. m.goal \in Goals /\ m.persisted \in Goals
  BY DEF Mid, Readable, Ledgers, GoalOrNull, Behind
<1>2. /\ next \in Goals /\ GoodGoal(next, ids)
      /\ next.id = m.goal.id /\ next.budget = m.goal.budget /\ next.status = "paused"
      /\ next.tokens = m.goal.tokens /\ next.seconds = m.goal.seconds
  BY <1>1, DeriveKeeps DEF Mid
<1> HIDE DEF next
<1>3. /\ plan.persist = "set" /\ plan.next = next /\ plan.source = "runtime"
      /\ plan.before = extra \cup MemoryEffects(m.goal, next)
  BY DEF PausePlan, next
<1> HIDE DEF plan
<1>4. ForgetsAccounting(m, plan)
  BY <1>2, <1>3, MemoryEffectsForget DEF ForgetsAccounting
<1>5. NeverRewinds(m.persisted, next)
  BY <1>2 DEF NeverRewinds, Mid, Behind
<1>6. ~CanPersistRuntimeUsageEntry(next, m.persisted)
  BY <1>2 DEF CanPersistRuntimeUsageEntry, IsRuntimeUsageGoalStatus, RuntimeStatuses
<1>7. Between(ApplyGoalTransition(m, plan, t), ids)
  BY <1>2, <1>3, <1>4, <1>5, <1>6, SetSettles DEF Mid
<1> QED BY <1>7 DEF plan

\* resumePausedGoal: the durable goal is paused, so a whole entry is written.
LEMMA ResumeSettles ==
  ASSUME NEW m, NEW ids, Between(m, ids), NEW t \in Nat
  PROVE  Between(ResumePausedGoal(m, t), ids)
<1>1. CASE m.goal # Null /\ m.goal.status = "paused"
  <2> DEFINE plan == ResumeActivePlan(m.goal, t)
             next == DeriveGoalWithStatus(m.goal, "active", t)
  <2>1. m.goal \in Goals /\ m.persisted \in Goals /\ m.persisted.status = "paused"
    BY <1>1 DEF Between, Mid, Readable, Ledgers, GoalOrNull, Behind
  <2>2. /\ next \in Goals /\ GoodGoal(next, ids)
        /\ next.id = m.goal.id /\ next.budget = m.goal.budget /\ next.status = "active"
        /\ next.tokens = m.goal.tokens /\ next.seconds = m.goal.seconds
    BY <1>1, <2>1, DeriveKeeps DEF Between, Mid
  <2> HIDE DEF next
  <2>3. plan.persist = "set" /\ plan.next = next /\ plan.source = "runtime"
    BY DEF ResumeActivePlan, next
  <2> HIDE DEF plan
  <2>4. ForgetsAccounting(m, plan)
    BY <1>1, <2>2, <2>3 DEF ForgetsAccounting
  <2>5. NeverRewinds(m.persisted, next)
    BY <1>1, <2>2 DEF NeverRewinds, Between, Mid, Behind
  <2>6. ~CanPersistRuntimeUsageEntry(next, m.persisted)
    BY <2>1 DEF CanPersistRuntimeUsageEntry, IsRuntimeUsageGoalStatus, RuntimeStatuses
  <2>7. Between(ApplyGoalTransition(m, plan, t), ids)
    BY <2>2, <2>3, <2>4, <2>5, <2>6, SetSettles DEF Between, Mid
  <2> QED BY <1>1, <2>7 DEF ResumePausedGoal, plan
<1>2. CASE ~(m.goal # Null /\ m.goal.status = "paused")
  BY <1>2 DEF ResumePausedGoal
<1> QED BY <1>1, <1>2

-----------------------------------------------------------------------------
(***************************************************************************)
(* Accounting.                                                             *)
(***************************************************************************)
\* Changing whose accounting it is touches neither the goal nor the log.
LEMMA OwnerOnly ==
  ASSUME NEW m, NEW c, NEW ids, Between(m, ids), c \in Ledgers, AccountingOK(c),
         c.goal = m.goal, c.persisted = m.persisted, c.log = m.log
  PROVE  Between(c, ids)
BY DEF Between, Mid, Readable

LEMMA BeginAccountingKeeps ==
  ASSUME NEW m, NEW ids, Between(m, ids), NEW t \in Nat
  PROVE  Between(BeginAccounting(m, t), ids)
<1> DEFINE c == BeginAccounting(m, t)
<1>1. m \in Ledgers
  BY DEF Between, Mid, Readable
<1>2. CASE m.goal # Null /\ m.goal.status = "active"
  <2>1. c = [m EXCEPT !.owner = m.goal.id, !.since = t]
    BY <1>2 DEF BeginAccounting
  <2>2. m.goal.id \in GoalIds
    BY <1>1, <1>2 DEF Ledgers, GoalOrNull, Goals
  <2> HIDE DEF c
  <2>3. /\ c \in Ledgers /\ c.goal = m.goal /\ c.persisted = m.persisted /\ c.log = m.log
        /\ c.owner = m.goal.id /\ c.since = t
    BY <1>1, <2>1, <2>2 DEF Ledgers, Instants
  <2>4. AccountingOK(c)
    BY <1>2, <2>2, <2>3, GoalStateAssumption DEF AccountingOK
  <2> QED BY <2>3, <2>4, OwnerOnly DEF c
<1>3. CASE ~(m.goal # Null /\ m.goal.status = "active")
  <2>1. c = [m EXCEPT !.owner = Null, !.since = Null]
    BY <1>3 DEF BeginAccounting, ClearActiveAccounting
  <2> HIDE DEF c
  <2>2. /\ c \in Ledgers /\ c.goal = m.goal /\ c.persisted = m.persisted /\ c.log = m.log
        /\ c.owner = Null /\ c.since = Null
    BY <1>1, <2>1 DEF Ledgers, Instants
  <2>3. AccountingOK(c)
    BY <2>2 DEF AccountingOK
  <2> QED BY <2>2, <2>3, OwnerOnly DEF c
<1> QED BY <1>2, <1>3

LEMMA ClearActiveAccountingKeeps ==
  ASSUME NEW m, NEW ids, Between(m, ids)
  PROVE  Between(ClearActiveAccounting(m), ids)
<1> DEFINE c == ClearActiveAccounting(m)
<1>1. m \in Ledgers
  BY DEF Between, Mid, Readable
<1>2. /\ c \in Ledgers /\ c.goal = m.goal /\ c.persisted = m.persisted /\ c.log = m.log
      /\ c.owner = Null /\ c.since = Null
  BY <1>1 DEF ClearActiveAccounting, Ledgers, Instants
<1>3. AccountingOK(c)
  BY <1>2 DEF AccountingOK
<1> QED BY <1>2, <1>3, OwnerOnly

LEMMA ElapsedType ==
  ASSUME NEW m \in Ledgers, NEW t \in Nat
  PROVE  Elapsed(m, t) \in Nat
BY ElapsedSecondsType DEF Elapsed, Ledgers, Instants

\* Usage added to a good goal that takes usage gives a good goal.
LEMMA ApplyUsageKeeps ==
  ASSUME NEW g \in Goals, NEW ids, GoodGoal(g, ids), g.status \in RuntimeStatuses,
         NEW tokens \in Nat, NEW seconds \in Nat, NEW t \in Nat
  PROVE  LET n == ApplyUsage(g, tokens, seconds, t)
         IN  /\ n \in Goals /\ GoodGoal(n, ids)
             /\ n.id = g.id /\ n.budget = g.budget
             /\ n.tokens = g.tokens + tokens /\ n.seconds = g.seconds + seconds
             /\ n.status \in {g.status, "budgetLimited"}
<1> DEFINE n == ApplyUsage(g, tokens, seconds, t)
           status == StatusAfterBudgetLimit(g.status, g.tokens + tokens, g.budget)
<1>1. UnixSeconds(t) \in Nat /\ g # Null
  BY UnixSecondsType, GoalStateAssumption
<1>2. status \in Statuses /\ status \in {g.status, "budgetLimited"}
  BY DEF StatusAfterBudgetLimit, Goals, Statuses
<1>3. n = [g EXCEPT !.tokens = g.tokens + tokens, !.seconds = g.seconds + seconds,
                    !.status = status, !.updatedAt = UnixSeconds(t)]
  BY DEF ApplyUsage
<1> HIDE DEF n, status
<1>4. /\ n \in Goals /\ n.id = g.id /\ n.budget = g.budget /\ n.status = status
      /\ n.tokens = g.tokens + tokens /\ n.seconds = g.seconds + seconds
  <2>1. g.tokens + tokens \in Nat /\ g.seconds + seconds \in Nat
    BY DEF Goals
  <2> QED BY <1>1, <1>2, <1>3, <2>1 DEF Goals
<1>5. GoodGoal(n, ids)
  <2>1. g.id \in ids /\ g.budget \in Budgets /\ g.tokens \in Nat
    BY <1>1 DEF GoodGoal, Goals
  <2>2. CASE g.status = "active" /\ g.budget # Null /\ g.tokens + tokens >= g.budget
    BY <1>4, <2>1, <2>2 DEF GoodGoal, WithinBudget, StatusAfterBudgetLimit, status
  <2>3. CASE ~(g.status = "active" /\ g.budget # Null /\ g.tokens + tokens >= g.budget)
    <3>1. n.status = g.status
      BY <1>4, <2>3 DEF StatusAfterBudgetLimit, status
    <3>2. CASE g.status = "active"
      BY <1>4, <2>1, <2>3, <3>1, <3>2 DEF GoodGoal, WithinBudget, Budgets
    <3>3. CASE g.status = "budgetLimited"
      BY <1>1, <1>4, <2>1, <3>1, <3>3 DEF GoodGoal, WithinBudget, Budgets
    <3> QED BY <3>2, <3>3 DEF RuntimeStatuses
  <2> QED BY <2>2, <2>3
<1> QED BY <1>2, <1>4, <1>5 DEF n

\* accountProgress counts usage; only tokens leave the goal not yet settled,
\* and a refused plan counts nothing.
LEMMA AccountProgressKeeps ==
  ASSUME NEW m, NEW ids, Between(m, ids), NEW tokens \in Nat,
         NEW limited \in BOOLEAN, NEW t \in Nat
  PROVE  LET a == AccountProgress(m, tokens, limited, t)
         IN  /\ Mid(a, ids)
             /\ tokens = 0 \/ AccountingThrows(m, tokens, limited, t) => Between(a, ids)
<1> DEFINE a == AccountProgress(m, tokens, limited, t)
           touched == [m EXCEPT !.since = t]
           next == NextUsage(m, tokens, t)
           plan == RuntimeAccountingPlan(m.goal, next)
           d == ApplyGoalTransition(touched, plan, t)
<1>1. m \in Ledgers /\ m.goal \in GoalOrNull /\ AccountingOK(m) /\ GoodGoal(m.goal, ids)
  BY DEF Between, Mid, Readable, Ledgers
<1>2. CASE ~AccountsFor(m, limited)
  <2>1. a = BeginAccounting(m, t)
    BY <1>2 DEF AccountProgress
  <2> QED BY <2>1, BeginAccountingKeeps DEF Between
<1>3. CASE AccountsFor(m, limited)
  <2>1. m.goal \in Goals /\ m.owner = m.goal.id /\ m.owner # Null /\ m.goal.status = "active"
    BY <1>1, <1>3, GoalStateAssumption
       DEF AccountsFor, CanAccount, GoalOrNull, Goals, AccountingOK
  <2>2. /\ touched \in Ledgers /\ touched.goal = m.goal /\ touched.persisted = m.persisted
        /\ touched.log = m.log /\ touched.owner = m.owner /\ touched.since = t
    BY <1>1 DEF Ledgers, Instants
  <2> HIDE DEF touched
  <2>3. Between(touched, ids)
    <3>1. AccountingOK(touched)
      BY <1>1, <2>1, <2>2, GoalStateAssumption DEF AccountingOK
    <3> QED BY <2>2, <3>1, OwnerOnly
  <2>4. /\ next \in Goals /\ GoodGoal(next, ids)
        /\ next.id = m.goal.id /\ next.budget = m.goal.budget
        /\ next.tokens = m.goal.tokens + tokens
        /\ next.status \in {"active", "budgetLimited"}
    <3> DEFINE seconds == Elapsed(m, t)
    <3>1. seconds \in Nat /\ m.goal.status \in RuntimeStatuses
      BY <1>1, <2>1, ElapsedType DEF RuntimeStatuses
    <3>2. next = ApplyUsage(m.goal, tokens, seconds, t)
      BY DEF NextUsage
    <3> HIDE DEF seconds, next
    <3> QED BY <1>1, <2>1, <3>1, <3>2, ApplyUsageKeeps
  <2> HIDE DEF next
  <2>5. ASSUME UsageChanges(m, tokens, t), ValidRuntimeAccounting(m.goal, next)
        PROVE  Mid(d, ids) /\ (tokens = 0 => Between(d, ids))
    <3>1. Behind(m.persisted, m.goal) /\ m.persisted \in Goals
      BY <2>1 DEF Between, Mid, Readable, Ledgers, GoalOrNull, Behind
    <3>2. /\ m.goal.tokens <= next.tokens /\ m.goal.seconds <= next.seconds
          /\ m.goal.updatedAt <= next.updatedAt
      BY <2>1, <2>4, <2>5 DEF ValidRuntimeAccounting, Goals
    <3>3. /\ m.persisted.tokens <= next.tokens /\ m.persisted.seconds <= next.seconds
          /\ m.persisted.updatedAt <= next.updatedAt
      BY <2>1, <2>4, <3>1, <3>2, GoalStateAssumption DEF Behind, Goals
    <3>4. /\ plan.next = next /\ plan.source = "runtime"
          /\ plan.before = MemoryEffects(m.goal, next)
          /\ plan.persist = IF next.status = "budgetLimited" THEN "set" ELSE "defer"
      BY <2>1 DEF RuntimeAccountingPlan
    <3> HIDE DEF plan
    <3>5. CASE next.status = "budgetLimited"
      <4>1. ForgetsAccounting(touched, plan)
        BY <2>2, <3>4, MemoryEffectsForget DEF ForgetsAccounting
      <4>2. NeverRewinds(touched.persisted, next) /\ Forward(touched.persisted, next)
        BY <2>2, <3>3, <3>5 DEF NeverRewinds, Forward
      <4>3. Between(d, ids)
        BY <2>3, <2>4, <3>4, <3>5, <4>1, <4>2, SetSettles DEF Between, Mid
      <4> QED BY <4>3 DEF Between
    <3>6. CASE next.status = "active"
      <4> DEFINE b == ApplyEffects(touched, plan.before)
      <4>1. /\ b \in Ledgers /\ b.persisted = m.persisted /\ b.log = m.log
            /\ Readable(b, ids)
            /\ \/ b.owner = Null /\ b.since = Null
               \/ b.owner = m.owner /\ b.since = t
        BY <2>2, <2>3, EffectsKeep DEF Between, Mid
      <4> HIDE DEF b
      <4>2. d = [b EXCEPT !.goal = next]
        BY <3>4, <3>6 DEF ApplyGoalTransition, b
      <4> HIDE DEF d
      <4>3. /\ d \in Ledgers /\ d.goal = next /\ d.persisted = m.persisted
            /\ d.log = m.log /\ d.owner = b.owner /\ d.since = b.since
        BY <2>4, <4>1, <4>2 DEF Ledgers, GoalOrNull
      <4>4. Readable(d, ids)
        BY <4>1, <4>3 DEF Readable
      <4>5. AccountingOK(d)
        BY <2>1, <2>4, <3>6, <4>1, <4>3, GoalStateAssumption DEF AccountingOK
      <4>6. Behind(d.persisted, d.goal)
        BY <2>1, <2>4, <3>1, <3>3, <3>6, <4>3, GoalStateAssumption DEF Behind
      <4>7. Mid(d, ids)
        BY <2>4, <4>3, <4>4, <4>5, <4>6 DEF Mid
      <4>8. tokens = 0 => d.goal.tokens = d.persisted.tokens
        BY <2>1, <2>4, <4>3, GoalStateAssumption DEF Between, Goals
      <4> QED BY <4>7, <4>8 DEF Between
    <3> QED BY <2>4, <3>5, <3>6
  <2>6. CASE UsageChanges(m, tokens, t) /\ ValidRuntimeAccounting(m.goal, next)
    <3>1. a = d /\ ~AccountingThrows(m, tokens, limited, t)
      BY <1>3, <2>6 DEF AccountProgress, AccountingThrows, touched, next
    <3> QED BY <2>5, <2>6, <3>1
  <2>7. CASE ~(UsageChanges(m, tokens, t) /\ ValidRuntimeAccounting(m.goal, next))
    <3>1. a = touched
      BY <1>3, <2>7 DEF AccountProgress, touched, next
    <3> QED BY <2>3, <3>1 DEF Between
  <2> QED BY <2>6, <2>7
<1> QED BY <1>2, <1>3

-----------------------------------------------------------------------------
(***************************************************************************)
(* Handlers.                                                               *)
(***************************************************************************)
\* A new process, or a moved session, reads the goal of its log.
LEMMA ReloadBegins ==
  ASSUME NEW m \in Ledgers, NEW ids, GoodLog(m.log, ids), NEW t \in Nat
  PROVE  Between(BeginAccounting(ReloadFromSession(m), t), ids)
<1> DEFINE g == ReconstructGoal(m.log)
           r == ReloadFromSession(m)
           c == ClearActiveAccounting(r)
<1>1. m.log \in Seq(Entries)
  BY DEF Ledgers
<1>2. g \in GoalOrNull /\ GoodGoal(g, ids)
  BY <1>1, ReadableGoal
<1> HIDE DEF g
<1>3. /\ r \in Ledgers /\ r.goal = g /\ r.persisted = g /\ r.log = m.log
  BY <1>2 DEF ReloadFromSession, ClearActiveAccounting, Ledgers, Instants, g
<1> HIDE DEF r
<1>4. /\ c \in Ledgers /\ c.goal = g /\ c.persisted = g /\ c.log = m.log
      /\ c.owner = Null /\ c.since = Null
  BY <1>3 DEF ClearActiveAccounting, Ledgers, Instants
<1>5. BeginAccounting(r, t) = BeginAccounting(c, t)
  <2>1. CASE r.goal # Null /\ r.goal.status = "active"
    <3>1. [r EXCEPT !.owner = r.goal.id, !.since = t] = [c EXCEPT !.owner = g.id, !.since = t]
      BY <1>3 DEF ClearActiveAccounting, Ledgers
    <3> QED BY <1>3, <1>4, <2>1, <3>1 DEF BeginAccounting
  <2>2. CASE ~(r.goal # Null /\ r.goal.status = "active")
    <3>1. ClearActiveAccounting(r) = ClearActiveAccounting(c)
      BY <1>3 DEF ClearActiveAccounting, Ledgers
    <3> QED BY <1>3, <1>4, <2>2, <3>1 DEF BeginAccounting
  <2> QED BY <2>1, <2>2
<1> HIDE DEF c
<1>6. Behind(g, g)
  BY <1>2 DEF Behind, GoalOrNull, Goals
<1>7. Between(c, ids)
  BY <1>2, <1>4, <1>6 DEF Between, Mid, Readable, AccountingOK, g
<1> QED BY <1>5, <1>7, BeginAccountingKeeps DEF r

LEMMA MaybeFlushSettles ==
  ASSUME NEW m, NEW ids, Between(m, ids), NEW t \in Nat
  PROVE  Between(MaybeFlushRuntimePersistence(m, t), ids)
BY FlushSettles DEF MaybeFlushRuntimePersistence, Between

LEMMA PauseForAbortKeeps ==
  ASSUME NEW m, NEW ids, Between(m, ids), NEW t \in Nat
  PROVE  Between(PauseForAbort(m, t), ids)
BY PauseSettles DEF PauseForAbort, AbortPausePlan, Between

LEMMA PauseForRecoveryKeeps ==
  ASSUME NEW m, NEW ids, Between(m, ids), NEW t \in Nat
  PROVE  Between(PauseForRecovery(m, t), ids)
BY PauseSettles DEF PauseForRecovery, RecoveryPausePlan, Between

LEMMA PauseForShutdownKeeps ==
  ASSUME NEW m, NEW ids, Between(m, ids), NEW t \in Nat
  PROVE  Between(PauseForShutdown(m, t), ids)
BY PauseSettles DEF PauseForShutdown, RecoveryShutdownPausePlan, Between

LEMMA ToolExecutionEndKeeps ==
  ASSUME NEW m, NEW ids, Between(m, ids), NEW t \in Nat
  PROVE  Between(ToolExecutionEndLedger(m, t), ids)
<1>1. Between(AccountProgress(m, 0, TRUE, t), ids)
  BY AccountProgressKeeps
<1> QED BY <1>1, MaybeFlushSettles DEF ToolExecutionEndLedger

LEMMA TurnEndKeeps ==
  ASSUME NEW m, NEW ids, Between(m, ids), NEW tokens \in Nat, NEW aborted, NEW t \in Nat
  PROVE  Between(TurnEndLedger(m, tokens, aborted, t), ids)
<1> DEFINE a == AccountProgress(m, tokens, FALSE, t)
           f == FlushGoalPersistence(a, "runtime", t)
<1>1. /\ Mid(a, ids)
      /\ AccountingThrows(m, tokens, FALSE, t) => Between(a, ids)
  BY AccountProgressKeeps
<1> HIDE DEF a
<1>2. Between(f, ids)
  BY <1>1, FlushSettles
<1> HIDE DEF f
<1>3. Between(PauseForAbort(f, t), ids)
  BY <1>2, PauseForAbortKeeps
<1> QED BY <1>1, <1>2, <1>3 DEF TurnEndLedger, a, f

LEMMA AgentEndKeeps ==
  ASSUME NEW m, NEW ids, Between(m, ids), NEW aborted, NEW tokens \in Nat, NEW gaveUp,
         NEW t \in Nat
  PROVE  Between(AgentEndLedger(m, aborted, tokens, gaveUp, t), ids)
<1> DEFINE a == AccountProgress(m, tokens, TRUE, t)
           f == FlushGoalPersistence(a, "runtime", t)
<1>1. /\ Mid(a, ids)
      /\ AccountingThrows(m, tokens, TRUE, t) => Between(a, ids)
  BY AccountProgressKeeps
<1> HIDE DEF a
<1>2. Between(f, ids)
  BY <1>1, FlushSettles
<1> HIDE DEF f
<1>3. Between(PauseForAbort(f, t), ids) /\ Between(PauseForRecovery(f, t), ids)
  BY <1>2, PauseForAbortKeeps, PauseForRecoveryKeeps
<1> QED BY <1>1, <1>2, <1>3 DEF AgentEndLedger, a, f

LEMMA BeforeCompactKeeps ==
  ASSUME NEW m, NEW ids, Between(m, ids), NEW t \in Nat
  PROVE  Between(BeforeCompactLedger(m, t), ids)
<1>1. Between(AccountProgress(m, 0, TRUE, t), ids)
  BY AccountProgressKeeps
<1> QED BY <1>1, FlushSettles DEF BeforeCompactLedger, Between

LEMMA ShutdownKeeps ==
  ASSUME NEW m, NEW ids, Between(m, ids), NEW dropped, NEW pending, NEW t \in Nat
  PROVE  Between(ShutdownLedger(m, dropped, pending, t), ids)
<1> DEFINE b == IF dropped THEN ClearActiveAccounting(m) ELSE m
           a == AccountProgress(b, 0, TRUE, t)
           f == FlushGoalPersistence(a, "runtime", t)
<1>1. Between(b, ids)
  BY ClearActiveAccountingKeeps
<1> HIDE DEF b
<1>2. Between(a, ids)
  BY <1>1, AccountProgressKeeps
<1> HIDE DEF a
<1>3. Between(f, ids)
  BY <1>2, FlushSettles DEF Between
<1> HIDE DEF f
<1>4. Between(PauseForShutdown(f, t), ids)
  BY <1>3, PauseForShutdownKeeps
<1> QED BY <1>2, <1>3, <1>4 DEF ShutdownLedger, a, b, f

LEMMA CompleteGoalKeeps ==
  ASSUME NEW m, NEW ids, Between(m, ids), NEW t \in Nat
  PROVE  Between(CompleteGoalLedger(m, t), ids)
<1> DEFINE a == AccountProgress(m, 0, TRUE, t)
           next == UpdateGoalStatus(a.goal, "complete", t)
<1>1. Between(a, ids)
  BY AccountProgressKeeps
<1> HIDE DEF a
<1>2. CASE AccountingThrows(m, 0, TRUE, t) \/ ~MayUpdateGoalStatus(a.goal, "complete")
  BY <1>1, <1>2 DEF CompleteGoalLedger, a
<1>3. CASE ~(AccountingThrows(m, 0, TRUE, t) \/ ~MayUpdateGoalStatus(a.goal, "complete"))
  <2>1. a.goal \in Goals /\ GoodGoal(a.goal, ids) /\ Behind(a.persisted, a.goal) /\ a.goal # Null
    BY <1>1, <1>3
       DEF MayUpdateGoalStatus, Between, Mid, Readable, Ledgers, GoalOrNull
  <2>2. /\ next \in Goals /\ GoodGoal(next, ids) /\ next.id = a.goal.id
        /\ next.tokens = a.goal.tokens /\ next.seconds = a.goal.seconds
    <3>1. CASE a.goal.status = "complete"
      BY <2>1, <3>1 DEF UpdateGoalStatus
    <3>2. CASE a.goal.status # "complete"
      <4>1. next = DeriveGoalWithStatus(a.goal, "complete", t)
        BY <3>2 DEF UpdateGoalStatus, DeriveGoalWithStatus
      <4> QED BY <2>1, <4>1, DeriveKeeps
    <3> QED BY <3>1, <3>2
  <2> HIDE DEF next
  <2>3. NeverRewinds(a.persisted, next)
    BY <2>1, <2>2 DEF Behind, NeverRewinds
  <2>4. Between(SetGoal(a, next, "tool", t), ids)
    BY <1>1, <2>2, <2>3, SetGoalSettles
  <2> QED BY <1>3, <2>4 DEF CompleteGoalLedger, a, next
<1> QED BY <1>2, <1>3

\* The goal shown, and stored by pause and resume, has at least the usage of
\* the goal in memory.
LEMMA GoalForDisplayKeeps ==
  ASSUME NEW m, NEW ids, Between(m, ids), NEW t \in Nat, m.goal # Null
  PROVE  LET g == GoalForDisplay(m, t)
         IN  /\ g \in Goals /\ GoodGoal(g, ids)
             /\ g.id = m.goal.id /\ g.status = m.goal.status
             /\ g.tokens = m.goal.tokens /\ g.seconds >= m.goal.seconds
<1> DEFINE live == m.owner # Null /\ m.since # Null
                     /\ m.goal.status = "active" /\ m.goal.id = m.owner
           g == GoalForDisplay(m, t)
<1>1. m.goal \in Goals /\ GoodGoal(m.goal, ids) /\ m \in Ledgers
  BY DEF Between, Mid, Readable, Ledgers, GoalOrNull
<1>2. CASE live
  <2> DEFINE s == ElapsedSeconds(m.since, t)
  <2>1. s \in Nat
    BY <1>1, <1>2, ElapsedSecondsType DEF Ledgers, Instants
  <2>2. g = [m.goal EXCEPT !.seconds = m.goal.seconds + s]
    BY <1>2 DEF GoalForDisplay, GoalWithLiveUsage
  <2> HIDE DEF g, s
  <2>3. m.goal.seconds + s \in Nat /\ m.goal.seconds + s >= m.goal.seconds
    BY <1>1, <2>1 DEF Goals
  <2>4. /\ g \in Goals /\ g.id = m.goal.id /\ g.status = m.goal.status
        /\ g.tokens = m.goal.tokens /\ g.seconds >= m.goal.seconds
        /\ g.budget = m.goal.budget
    BY <1>1, <2>2, <2>3 DEF Goals
  <2>5. GoodGoal(g, ids)
    BY <1>1, <2>4, GoalStateAssumption DEF GoodGoal, WithinBudget
  <2> QED BY <2>4, <2>5 DEF g
<1>3. CASE ~live
  <2>1. g = m.goal
    BY <1>3 DEF GoalForDisplay, GoalWithLiveUsage
  <2> HIDE DEF g
  <2>2. g.seconds >= m.goal.seconds
    BY <1>1, <2>1 DEF Goals
  <2> QED BY <1>1, <2>1, <2>2 DEF g
<1> QED BY <1>2, <1>3

\* /goal pause and /goal resume
LEMMA CommandSetStatusKeeps ==
  ASSUME NEW m, NEW ids, Between(m, ids), NEW t \in Nat,
         NEW status \in {"paused", "active"}, MayUpdateGoalStatus(m.goal, status)
  PROVE  Between(SetGoal(m, UpdateGoalStatus(GoalForDisplay(m, t), status, t), "command", t), ids)
<1> DEFINE g == GoalForDisplay(m, t)
           next == UpdateGoalStatus(g, status, t)
<1>1. m.goal # Null /\ m.goal.status \in {"active", "paused"}
  BY DEF MayUpdateGoalStatus
<1>2. /\ g \in Goals /\ GoodGoal(g, ids)
      /\ g.id = m.goal.id /\ g.status = m.goal.status
      /\ g.tokens = m.goal.tokens /\ g.seconds >= m.goal.seconds
  BY <1>1, GoalForDisplayKeeps
<1> HIDE DEF g
<1>3. next = DeriveGoalWithStatus(g, status, t)
  BY <1>1, <1>2 DEF UpdateGoalStatus, DeriveGoalWithStatus
<1>4. /\ next \in Goals /\ GoodGoal(next, ids) /\ next.id = g.id
      /\ next.tokens = g.tokens /\ next.seconds = g.seconds
  BY <1>1, <1>2, <1>3, DeriveKeeps
<1> HIDE DEF next
<1>5. NeverRewinds(m.persisted, next)
  <2>1. Behind(m.persisted, m.goal) /\ m.persisted \in Goals /\ m.goal \in Goals
    BY <1>1 DEF Between, Mid, Readable, Ledgers, GoalOrNull, Behind
  <2> QED BY <1>1, <1>2, <1>4, <2>1 DEF NeverRewinds, Behind, Goals
<1>6. Between(SetGoal(m, next, "command", t), ids)
  BY <1>4, <1>5, SetGoalSettles
<1> QED BY <1>6 DEF g, next

LEMMA MoreIds ==
  ASSUME NEW m, NEW ids, NEW more, ids \subseteq more, Between(m, ids)
  PROVE  Between(m, more)
BY DEF Between, Mid, Readable, GoodLog, GoodGoal

\* A new goal, by command or by tool: its id was never used.
LEMMA StartKeeps ==
  ASSUME NEW m, NEW ids, Between(m, ids), NEW id \in GoalIds \ ids,
         NEW budget \in Budgets, NEW source \in {"command", "tool"}, NEW t \in Nat
  PROVE  Between(SetGoal(m, CreateThreadGoal(id, budget, t), source, t), ids \cup {id})
<1> DEFINE next == CreateThreadGoal(id, budget, t)
           more == ids \cup {id}
<1>1. next \in Goals /\ next.id = id
  BY UnixSecondsType DEF CreateThreadGoal, Goals, Statuses
<1>2. GoodGoal(next, more)
  BY DEF CreateThreadGoal, GoodGoal, WithinBudget, Budgets
<1> HIDE DEF next
<1>3. Between(m, more)
  BY MoreIds
<1>4. NeverRewinds(m.persisted, next)
  <2>1. GoodGoal(m.persisted, ids)
    BY ReadableGoal DEF Between, Mid, Readable, Ledgers
  <2> QED BY <1>1, <2>1 DEF GoodGoal, NeverRewinds
<1>5. Between(SetGoal(m, next, source, t), more)
  BY <1>1, <1>2, <1>3, <1>4, SetGoalSettles
<1> QED BY <1>5 DEF next

-----------------------------------------------------------------------------
(***************************************************************************)
(* The specification.                                                      *)
(***************************************************************************)
Runs == [phase : Phases, goal : GoalIds \cup {Null}, aborted : BOOLEAN, tokens : Nat]

Counters ==
    /\ alive \in BOOLEAN /\ run \in Runs /\ dialog \in Dialogs /\ now \in Nat
    /\ usedIds \subseteq GoalIds /\ spent \in Nat /\ navs \in Nat

Closed(m, ids) ==
    /\ m \in Ledgers
    /\ m = FreshLedger(m.log)
    /\ GoodLog(m.log, ids)

\* The inductive invariant: while a session is open the ledger is Between,
\* else there is only a good log.
IInv ==
    /\ Counters
    /\ alive => Between(led, usedIds)
    /\ ~alive => Closed(led, usedIds)

LEMMA FreshType ==
  ASSUME NEW log \in Seq(Entries), NEW ids, GoodLog(log, ids)
  PROVE  Closed(FreshLedger(log), ids)
BY DEF Closed, FreshLedger, Ledgers, GoalOrNull, Instants

LEMMA IdleRunType == IdleRun \in Runs
BY DEF IdleRun, Runs, Phases

LEMMA InitEstablishesIInv == Init => IInv
<1> SUFFICES ASSUME Init PROVE IInv
  OBVIOUS
<1>1. <<>> \in Seq(Entries) /\ Len(<<>>) = 0
  BY EmptySeq
<1>2. Replay(<<>>)[0] = Null
  BY <1>1, ReconstructEmpty DEF ReconstructGoal
<1>3. GoodLog(<<>>, {})
  <2>1. \A n \in 0..Len(<<>>) : GoodGoal(Replay(<<>>)[n], {})
    BY <1>1, <1>2 DEF GoodGoal
  <2>2. 1..Len(<<>>) = {}
    BY <1>1
  <2> QED BY <2>1, <2>2 DEF GoodLog
<1>4. Closed(FreshLedger(<<>>), {})
  BY <1>1, <1>3, FreshType
<1>5. Counters
  BY IdleRunType DEF Init, Counters, Dialogs
<1> QED BY <1>4, <1>5 DEF Init, IInv

LEMMA CurrentGoalIdType ==
  ASSUME IInv, alive
  PROVE  CurrentGoalId \in GoalIds \cup {Null}
BY DEF IInv, Between, Mid, Readable, Ledgers, GoalOrNull, Goals, CurrentGoalId

\* A handler that keeps the ledger Between and the rest in range keeps IInv.
LEMMA StaysOpen ==
  ASSUME Counters', alive', Between(led', usedIds')
  PROVE  IInv'
BY DEF IInv

LEMMA EndsClosed ==
  ASSUME IInv, NEW log \in Seq(Entries), GoodLog(log, usedIds), SessionEnds(log)
  PROVE  IInv'
<1>1. Closed(led', usedIds') /\ ~alive'
  BY FreshType DEF SessionEnds
<1>2. Counters'
  BY IdleRunType DEF SessionEnds, IInv, Counters, Dialogs
<1> QED BY <1>1, <1>2 DEF IInv

LEMMA StartGoalKeeps ==
  ASSUME IInv, alive, NEW id \in GoalIds, NEW budget \in Budgets,
         NEW source \in {"command", "tool"}, StartGoal(id, budget, source),
         run' \in Runs, dialog' \in Dialogs
  PROVE  IInv'
<1>1. id \in GoalIds \ usedIds /\ now \in Nat /\ Between(led, usedIds)
  BY DEF StartGoal, IInv, Counters
<1>2. Between(led', usedIds')
  BY <1>1, StartKeeps DEF StartGoal
<1>3. Counters'
  BY DEF StartGoal, IInv, Counters
<1> QED BY <1>2, <1>3, StaysOpen DEF StartGoal

LEMMA NextKeepsIInv == IInv /\ [Next]_vars => IInv'
<1> SUFFICES ASSUME IInv, [Next]_vars PROVE IInv'
  OBVIOUS
<1>a. now \in Nat /\ Counters
  BY DEF IInv, Counters
<1>b. alive => Between(led, usedIds) /\ led.log \in Seq(Entries) /\ GoodLog(led.log, usedIds)
  BY DEF IInv, Between, Mid, Readable, Ledgers
<1>1. CASE ClockChanges
  <2>1. now' \in Nat
    BY <1>1, GoalLedgerAssumption DEF ClockChanges
  <2> QED BY <1>1, <2>1 DEF ClockChanges, IInv, Counters
<1>2. ASSUME NEW resuming \in BOOLEAN, SessionStart(resuming) PROVE IInv'
  <2>1. led \in Ledgers /\ GoodLog(led.log, usedIds)
    BY <1>2 DEF SessionStart, IInv, Closed
  <2>2. Between(led', usedIds')
    BY <1>a, <1>2, <2>1, ReloadBegins DEF SessionStart
  <2>3. Counters' /\ alive'
    BY <1>2 DEF SessionStart, IInv, Counters, Dialogs
  <2> QED BY <2>2, <2>3, StaysOpen
<1>3. ASSUME NEW yes \in BOOLEAN, AnswerResume(yes) PROVE IInv'
  <2>1. Between(led, usedIds)
    BY <1>3, <1>b DEF AnswerResume
  <2>2. Between(BeginAccounting(ResumePausedGoal(led, now), now), usedIds)
    BY <1>a, <2>1, ResumeSettles, BeginAccountingKeeps
  <2>3. Between(led', usedIds')
    BY <1>3, <2>1, <2>2 DEF AnswerResume
  <2>4. Counters' /\ alive'
    BY <1>3 DEF AnswerResume, IInv, Counters, Dialogs
  <2> QED BY <2>3, <2>4, StaysOpen
<1>4. ASSUME NEW n \in 0..Len(led.log), SessionTree(n) PROVE IInv'
  <2> DEFINE m == [led EXCEPT !.log = SubSeq(led.log, 1, n)]
  <2>1. led \in Ledgers /\ led.log \in Seq(Entries) /\ GoodLog(led.log, usedIds)
    BY <1>4, <1>b DEF SessionTree, Started, Between, Mid, Readable, Ledgers
  <2>2. SubSeq(led.log, 1, n) \in Seq(Entries) /\ GoodLog(SubSeq(led.log, 1, n), usedIds)
    BY <2>1, ReconstructPrefix, GoodLogPrefix
  <2>3. m \in Ledgers /\ m.log = SubSeq(led.log, 1, n)
    BY <2>1, <2>2 DEF Ledgers
  <2> HIDE DEF m
  <2>4. Between(BeginAccounting(ReloadFromSession(m), now), usedIds)
    BY <1>a, <2>2, <2>3, ReloadBegins
  <2>5. Between(led', usedIds')
    BY <1>4, <2>4 DEF SessionTree, m
  <2>6. Counters' /\ alive'
    BY <1>4 DEF SessionTree, Started, IInv, Counters
  <2> QED BY <2>5, <2>6, StaysOpen
<1>5. CASE SessionBeforeCompact
  <2>1. Between(led', usedIds')
    BY <1>5, <1>a, <1>b, BeforeCompactKeeps DEF SessionBeforeCompact, Started
  <2>2. Counters' /\ alive'
    BY <1>5 DEF SessionBeforeCompact, Started, IInv, Counters
  <2> QED BY <2>1, <2>2, StaysOpen
<1>6. CASE SessionCompact
  <2>1. Between(led', usedIds')
    BY <1>6, <1>a, <1>b, FlushSettles DEF SessionCompact, Started, Between
  <2>2. Counters' /\ alive'
    BY <1>6 DEF SessionCompact, Started, IInv, Counters
  <2> QED BY <2>1, <2>2, StaysOpen
<1>7. ASSUME NEW dropped \in BOOLEAN, NEW pending \in BOOLEAN, SessionShutdown(dropped, pending)
      PROVE  IInv'
  <2> DEFINE m == ShutdownLedger(led, dropped, pending, now)
  <2>1. Between(m, usedIds)
    BY <1>7, <1>a, <1>b, ShutdownKeeps DEF SessionShutdown
  <2> HIDE DEF m
  <2>2. m.log \in Seq(Entries) /\ GoodLog(m.log, usedIds)
    BY <2>1 DEF Between, Mid, Readable, Ledgers
  <2>3. SessionEnds(m.log)
    BY <1>7 DEF SessionShutdown, m
  <2> QED BY <2>2, <2>3, EndsClosed
<1>8. CASE Crash
  BY <1>8, <1>b, EndsClosed DEF Crash
<1>9. ASSUME NEW id \in GoalIds, CommandStart(id) PROVE IInv'
  <2>1. alive /\ run' \in Runs /\ dialog' \in Dialogs /\ Null \in Budgets
    BY <1>9, <1>a DEF CommandStart, UserMayType, Counters, Budgets
  <2> QED BY <1>9, <2>1, StartGoalKeeps DEF CommandStart
<1>10. CASE CommandAskReplace
  BY <1>10 DEF CommandAskReplace, IInv, Counters, Dialogs
<1>11. ASSUME NEW id \in GoalIds, AnswerReplaceYes(id) PROVE IInv'
  <2>1. alive /\ run' \in Runs /\ dialog' \in Dialogs /\ Null \in Budgets
    BY <1>11, <1>a DEF AnswerReplaceYes, Counters, Budgets, Dialogs
  <2> QED BY <1>11, <2>1, StartGoalKeeps DEF AnswerReplaceYes
<1>12. CASE AnswerReplaceNo
  BY <1>12 DEF AnswerReplaceNo, IInv, Counters, Dialogs
<1>13. ASSUME NEW status \in {"paused", "active"}, CommandSetStatus(status) PROVE IInv'
  <2>1. Between(led', usedIds')
    BY <1>13, <1>a, <1>b, CommandSetStatusKeeps DEF CommandSetStatus, UserMayType
  <2>2. Counters' /\ alive'
    BY <1>13 DEF CommandSetStatus, UserMayType, IInv, Counters
  <2> QED BY <2>1, <2>2, StaysOpen
<1>14. CASE CommandClear
  <2>1. Between(led', usedIds')
    BY <1>14, <1>a, <1>b, ClearSettles DEF CommandClear, UserMayType, Between, Mid
  <2>2. Counters' /\ alive'
    BY <1>14 DEF CommandClear, UserMayType, IInv, Counters
  <2> QED BY <2>1, <2>2, StaysOpen
<1>15. ASSUME NEW id \in GoalIds, NEW budget \in TokenBudgets \cup {Null},
              NEW replaceExisting \in BOOLEAN, ToolCreateGoal(id, budget, replaceExisting)
       PROVE  IInv'
  <2>1. alive /\ run' \in Runs /\ dialog' \in Dialogs /\ budget \in Budgets
    BY <1>15, <1>a, GoalLedgerAssumption DEF ToolCreateGoal, Counters, Budgets, Runs
  <2> QED BY <1>15, <2>1, StartGoalKeeps DEF ToolCreateGoal
<1>16. CASE ToolCompleteGoal
  <2>1. Between(led', usedIds')
    BY <1>16, <1>a, <1>b, CompleteGoalKeeps DEF ToolCompleteGoal
  <2>2. Counters' /\ alive'
    BY <1>16 DEF ToolCompleteGoal, IInv, Counters
  <2> QED BY <2>1, <2>2, StaysOpen
<1>17. CASE TurnStart
  <2>1. Between(led', usedIds')
    BY <1>17, <1>a, <1>b, BeginAccountingKeeps DEF TurnStart, Started
  <2>2. run' \in Runs
    <3>1. CurrentGoalId \in GoalIds \cup {Null}
      BY <1>17, CurrentGoalIdType DEF TurnStart, Started
    <3> QED BY <1>17, <3>1 DEF TurnStart, IdleRun, Runs, Phases
  <2>3. Counters' /\ alive'
    BY <1>17, <2>2 DEF TurnStart, Started, IInv, Counters
  <2> QED BY <2>1, <2>3, StaysOpen
<1>18. CASE ToolExecutionEnd
  <2>1. Between(led', usedIds')
    BY <1>18, <1>a, <1>b, ToolExecutionEndKeeps DEF ToolExecutionEnd
  <2>2. Counters' /\ alive'
    BY <1>18 DEF ToolExecutionEnd, IInv, Counters
  <2> QED BY <2>1, <2>2, StaysOpen
<1>c. ASSUME NEW tokens \in TurnTokens, NEW aborted \in BOOLEAN, EndsTurn(tokens, aborted)
      PROVE  Counters' /\ alive' /\ usedIds' = usedIds /\ tokens \in Nat /\ alive
  <2>1. tokens \in Nat /\ spent + tokens \in Nat
    BY <1>a, GoalLedgerAssumption DEF Counters
  <2>2. run' \in Runs
    BY <1>a, <1>c, <2>1 DEF EndsTurn, Counters, Runs, Phases
  <2> QED BY <1>a, <1>c, <2>1, <2>2 DEF EndsTurn, Counters
<1>d. ASSUME EndsRun
      PROVE  Counters' /\ alive' /\ usedIds' = usedIds /\ alive /\ AbortedTokens \in Nat
  BY <1>a, <1>d, IdleRunType DEF EndsRun, Counters, AbortedTokens, Runs
<1>e. ASSUME alive, GuardSkips PROVE Between(led', usedIds)
  BY <1>b, <1>e, ClearActiveAccountingKeeps DEF GuardSkips
<1>19. ASSUME NEW tokens \in TurnTokens, NEW aborted \in BOOLEAN, TurnEnd(tokens, aborted)
       PROVE  IInv'
  <2>1. Counters' /\ alive' /\ usedIds' = usedIds /\ tokens \in Nat /\ alive
    BY <1>19, <1>c DEF TurnEnd
  <2>2. Between(led', usedIds')
    BY <1>19, <1>a, <1>b, <2>1, TurnEndKeeps DEF TurnEnd
  <2> QED BY <2>1, <2>2, StaysOpen
<1>20. ASSUME NEW gaveUp \in BOOLEAN, AgentEnd(gaveUp) PROVE IInv'
  <2>1. Counters' /\ alive' /\ usedIds' = usedIds /\ alive /\ AbortedTokens \in Nat
    BY <1>20, <1>d DEF AgentEnd
  <2>2. Between(led', usedIds')
    BY <1>20, <1>a, <1>b, <2>1, AgentEndKeeps DEF AgentEnd
  <2> QED BY <2>1, <2>2, StaysOpen
<1>21. ASSUME NEW tokens \in TurnTokens, NEW aborted \in BOOLEAN,
              GuardSkipsTurnEnd(tokens, aborted)
       PROVE  IInv'
  BY <1>21, <1>c, <1>e, StaysOpen DEF GuardSkipsTurnEnd
<1>22. CASE GuardSkipsAgentEnd
  BY <1>22, <1>d, <1>e, StaysOpen DEF GuardSkipsAgentEnd
<1>23. CASE GuardDropsAccounting
  <2>1. Between(led', usedIds')
    BY <1>23, <1>b, ClearActiveAccountingKeeps DEF GuardDropsAccounting
  <2>2. Counters' /\ alive'
    BY <1>23, <1>a DEF GuardDropsAccounting, Counters
  <2> QED BY <2>1, <2>2, StaysOpen
<1>24. CASE UNCHANGED vars
  BY <1>24 DEF vars, IInv, Counters
<1> QED
  BY <1>1, <1>2, <1>3, <1>4, <1>5, <1>6, <1>7, <1>8, <1>9, <1>10, <1>11, <1>12, <1>13,
     <1>14, <1>15, <1>16, <1>17, <1>18, <1>19, <1>20, <1>21, <1>22, <1>23, <1>24 DEF Next

\* The ledger's inductive invariant holds in every reachable state.
THEOREM LedgerInvariant == Spec => []IInv
BY InitEstablishesIInv, NextKeepsIInv, PTL DEF Spec

LEMMA IInvLog ==
  ASSUME IInv
  PROVE  led \in Ledgers /\ led.log \in Seq(Entries) /\ GoodLog(led.log, usedIds)
BY DEF IInv, Between, Mid, Readable, Closed, Ledgers

\* The variables hold what the types of the code say.
THEOREM TypeCorrect == Spec => []TypeOK
<1>1. IInv => TypeOK
  BY IInvLog DEF IInv, Counters, Closed, TypeOK, Runs
<1> QED BY <1>1, LedgerInvariant, PTL

\* Replaying the log always gives the goal the writer believes is there, so
\* the reader skips no usage entry the writer chose.
THEOREM DurableMirror == Spec => []DurableMirrorsPersisted
<1>1. IInv => DurableMirrorsPersisted
  BY DEF IInv, Between, Mid, Readable, DurableMirrorsPersisted
<1> QED BY <1>1, LedgerInvariant, PTL

\* A crash between two handlers costs elapsed seconds at most, never a
\* token or a change of status.
THEOREM CrashLosesOnlyTime == Spec => []OnlyTimeIsDeferred
<1>1. IInv => OnlyTimeIsDeferred
  BY DEF IInv, Between, Mid, Behind, OnlyTimeIsDeferred, SameButTime
<1> QED BY <1>1, LedgerInvariant, PTL

\* In memory and at every point of the log, a goal is active or paused only
\* below its budget, and budgetLimited only at or above it.
THEOREM BudgetRespected == Spec => []StatusMatchesBudget
<1>1. ASSUME IInv PROVE StatusMatchesBudget
  <2>1. WithinBudget(led.goal)
    BY <1>1 DEF IInv, Between, Mid, GoodGoal, Closed, FreshLedger, WithinBudget
  <2>2. ASSUME NEW n \in 0..Len(led.log)
        PROVE  WithinBudget(ReconstructGoal(SubSeq(led.log, 1, n)))
    BY <1>1, IInvLog, GoodLogPrefix DEF GoodGoal, WithinBudget
  <2> QED BY <2>1, <2>2 DEF StatusMatchesBudget
<1> QED BY <1>1, LedgerInvariant, PTL

\* Usage is only ever collected for the session's active goal.
THEOREM OwnerIsActiveGoal == Spec => []AccountingFollowsGoal
<1>1. IInv => AccountingFollowsGoal
  BY DEF IInv, Between, Mid, AccountingOK, Closed, FreshLedger, AccountingFollowsGoal
<1> QED BY <1>1, LedgerInvariant, PTL

\* No entry of the log takes usage away from the goal it is about.
THEOREM UsageMonotone == Spec => []DurableUsageNeverRewinds
<1>1. IInv => DurableUsageNeverRewinds
  BY IInvLog DEF GoodLog, DurableUsageNeverRewinds
<1> QED BY <1>1, LedgerInvariant, PTL
-----------------------------------------------------------------------------
(***************************************************************************)
(* The refinement.  A handler composes operations, and each of them leaves *)
(* the goal's id and status alone or moves the status along one arrow of   *)
(* the life cycle; what is proved per operation is which arrow.            *)
(***************************************************************************)
Stays(g, h) ==
    /\ (g = Null) <=> (h = Null)
    /\ g # Null => h.id = g.id /\ h.status = g.status

Goes(g, h, from, to) ==
    /\ g # Null /\ h # Null
    /\ h.id = g.id /\ g.status \in from /\ h.status = to

\* What a handler that may limit or pause the goal does to it.
StopsOrStays(g, h) ==
    \/ Stays(g, h)
    \/ Goes(g, h, {"active"}, "budgetLimited")
    \/ Goes(g, h, {"active"}, "paused")

LEMMA FlushKeepsGoal ==
  ASSUME NEW m \in Ledgers, NEW source, NEW t
  PROVE  FlushGoalPersistence(m, source, t).goal = m.goal
BY DEF FlushGoalPersistence, Ledgers

LEMMA MaybeFlushKeepsGoal ==
  ASSUME NEW m \in Ledgers, NEW t
  PROVE  MaybeFlushRuntimePersistence(m, t).goal = m.goal
BY FlushKeepsGoal DEF MaybeFlushRuntimePersistence

LEMMA AccountingKeepsGoal ==
  ASSUME NEW m \in Ledgers, NEW t
  PROVE  BeginAccounting(m, t).goal = m.goal /\ ClearActiveAccounting(m).goal = m.goal
BY DEF BeginAccounting, ClearActiveAccounting, Ledgers

LEMMA BetweenType ==
  ASSUME NEW m, NEW ids, Mid(m, ids)
  PROVE  m \in Ledgers /\ m.goal \in GoalOrNull /\ GoodGoal(m.goal, ids)
BY DEF Mid, Readable, Ledgers

\* accountProgress may limit an active goal and counts the turn's tokens at
\* most once; it does nothing else to the goal.
LEMMA AccountProgressMoves ==
  ASSUME NEW m, NEW ids, Between(m, ids), NEW tokens \in Nat,
         NEW limited \in BOOLEAN, NEW t \in Nat
  PROVE  LET g == AccountProgress(m, tokens, limited, t).goal
         IN  \/ g = m.goal
             \/ /\ AccountsFor(m, limited) /\ ~AccountingThrows(m, tokens, limited, t)
                /\ g # Null /\ g.id = m.goal.id /\ g.tokens = m.goal.tokens + tokens
                /\ m.goal # Null /\ m.goal.status = "active"
                /\ g.status \in {"active", "budgetLimited"}
<1> DEFINE a == AccountProgress(m, tokens, limited, t)
           touched == [m EXCEPT !.since = t]
           next == NextUsage(m, tokens, t)
           plan == RuntimeAccountingPlan(m.goal, next)
           b == ApplyEffects(touched, plan.before)
           c == [b EXCEPT !.goal = next]
<1>1. m \in Ledgers /\ m.goal \in GoalOrNull /\ AccountingOK(m) /\ GoodGoal(m.goal, ids)
  BY DEF Between, Mid, Readable, Ledgers
<1>2. CASE ~AccountsFor(m, limited)
  BY <1>1, <1>2, AccountingKeepsGoal DEF AccountProgress
<1>3. CASE AccountsFor(m, limited) /\ ~(/\ UsageChanges(m, tokens, t)
                                        /\ ValidRuntimeAccounting(m.goal, next))
  <2>1. a = touched
    BY <1>3 DEF AccountProgress
  <2> QED BY <1>1, <2>1 DEF Ledgers
<1>4. CASE /\ AccountsFor(m, limited)
           /\ UsageChanges(m, tokens, t) /\ ValidRuntimeAccounting(m.goal, next)
  <2>1. a = ApplyGoalTransition(touched, plan, t) /\ ~AccountingThrows(m, tokens, limited, t)
    BY <1>4 DEF AccountProgress, AccountingThrows
  <2>2. m.goal \in Goals /\ m.goal.status = "active" /\ m.goal # Null
    BY <1>1, <1>4, GoalStateAssumption
       DEF AccountsFor, CanAccount, GoalOrNull, Goals, AccountingOK
  <2>3. Elapsed(m, t) \in Nat /\ m.goal.status \in RuntimeStatuses
    BY <1>1, <2>2, ElapsedType DEF RuntimeStatuses
  <2>4. /\ next \in Goals /\ next.id = m.goal.id /\ next.tokens = m.goal.tokens + tokens
        /\ next.status \in {"active", "budgetLimited"}
    <3> HIDE DEF a, touched, plan, b, c
    <3> QED BY <1>1, <2>2, <2>3, ApplyUsageKeeps DEF NextUsage
  <2>5. touched \in Ledgers
    BY <1>1 DEF Ledgers, Instants
  <2> HIDE DEF next
  <2>6. b \in Ledgers
    <3> HIDE DEF touched, plan
    <3> QED BY <2>5, EffectsKeep
  <2>7. c \in Ledgers /\ c.goal = next
    <3> HIDE DEF b
    <3> QED BY <2>4, <2>6 DEF Ledgers, GoalOrNull
  <2>8. plan.next = next /\ plan.persist \in {"set", "defer"} /\ plan.source = "runtime"
    BY DEF RuntimeAccountingPlan
  <2>9. a = c \/ a = FlushGoalPersistence(c, "runtime", t)
    <3> HIDE DEF plan, touched
    <3> QED BY <2>1, <2>8 DEF ApplyGoalTransition
  <2>10. a.goal = next
    <3> HIDE DEF c, a
    <3> QED BY <2>7, <2>9, FlushKeepsGoal
  <2> QED BY <1>4, <2>1, <2>2, <2>4, <2>10, GoalStateAssumption
<1> QED BY <1>2, <1>3, <1>4

\* An automatic pause takes an active goal to paused and charges nothing.
LEMMA PauseMoves ==
  ASSUME NEW m, NEW ids, Between(m, ids), NEW t \in Nat,
         NEW r \in {PauseForAbort(m, t), PauseForRecovery(m, t), PauseForShutdown(m, t)}
  PROVE  \/ r = m /\ ~(m.goal # Null /\ m.goal.status = "active")
         \/ Goes(m.goal, r.goal, {"active"}, "paused") /\ r.goal.tokens = m.goal.tokens
<1>1. CASE m.goal # Null /\ m.goal.status = "active"
  <2>1. ASSUME NEW extra
        PROVE  LET h == ApplyGoalTransition(m, PausePlan(m.goal, extra, t), t).goal
               IN  Goes(m.goal, h, {"active"}, "paused") /\ h.tokens = m.goal.tokens
    <3> DEFINE plan == PausePlan(m.goal, extra, t)
               next == DeriveGoalWithStatus(m.goal, "paused", t)
               b == ApplyEffects(m, plan.before)
               c == [b EXCEPT !.goal = next]
    <3>1. m \in Ledgers /\ m.goal \in Goals /\ GoodGoal(m.goal, ids)
      BY <1>1 DEF Between, Mid, Readable, Ledgers, GoalOrNull
    <3>2. /\ next \in Goals /\ next.id = m.goal.id /\ next.status = "paused"
          /\ next.tokens = m.goal.tokens
      BY <1>1, <3>1, DeriveKeeps
    <3>3. plan.persist = "set" /\ plan.next = next /\ plan.source = "runtime"
      BY DEF PausePlan
    <3>4. ApplyGoalTransition(m, plan, t) = FlushGoalPersistence(c, "runtime", t)
      BY <3>3 DEF ApplyGoalTransition
    <3> HIDE DEF plan, next
    <3>5. b \in Ledgers
      BY <3>1, EffectsKeep
    <3> HIDE DEF b
    <3>6. c \in Ledgers /\ c.goal = next
      BY <3>2, <3>5 DEF Ledgers, GoalOrNull
    <3> HIDE DEF c
    <3>7. ApplyGoalTransition(m, plan, t).goal = next
      BY <3>4, <3>6, FlushKeepsGoal
    <3> QED BY <1>1, <3>2, <3>7, GoalStateAssumption DEF Goes, plan
  <2> QED BY <1>1, <2>1
      DEF PauseForAbort, PauseForRecovery, PauseForShutdown,
          AbortPausePlan, RecoveryPausePlan, RecoveryShutdownPausePlan
<1>2. CASE ~(m.goal # Null /\ m.goal.status = "active")
  BY <1>2 DEF PauseForAbort, PauseForRecovery, PauseForShutdown
<1> QED BY <1>1, <1>2

\* A handler that accounts and flushes, and whether it then pauses.
LEMMA FlushedMoves ==
  ASSUME NEW m, NEW ids, Between(m, ids), NEW tokens \in Nat,
         NEW limited \in BOOLEAN, NEW t \in Nat
  PROVE  LET a == AccountProgress(m, tokens, limited, t)
             f == FlushGoalPersistence(a, "runtime", t)
         IN  /\ a \in Ledgers /\ f.goal = a.goal /\ Between(f, ids)
             /\ Stays(m.goal, a.goal) \/ Goes(m.goal, a.goal, {"active"}, "budgetLimited")
             /\ MaybeFlushRuntimePersistence(a, t).goal = a.goal
<1> DEFINE a == AccountProgress(m, tokens, limited, t)
<1>1. Mid(a, ids)
  BY AccountProgressKeeps
<1>2. a \in Ledgers
  BY <1>1, BetweenType
<1>3. Stays(m.goal, a.goal) \/ Goes(m.goal, a.goal, {"active"}, "budgetLimited")
  <2>1. \/ a.goal = m.goal
        \/ /\ a.goal # Null /\ m.goal # Null /\ a.goal.id = m.goal.id
           /\ m.goal.status = "active" /\ a.goal.status \in {"active", "budgetLimited"}
    BY AccountProgressMoves
  <2> HIDE DEF a
  <2> QED BY <2>1 DEF Stays, Goes
<1> HIDE DEF a
<1>4. QED
  BY <1>1, <1>2, <1>3, FlushSettles, FlushKeepsGoal, MaybeFlushKeepsGoal DEF a

\* A pause after that: the status has moved along one arrow, not two, since
\* a limited goal is not paused.
LEMMA PauseAfterFlush ==
  ASSUME NEW g, NEW f, NEW ids, Between(f, ids), NEW t \in Nat,
         Stays(g, f.goal) \/ Goes(g, f.goal, {"active"}, "budgetLimited"),
         NEW r \in {PauseForAbort(f, t), PauseForRecovery(f, t), PauseForShutdown(f, t)}
  PROVE  StopsOrStays(g, r.goal)
<1>1. r = f \/ Goes(f.goal, r.goal, {"active"}, "paused")
  BY PauseMoves
<1> QED BY <1>1 DEF Stays, Goes, StopsOrStays

LEMMA ToolExecutionEndMoves ==
  ASSUME NEW m, NEW ids, Between(m, ids), NEW t \in Nat
  PROVE  StopsOrStays(m.goal, ToolExecutionEndLedger(m, t).goal)
<1> DEFINE a == AccountProgress(m, 0, TRUE, t)
<1>1. /\ MaybeFlushRuntimePersistence(a, t).goal = a.goal
      /\ Stays(m.goal, a.goal) \/ Goes(m.goal, a.goal, {"active"}, "budgetLimited")
  BY FlushedMoves
<1>2. ToolExecutionEndLedger(m, t) \in {a, MaybeFlushRuntimePersistence(a, t)}
  BY DEF ToolExecutionEndLedger
<1> HIDE DEF a
<1> QED BY <1>1, <1>2 DEF StopsOrStays

LEMMA BeforeCompactMoves ==
  ASSUME NEW m, NEW ids, Between(m, ids), NEW t \in Nat
  PROVE  StopsOrStays(m.goal, BeforeCompactLedger(m, t).goal)
<1> DEFINE a == AccountProgress(m, 0, TRUE, t)
           f == FlushGoalPersistence(a, "runtime", t)
<1>1. /\ f.goal = a.goal
      /\ Stays(m.goal, a.goal) \/ Goes(m.goal, a.goal, {"active"}, "budgetLimited")
  BY FlushedMoves
<1>2. BeforeCompactLedger(m, t) \in {a, f}
  BY DEF BeforeCompactLedger
<1> HIDE DEF a, f
<1> QED BY <1>1, <1>2 DEF StopsOrStays

LEMMA TurnEndMoves ==
  ASSUME NEW m, NEW ids, Between(m, ids), NEW tokens \in Nat, NEW aborted, NEW t \in Nat
  PROVE  StopsOrStays(m.goal, TurnEndLedger(m, tokens, aborted, t).goal)
<1> DEFINE a == AccountProgress(m, tokens, FALSE, t)
           f == FlushGoalPersistence(a, "runtime", t)
<1>1. /\ f.goal = a.goal /\ Between(f, ids)
      /\ Stays(m.goal, a.goal) \/ Goes(m.goal, a.goal, {"active"}, "budgetLimited")
  BY FlushedMoves
<1>2. TurnEndLedger(m, tokens, aborted, t) \in {a, f, PauseForAbort(f, t)}
  BY DEF TurnEndLedger
<1> HIDE DEF a, f
<1>3. StopsOrStays(m.goal, PauseForAbort(f, t).goal)
  BY <1>1, PauseAfterFlush
<1> QED BY <1>1, <1>2, <1>3 DEF StopsOrStays

LEMMA AgentEndMoves ==
  ASSUME NEW m, NEW ids, Between(m, ids), NEW aborted, NEW tokens \in Nat, NEW gaveUp,
         NEW t \in Nat
  PROVE  StopsOrStays(m.goal, AgentEndLedger(m, aborted, tokens, gaveUp, t).goal)
<1> DEFINE a == AccountProgress(m, tokens, TRUE, t)
           f == FlushGoalPersistence(a, "runtime", t)
<1>1. /\ f.goal = a.goal /\ Between(f, ids)
      /\ Stays(m.goal, a.goal) \/ Goes(m.goal, a.goal, {"active"}, "budgetLimited")
  BY FlushedMoves
<1>2. AgentEndLedger(m, aborted, tokens, gaveUp, t)
        \in {a, f, PauseForAbort(f, t), PauseForRecovery(f, t)}
  BY DEF AgentEndLedger
<1> HIDE DEF a, f
<1>3. /\ StopsOrStays(m.goal, PauseForAbort(f, t).goal)
      /\ StopsOrStays(m.goal, PauseForRecovery(f, t).goal)
  BY <1>1, PauseAfterFlush
<1> QED BY <1>1, <1>2, <1>3 DEF StopsOrStays

LEMMA ShutdownMoves ==
  ASSUME NEW m, NEW ids, Between(m, ids), NEW dropped, NEW pending, NEW t \in Nat
  PROVE  StopsOrStays(m.goal, ShutdownLedger(m, dropped, pending, t).goal)
<1> DEFINE b == IF dropped THEN ClearActiveAccounting(m) ELSE m
           a == AccountProgress(b, 0, TRUE, t)
           f == FlushGoalPersistence(a, "runtime", t)
<1>1. Between(b, ids) /\ b.goal = m.goal
  BY ClearActiveAccountingKeeps, AccountingKeepsGoal, BetweenType DEF Between
<1> HIDE DEF b
<1>2. /\ f.goal = a.goal /\ Between(f, ids)
      /\ Stays(m.goal, a.goal) \/ Goes(m.goal, a.goal, {"active"}, "budgetLimited")
  BY <1>1, FlushedMoves
<1>3. ShutdownLedger(m, dropped, pending, t) \in {a, f, PauseForShutdown(f, t)}
  BY DEF ShutdownLedger, b
<1> HIDE DEF a, f
<1>4. StopsOrStays(m.goal, PauseForShutdown(f, t).goal)
  BY <1>2, PauseAfterFlush
<1> QED BY <1>2, <1>3, <1>4 DEF StopsOrStays

\* completeGoal: accounting may limit the goal on the way, but what the
\* handler leaves behind is complete, or no arrow further than limited.
LEMMA CompleteGoalMoves ==
  ASSUME NEW m, NEW ids, Between(m, ids), NEW t \in Nat
  PROVE  LET r == CompleteGoalLedger(m, t)
         IN  \/ StopsOrStays(m.goal, r.goal)
             \/ Goes(m.goal, r.goal, {"active", "paused", "budgetLimited"}, "complete")
<1> DEFINE a == AccountProgress(m, 0, TRUE, t)
           next == UpdateGoalStatus(a.goal, "complete", t)
<1>1. /\ Between(a, ids)
      /\ Stays(m.goal, a.goal) \/ Goes(m.goal, a.goal, {"active"}, "budgetLimited")
  BY AccountProgressKeeps, FlushedMoves
<1> HIDE DEF a
<1>2. CASE AccountingThrows(m, 0, TRUE, t) \/ ~MayUpdateGoalStatus(a.goal, "complete")
  <2>1. CompleteGoalLedger(m, t) = a
    BY <1>2 DEF CompleteGoalLedger, a
  <2> QED BY <1>1, <2>1 DEF StopsOrStays
<1>3. CASE ~(AccountingThrows(m, 0, TRUE, t) \/ ~MayUpdateGoalStatus(a.goal, "complete"))
  <2>1. CompleteGoalLedger(m, t) = SetGoal(a, next, "tool", t)
    BY <1>3 DEF CompleteGoalLedger, a
  <2>2. a.goal \in Goals /\ GoodGoal(a.goal, ids) /\ Behind(a.persisted, a.goal) /\ a.goal # Null
    BY <1>1, <1>3
       DEF MayUpdateGoalStatus, Between, Mid, Readable, Ledgers, GoalOrNull
  <2>3. /\ next \in Goals /\ GoodGoal(next, ids) /\ next.id = a.goal.id
        /\ next.tokens = a.goal.tokens /\ next.seconds = a.goal.seconds
        /\ next.status = "complete"
    <3>1. CASE a.goal.status = "complete"
      BY <2>2, <3>1 DEF UpdateGoalStatus
    <3>2. CASE a.goal.status # "complete"
      <4>1. next = DeriveGoalWithStatus(a.goal, "complete", t)
        BY <3>2 DEF UpdateGoalStatus, DeriveGoalWithStatus
      <4> QED BY <2>2, <4>1, DeriveKeeps
    <3> QED BY <3>1, <3>2
  <2> HIDE DEF next
  <2>4. NeverRewinds(a.persisted, next)
    BY <2>2, <2>3 DEF Behind, NeverRewinds
  <2>5. SetGoal(a, next, "tool", t).goal = next
    BY <1>1, <2>3, <2>4, SetGoalSettles
  <2>6. m.goal \in GoalOrNull
    BY BetweenType DEF Between
  <2>7. next # Null
    BY <2>3, GoalStateAssumption
  <2>8. CASE m.goal.status = "complete"
    BY <1>1, <2>1, <2>2, <2>3, <2>5, <2>7, <2>8 DEF Stays, Goes, StopsOrStays
  <2>9. CASE m.goal.status # "complete"
    BY <1>1, <2>1, <2>2, <2>3, <2>5, <2>6, <2>7, <2>9
       DEF Stays, Goes, GoalOrNull, Goals, Statuses
  <2> QED BY <2>8, <2>9
<1> QED BY <1>2, <1>3

\* /goal pause and /goal resume.
LEMMA CommandSetStatusMoves ==
  ASSUME NEW m, NEW ids, Between(m, ids), NEW t \in Nat,
         NEW status \in {"paused", "active"}, MayUpdateGoalStatus(m.goal, status)
  PROVE  LET r == SetGoal(m, UpdateGoalStatus(GoalForDisplay(m, t), status, t), "command", t)
         IN  Stays(m.goal, r.goal) \/ Goes(m.goal, r.goal, {"active", "paused"}, status)
<1> DEFINE g == GoalForDisplay(m, t)
           next == UpdateGoalStatus(g, status, t)
<1>1. m.goal # Null /\ m.goal.status \in {"active", "paused"}
  BY DEF MayUpdateGoalStatus
<1>2. /\ g \in Goals /\ GoodGoal(g, ids)
      /\ g.id = m.goal.id /\ g.status = m.goal.status
      /\ g.tokens = m.goal.tokens /\ g.seconds >= m.goal.seconds
  BY <1>1, GoalForDisplayKeeps
<1> HIDE DEF g
<1>3. next = DeriveGoalWithStatus(g, status, t)
  BY <1>1, <1>2 DEF UpdateGoalStatus, DeriveGoalWithStatus
<1>4. /\ next \in Goals /\ GoodGoal(next, ids) /\ next.id = g.id /\ next.status = status
      /\ next.tokens = g.tokens /\ next.seconds = g.seconds
  BY <1>1, <1>2, <1>3, DeriveKeeps
<1> HIDE DEF next
<1>5. NeverRewinds(m.persisted, next)
  <2>1. Behind(m.persisted, m.goal) /\ m.persisted \in Goals /\ m.goal \in Goals
    BY <1>1 DEF Between, Mid, Readable, Ledgers, GoalOrNull, Behind
  <2> QED BY <1>1, <1>2, <1>4, <2>1 DEF NeverRewinds, Behind, Goals
<1>6. SetGoal(m, next, "command", t).goal = next
  BY <1>4, <1>5, SetGoalSettles
<1>7. next # Null
  BY <1>4, GoalStateAssumption
<1> QED BY <1>1, <1>2, <1>4, <1>6, <1>7 DEF Goes, g, next

\* The answer to the question asked when a session resumes.
LEMMA ResumeMoves ==
  ASSUME NEW m, NEW ids, Between(m, ids), NEW t \in Nat
  PROVE  LET r == ResumePausedGoal(m, t)
         IN  Stays(m.goal, r.goal) \/ Goes(m.goal, r.goal, {"paused"}, "active")
<1>1. CASE m.goal # Null /\ m.goal.status = "paused"
  <2> DEFINE plan == ResumeActivePlan(m.goal, t)
             next == DeriveGoalWithStatus(m.goal, "active", t)
             b == ApplyEffects(m, plan.before)
             c == [b EXCEPT !.goal = next]
  <2>1. m.goal \in Goals /\ m \in Ledgers /\ GoodGoal(m.goal, ids)
    BY <1>1 DEF Between, Mid, Readable, Ledgers, GoalOrNull
  <2>2. next \in Goals /\ next.id = m.goal.id /\ next.status = "active"
    BY <1>1, <2>1, DeriveKeeps
  <2>3. plan.persist = "set" /\ plan.next = next /\ plan.source = "runtime"
    BY DEF ResumeActivePlan
  <2>4. ResumePausedGoal(m, t) = FlushGoalPersistence(c, "runtime", t)
    BY <1>1, <2>3 DEF ResumePausedGoal, ApplyGoalTransition
  <2> HIDE DEF plan, next
  <2>5. b \in Ledgers
    BY <2>1, EffectsKeep
  <2> HIDE DEF b
  <2>6. c \in Ledgers /\ c.goal = next
    BY <2>2, <2>5 DEF Ledgers, GoalOrNull
  <2> HIDE DEF c
  <2>7. ResumePausedGoal(m, t).goal = next
    BY <2>4, <2>6, FlushKeepsGoal
  <2> QED BY <1>1, <2>2, <2>7, GoalStateAssumption DEF Goes
<1>2. CASE ~(m.goal # Null /\ m.goal.status = "paused")
  BY <1>2 DEF ResumePausedGoal, Stays
<1> QED BY <1>1, <1>2

\* The refinement mapping: the goal of the open session, or of the log.
Mapped == IF alive THEN led.goal ELSE ReconstructGoal(led.log)

LEMMA MappedView ==
  /\ Lifecycle!Init <=> View(Mapped) = Null /\ usedIds = {} /\ navs = 0
  /\ View(Mapped)' = View(Mapped) /\ usedIds' = usedIds /\ navs' = navs
       => UNCHANGED Lifecycle!vars
BY DEF Lifecycle!Init, Lifecycle!vars, Mapped

\* With a session open the log holds a goal of the same id and status, so a
\* session that ends or dies is no step of the life cycle.
LEMMA LogHasTheView ==
  ASSUME NEW m, NEW ids, Between(m, ids)
  PROVE  View(ReconstructGoal(m.log)) = View(m.goal)
BY DEF Between, Mid, Readable, Behind, View

LEMMA StaysView ==
  ASSUME NEW g, NEW h, Stays(g, h)
  PROVE  View(g) = View(h)
BY DEF Stays, View

LEMMA ViewType ==
  ASSUME NEW m, NEW ids, Between(m, ids), ids \subseteq GoalIds
  PROVE  View(m.goal) \in {Null} \cup [id : ids, status : Statuses]
BY DEF Between, Mid, Readable, Ledgers, GoalOrNull, Goals, GoodGoal, View

\* One arrow of a status is one step of the life cycle.
LEMMA ArrowIsAStep ==
  ASSUME Mapped \in GoalOrNull, usedIds' = usedIds, navs' = navs,
         NEW from, NEW to, Goes(Mapped, Mapped', from, to),
         \/ from = {"active"} /\ to \in {"paused", "budgetLimited"}
         \/ from \in {{"paused"}, {"active", "paused"}} /\ to = "active"
         \/ from = {"active", "paused"} /\ to = "paused"
         \/ from = {"active", "paused", "budgetLimited"} /\ to = "complete"
  PROVE  [Lifecycle!Next]_(Lifecycle!vars)
<1> DEFINE v == View(Mapped)
           w == View(Mapped')
<1>1. /\ v = [id |-> Mapped.id, status |-> Mapped.status] /\ v # Null
      /\ w = [v EXCEPT !.status = to] /\ v.status = Mapped.status /\ v.status \in from
  BY GoalStateAssumption, ViewAssumption DEF Goes, View, GoalOrNull, Goals
<1>2. v = w => UNCHANGED Lifecycle!vars
  BY MappedView DEF View
<1>3. ASSUME NEW f, v.status \in f PROVE Lifecycle!Move(f, to)
  BY <1>1, <1>3 DEF Lifecycle!Move, Mapped
<1>4. v.status = to => v = w
  BY <1>1 DEF View
<1> QED BY <1>1, <1>2, <1>3, <1>4
        DEF Lifecycle!Next, Lifecycle!Pause, Lifecycle!Resume, Lifecycle!Limit, Lifecycle!Complete

LEMMA StopsIsAStep ==
  ASSUME Mapped \in GoalOrNull, usedIds' = usedIds, navs' = navs,
         StopsOrStays(Mapped, Mapped')
  PROVE  [Lifecycle!Next]_(Lifecycle!vars)
<1>1. CASE Stays(Mapped, Mapped')
  <2>1. View(Mapped)' = View(Mapped)
    BY <1>1 DEF Stays, View
  <2> QED BY <2>1, MappedView
<1>2. CASE Goes(Mapped, Mapped', {"active"}, "budgetLimited")
  BY <1>2, ArrowIsAStep
<1>3. CASE Goes(Mapped, Mapped', {"active"}, "paused")
  BY <1>3, ArrowIsAStep
<1> QED BY <1>1, <1>2, <1>3 DEF StopsOrStays

\* A goal that starts: its id is new, whatever goal it replaces.
LEMMA StartIsAStep ==
  ASSUME IInv, alive, NEW id \in GoalIds, NEW budget \in Budgets,
         NEW source \in {"command", "tool"}, StartGoal(id, budget, source)
  PROVE  Lifecycle!Start(id)
<1> DEFINE next == CreateThreadGoal(id, budget, now)
<1>1. id \in GoalIds \ usedIds /\ now \in Nat /\ Between(led, usedIds)
  BY DEF StartGoal, IInv, Counters
<1>2. next \in Goals /\ next.id = id /\ next.status = "active"
  BY <1>1, UnixSecondsType DEF CreateThreadGoal, Goals, Statuses
<1>3. GoodGoal(next, usedIds \cup {id})
  BY DEF CreateThreadGoal, GoodGoal, WithinBudget, Budgets
<1>4. led' = SetGoal(led, next, source, now)
  BY DEF StartGoal
<1> HIDE DEF next
<1>5. Between(led, usedIds \cup {id})
  BY <1>1, MoreIds
<1>6. NeverRewinds(led.persisted, next)
  <2>1. GoodGoal(led.persisted, usedIds)
    BY <1>1, ReadableGoal DEF Between, Mid, Readable, Ledgers
  <2> QED BY <1>1, <1>2, <2>1 DEF GoodGoal, NeverRewinds
<1>7. led'.goal = next
  BY <1>1, <1>2, <1>3, <1>4, <1>5, <1>6, SetGoalSettles
<1>8. next # Null
  BY <1>2, GoalStateAssumption
<1> QED BY <1>1, <1>2, <1>7, <1>8 DEF StartGoal, Lifecycle!Start, View

\* A session that ends, however it does: the log keeps what memory held.
LEMMA EndIsAStep ==
  ASSUME IInv, alive, NEW m, Between(m, usedIds), StopsOrStays(led.goal, m.goal),
         SessionEnds(m.log)
  PROVE  [Lifecycle!Next]_(Lifecycle!vars)
<1>1. Mapped = led.goal /\ led.goal \in GoalOrNull
  BY BetweenType DEF Mapped, IInv, Between
<1>2. Mapped' = ReconstructGoal(m.log) /\ usedIds' = usedIds /\ navs' = navs
  BY DEF SessionEnds, Mapped, FreshLedger
<1>3. m.goal \in GoalOrNull /\ Behind(ReconstructGoal(m.log), m.goal)
  BY DEF Between, Mid, Readable, Ledgers
<1>4. StopsOrStays(Mapped, Mapped')
  BY <1>1, <1>2, <1>3 DEF StopsOrStays, Stays, Goes, Behind
<1> QED BY <1>1, <1>2, <1>4, StopsIsAStep

LEMMA NextRefines == IInv /\ [Next]_vars => [Lifecycle!Next]_(Lifecycle!vars)
<1> SUFFICES ASSUME IInv, [Next]_vars PROVE [Lifecycle!Next]_(Lifecycle!vars)
  OBVIOUS
<1>a. now \in Nat /\ Counters /\ IInv'
  BY NextKeepsIInv DEF IInv, Counters
<1>b. alive => Between(led, usedIds) /\ led \in Ledgers /\ Mapped = led.goal /\ Mapped \in GoalOrNull
  BY BetweenType DEF IInv, Mapped, Between
<1>c. alive' => Mapped' = led'.goal
  BY DEF Mapped
<1>d. ASSUME View(Mapped)' = View(Mapped), usedIds' = usedIds, navs' = navs
      PROVE  [Lifecycle!Next]_(Lifecycle!vars)
  BY <1>d, MappedView
<1>e. ASSUME alive, alive', StopsOrStays(led.goal, led'.goal), usedIds' = usedIds, navs' = navs
      PROVE  [Lifecycle!Next]_(Lifecycle!vars)
  BY <1>b, <1>c, <1>e, StopsIsAStep
<1>f. ASSUME alive, alive', led'.goal = led.goal, usedIds' = usedIds, navs' = navs
      PROVE  [Lifecycle!Next]_(Lifecycle!vars)
  BY <1>b, <1>c, <1>d, <1>f
<1>1. CASE ClockChanges
  BY <1>1, <1>d DEF ClockChanges, Mapped
<1>2. ASSUME NEW resuming \in BOOLEAN, SessionStart(resuming)
      PROVE  [Lifecycle!Next]_(Lifecycle!vars)
  <2> DEFINE r == ReloadFromSession(led)
  <2>1. led \in Ledgers /\ led.log \in Seq(Entries) /\ GoodLog(led.log, usedIds)
    BY IInvLog
  <2>2. Mapped = ReconstructGoal(led.log) /\ Mapped \in GoalOrNull
    BY <1>2, <2>1, ReadableGoal DEF SessionStart, Mapped
  <2>3. r \in Ledgers /\ r.goal = Mapped
    BY <2>1, <2>2 DEF ReloadFromSession, ClearActiveAccounting, Ledgers, Instants
  <2> HIDE DEF r
  <2>4. BeginAccounting(r, now).goal = Mapped
    BY <2>3, AccountingKeepsGoal
  <2>5. Mapped' = Mapped
    BY <1>2, <1>c, <2>4 DEF SessionStart, r
  <2> QED BY <1>2, <1>d, <2>5 DEF SessionStart
<1>3. ASSUME NEW yes \in BOOLEAN, AnswerResume(yes) PROVE [Lifecycle!Next]_(Lifecycle!vars)
  <2> DEFINE r == ResumePausedGoal(led, now)
  <2>1. alive /\ alive' /\ usedIds' = usedIds /\ navs' = navs
        /\ led' = IF yes THEN BeginAccounting(r, now) ELSE led
    BY <1>3 DEF AnswerResume
  <2>2. /\ Between(r, usedIds)
        /\ Stays(led.goal, r.goal) \/ Goes(led.goal, r.goal, {"paused"}, "active")
    BY <1>a, <1>b, <2>1, ResumeSettles, ResumeMoves
  <2> HIDE DEF r
  <2>3. r \in Ledgers
    BY <2>2, BetweenType DEF Between
  <2>4. BeginAccounting(r, now).goal = r.goal
    BY <2>3, AccountingKeepsGoal
  <2>5. CASE ~yes \/ Stays(led.goal, r.goal)
    <3>1. View(led'.goal) = View(led.goal)
      BY <2>1, <2>4, <2>5, StaysView
    <3> QED BY <1>b, <1>c, <1>d, <2>1, <3>1
  <2>6. CASE yes /\ Goes(led.goal, r.goal, {"paused"}, "active")
    <3>1. Goes(Mapped, Mapped', {"paused"}, "active")
      BY <1>b, <1>c, <2>1, <2>4, <2>6
    <3> QED BY <1>b, <2>1, <3>1, ArrowIsAStep
  <2> QED BY <2>2, <2>5, <2>6
<1>4. ASSUME NEW n \in 0..Len(led.log), SessionTree(n) PROVE [Lifecycle!Next]_(Lifecycle!vars)
  <2>1. alive' /\ usedIds' = usedIds /\ navs' = navs + 1
    BY <1>4 DEF SessionTree, Started
  <2>2. Between(led', usedIds) /\ usedIds \subseteq GoalIds
    BY <1>a, <2>1 DEF IInv, Counters
  <2>3. View(led'.goal) \in {Null} \cup [id : usedIds, status : Statuses]
    BY <2>2, ViewType
  <2>4. View(Mapped)' \in {Null} \cup [id : usedIds, status : Statuses]
    BY <1>c, <2>1, <2>3
  <2>5. Lifecycle!Rewind
    BY <2>1, <2>4 DEF Lifecycle!Rewind, Lifecycle!Status, Statuses, Mapped
  <2> QED BY <2>5 DEF Lifecycle!Next
<1>5. CASE SessionBeforeCompact
  <2>1. StopsOrStays(led.goal, led'.goal)
    BY <1>5, <1>a, <1>b, BeforeCompactMoves DEF SessionBeforeCompact, Started
  <2> QED BY <1>5, <1>e, <2>1 DEF SessionBeforeCompact, Started
<1>6. CASE SessionCompact
  <2>1. led'.goal = led.goal
    BY <1>6, <1>b, FlushKeepsGoal DEF SessionCompact, Started
  <2> QED BY <1>6, <1>f, <2>1 DEF SessionCompact, Started
<1>7. ASSUME NEW dropped \in BOOLEAN, NEW pending \in BOOLEAN, SessionShutdown(dropped, pending)
      PROVE  [Lifecycle!Next]_(Lifecycle!vars)
  <2> DEFINE m == ShutdownLedger(led, dropped, pending, now)
  <2>1. Between(m, usedIds) /\ StopsOrStays(led.goal, m.goal)
    BY <1>7, <1>a, <1>b, ShutdownKeeps, ShutdownMoves DEF SessionShutdown
  <2>2. SessionEnds(m.log) /\ alive
    BY <1>7 DEF SessionShutdown
  <2> HIDE DEF m
  <2> QED BY <2>1, <2>2, EndIsAStep
<1>8. CASE Crash
  <2>1. StopsOrStays(led.goal, led.goal)
    BY DEF StopsOrStays, Stays
  <2> QED BY <1>8, <1>b, <2>1, EndIsAStep DEF Crash
<1>9. ASSUME NEW id \in GoalIds, CommandStart(id) PROVE [Lifecycle!Next]_(Lifecycle!vars)
  <2>1. Lifecycle!Start(id)
    BY <1>9, StartIsAStep DEF CommandStart, UserMayType, Budgets
  <2> QED BY <2>1 DEF Lifecycle!Next
<1>10. CASE CommandAskReplace
  BY <1>10, <1>d DEF CommandAskReplace, Mapped
<1>11. ASSUME NEW id \in GoalIds, AnswerReplaceYes(id) PROVE [Lifecycle!Next]_(Lifecycle!vars)
  <2>1. Lifecycle!Start(id)
    BY <1>11, StartIsAStep DEF AnswerReplaceYes, Budgets
  <2> QED BY <2>1 DEF Lifecycle!Next
<1>12. CASE AnswerReplaceNo
  BY <1>12, <1>d DEF AnswerReplaceNo, Mapped
<1>13. ASSUME NEW status \in {"paused", "active"}, CommandSetStatus(status)
       PROVE  [Lifecycle!Next]_(Lifecycle!vars)
  <2>1. alive /\ alive' /\ usedIds' = usedIds /\ navs' = navs
    BY <1>13 DEF CommandSetStatus, UserMayType
  <2>2. Stays(led.goal, led'.goal) \/ Goes(led.goal, led'.goal, {"active", "paused"}, status)
    BY <1>13, <1>a, <1>b, <2>1, CommandSetStatusMoves DEF CommandSetStatus
  <2>3. CASE Stays(led.goal, led'.goal)
    BY <1>e, <2>1, <2>3 DEF StopsOrStays
  <2>4. CASE Goes(led.goal, led'.goal, {"active", "paused"}, status)
    <3>1. Goes(Mapped, Mapped', {"active", "paused"}, status)
      BY <1>b, <1>c, <2>1, <2>4
    <3> QED BY <1>b, <2>1, <3>1, ArrowIsAStep
  <2> QED BY <2>2, <2>3, <2>4
<1>14. CASE CommandClear
  <2>1. led.goal \in Goals /\ View(Mapped) # Null /\ alive'
    BY <1>14, <1>b, ViewAssumption DEF CommandClear, UserMayType, GoalOrNull, Goals, View
  <2>2. led'.goal = Null
    <3>1. \A b \in Ledgers : [b EXCEPT !.goal = Null, !.persisted = Null,
              !.persistedAt = Null, !.log = Append(@, ClearEntry)].goal = Null
      BY DEF Ledgers
    <3>2. ApplyEffects(led, ClearPlan.before) \in Ledgers
      BY <1>14, <1>b, EffectsKeep DEF CommandClear, UserMayType
    <3> QED BY <1>14, <3>1, <3>2 DEF CommandClear, ApplyGoalTransition, ClearPlan
  <2>3. Lifecycle!Clear
    BY <1>14, <2>1, <2>2 DEF Lifecycle!Clear, CommandClear, UserMayType, Mapped, View
  <2> QED BY <2>3 DEF Lifecycle!Next
<1>15. ASSUME NEW id \in GoalIds, NEW budget \in TokenBudgets \cup {Null},
              NEW replaceExisting \in BOOLEAN, ToolCreateGoal(id, budget, replaceExisting)
       PROVE  [Lifecycle!Next]_(Lifecycle!vars)
  <2>1. budget \in Budgets
    BY GoalLedgerAssumption DEF Budgets
  <2>2. Lifecycle!Start(id)
    BY <1>15, <2>1, StartIsAStep DEF ToolCreateGoal
  <2> QED BY <2>2 DEF Lifecycle!Next
<1>16. CASE ToolCompleteGoal
  <2>1. alive /\ alive' /\ usedIds' = usedIds /\ navs' = navs
    BY <1>16 DEF ToolCompleteGoal
  <2>2. \/ StopsOrStays(led.goal, led'.goal)
        \/ Goes(led.goal, led'.goal, {"active", "paused", "budgetLimited"}, "complete")
    BY <1>16, <1>a, <1>b, <2>1, CompleteGoalMoves DEF ToolCompleteGoal
  <2>3. CASE Goes(led.goal, led'.goal, {"active", "paused", "budgetLimited"}, "complete")
    <3>1. Goes(Mapped, Mapped', {"active", "paused", "budgetLimited"}, "complete")
      BY <1>b, <1>c, <2>1, <2>3
    <3> QED BY <1>b, <2>1, <3>1, ArrowIsAStep
  <2> QED BY <1>e, <2>1, <2>2, <2>3
<1>17. CASE TurnStart
  <2>1. led'.goal = led.goal
    BY <1>17, <1>b, AccountingKeepsGoal DEF TurnStart, Started
  <2> QED BY <1>17, <1>f, <2>1 DEF TurnStart, Started
<1>18. CASE ToolExecutionEnd
  <2>1. StopsOrStays(led.goal, led'.goal)
    BY <1>18, <1>a, <1>b, ToolExecutionEndMoves DEF ToolExecutionEnd
  <2> QED BY <1>18, <1>e, <2>1 DEF ToolExecutionEnd
<1>g. ASSUME alive, GuardSkips PROVE led'.goal = led.goal
  BY <1>b, <1>g, AccountingKeepsGoal DEF GuardSkips
<1>19. ASSUME NEW tokens \in TurnTokens, NEW aborted \in BOOLEAN, TurnEnd(tokens, aborted)
       PROVE  [Lifecycle!Next]_(Lifecycle!vars)
  <2>1. tokens \in Nat
    BY GoalLedgerAssumption
  <2>2. StopsOrStays(led.goal, led'.goal)
    BY <1>19, <1>a, <1>b, <2>1, TurnEndMoves DEF TurnEnd, EndsTurn
  <2> QED BY <1>19, <1>e, <2>2 DEF TurnEnd, EndsTurn
<1>20. ASSUME NEW gaveUp \in BOOLEAN, AgentEnd(gaveUp) PROVE [Lifecycle!Next]_(Lifecycle!vars)
  <2>1. AbortedTokens \in Nat
    BY <1>a DEF AbortedTokens, Counters, Runs
  <2>2. StopsOrStays(led.goal, led'.goal)
    BY <1>20, <1>a, <1>b, <2>1, AgentEndMoves DEF AgentEnd, EndsRun
  <2> QED BY <1>20, <1>e, <2>2 DEF AgentEnd, EndsRun
<1>21. ASSUME NEW tokens \in TurnTokens, NEW aborted \in BOOLEAN,
              GuardSkipsTurnEnd(tokens, aborted)
       PROVE  [Lifecycle!Next]_(Lifecycle!vars)
  BY <1>21, <1>f, <1>g DEF GuardSkipsTurnEnd, EndsTurn
<1>22. CASE GuardSkipsAgentEnd
  BY <1>22, <1>f, <1>g DEF GuardSkipsAgentEnd, EndsRun
<1>23. CASE GuardDropsAccounting
  <2>1. led'.goal = led.goal
    BY <1>23, <1>b, AccountingKeepsGoal DEF GuardDropsAccounting
  <2> QED BY <1>23, <1>f, <2>1 DEF GuardDropsAccounting
<1>24. CASE UNCHANGED vars
  BY <1>24, <1>d DEF vars, Mapped
<1> QED
  BY <1>1, <1>2, <1>3, <1>4, <1>5, <1>6, <1>7, <1>8, <1>9, <1>10, <1>11, <1>12, <1>13,
     <1>14, <1>15, <1>16, <1>17, <1>18, <1>19, <1>20, <1>21, <1>22, <1>23, <1>24 DEF Next

\* The ledger implements the life cycle: whatever is counted, flushed, lost
\* in a crash or read back, the goal a session shows moves along the arrows
\* of the life cycle alone, and closing or losing a session is no step.
THEOREM LedgerImplementsLifecycle == Spec => ImplementsLifecycle
<1>1. Init => Lifecycle!Init
  <2>1. Init => View(Mapped) = Null
    BY ReconstructEmpty DEF Init, Mapped, FreshLedger, View
  <2> QED BY <2>1, MappedView DEF Init
<1>2. IInv /\ [Next]_vars => [Lifecycle!Next]_(Lifecycle!vars)
  BY NextRefines
<1> QED BY <1>1, <1>2, LedgerInvariant, PTL DEF Spec, ImplementsLifecycle, Lifecycle!Spec
-----------------------------------------------------------------------------
(***************************************************************************)
(* A complete goal.  It is durable as it stands, takes no usage and moves  *)
(* along no arrow, so no operation has anything to write about it.         *)
(***************************************************************************)
Done(m) == m.goal # Null /\ m.goal.status = "complete" /\ m.goal = m.persisted

LEMMA DoneIsDurable ==
  ASSUME NEW m, NEW ids, Between(m, ids), m.goal # Null, m.goal.status = "complete"
  PROVE  Done(m) /\ m \in Ledgers
BY DEF Between, Mid, Readable, Behind, Done

\* Accounting that is only started or dropped writes nothing.
LEMMA AccountingWritesNothing ==
  ASSUME NEW m \in Ledgers, NEW t
  PROVE  LET r == BeginAccounting(m, t)
             c == ClearActiveAccounting(m)
         IN  /\ r.goal = m.goal /\ r.persisted = m.persisted /\ r.log = m.log
             /\ c.goal = m.goal /\ c.persisted = m.persisted /\ c.log = m.log
             /\ c \in Ledgers
BY DEF BeginAccounting, ClearActiveAccounting, Ledgers, Instants

LEMMA DoneOperations ==
  ASSUME NEW m \in Ledgers, Done(m), NEW t
  PROVE  /\ \A source : FlushGoalPersistence(m, source, t) = m
         /\ MaybeFlushRuntimePersistence(m, t) = m
         /\ PauseForAbort(m, t) = m /\ PauseForRecovery(m, t) = m
         /\ PauseForShutdown(m, t) = m /\ ResumePausedGoal(m, t) = m
BY DEF Done, FlushGoalPersistence, MaybeFlushRuntimePersistence, PauseForAbort,
       PauseForRecovery, PauseForShutdown, ResumePausedGoal

LEMMA DoneTakesNoUsage ==
  ASSUME NEW m, NEW ids, Between(m, ids), Done(m), NEW tokens \in Nat,
         NEW limited \in BOOLEAN, NEW t \in Nat
  PROVE  LET a == AccountProgress(m, tokens, limited, t)
         IN  a \in Ledgers /\ Done(a) /\ a.log = m.log /\ a.goal = m.goal
<1> DEFINE a == AccountProgress(m, tokens, limited, t)
<1>1. m \in Ledgers
  BY BetweenType DEF Between
<1>2. ~AccountsFor(m, limited)
  BY DEF Done, AccountsFor, CanAccount
<1>3. a = BeginAccounting(m, t)
  BY <1>2 DEF AccountProgress
<1>4. a \in Ledgers
  BY <1>3, BeginAccountingKeeps, BetweenType DEF Between
<1> QED BY <1>1, <1>3, <1>4, AccountingWritesNothing DEF Done

LEMMA DoneHandlers ==
  ASSUME NEW m, NEW ids, Between(m, ids), Done(m), NEW tokens \in Nat, NEW t \in Nat,
         NEW aborted, NEW gaveUp
  PROVE  /\ ToolExecutionEndLedger(m, t).log = m.log
         /\ TurnEndLedger(m, tokens, aborted, t).log = m.log
         /\ AgentEndLedger(m, aborted, tokens, gaveUp, t).log = m.log
         /\ BeforeCompactLedger(m, t).log = m.log
         /\ CompleteGoalLedger(m, t).log = m.log
<1> DEFINE a(k, limited) == AccountProgress(m, k, limited, t)
<1>1. \A k \in Nat, limited \in BOOLEAN :
        /\ a(k, limited) \in Ledgers /\ Done(a(k, limited))
        /\ a(k, limited).log = m.log /\ a(k, limited).goal = m.goal
  BY DoneTakesNoUsage
<1>2. \A k \in Nat, limited \in BOOLEAN :
        LET b == a(k, limited)
        IN  /\ FlushGoalPersistence(b, "runtime", t) = b
            /\ MaybeFlushRuntimePersistence(b, t) = b
            /\ PauseForAbort(b, t) = b /\ PauseForRecovery(b, t) = b
  BY <1>1, DoneOperations
<1>3. ToolExecutionEndLedger(m, t) = a(0, TRUE) /\ BeforeCompactLedger(m, t) = a(0, TRUE)
  BY <1>2 DEF ToolExecutionEndLedger, BeforeCompactLedger
<1>4. TurnEndLedger(m, tokens, aborted, t) = a(tokens, FALSE)
  BY <1>2 DEF TurnEndLedger
<1>5. AgentEndLedger(m, aborted, tokens, gaveUp, t) = a(tokens, TRUE)
  BY <1>2 DEF AgentEndLedger
<1>6. CompleteGoalLedger(m, t).log = m.log
  <2> DEFINE b == a(0, TRUE)
  <2>1. /\ b.goal.status = "complete"
        /\ CompleteGoalLedger(m, t) \in {b, SetGoal(b, UpdateGoalStatus(b.goal, "complete", t), "tool", t)}
    BY <1>1 DEF Done, CompleteGoalLedger
  <2>2. UpdateGoalStatus(b.goal, "complete", t) = b.goal
    BY <2>1 DEF UpdateGoalStatus
  <2>3. SetGoal(b, b.goal, "tool", t) = b
    BY DEF SetGoal, SetPlan, ApplyGoalTransition, ApplyEffects
  <2> QED BY <1>1, <2>1, <2>2, <2>3
<1> HIDE DEF a
<1> QED BY <1>1, <1>3, <1>4, <1>5, <1>6

\* A complete goal costs the log nothing: completing it again, a command, a
\* turn, a compaction or a late end of a run appends no entry about it.
THEOREM CompleteGoalIsSilent == Spec => CompleteGoalWritesNothing
<1> DEFINE Same == led.goal # Null /\ led.goal.status = "complete"
           Kept == led'.goal # Null /\ led'.goal.id = led.goal.id /\ navs' = navs
<1>1. ASSUME IInv, [Next]_vars, Same, Kept PROVE led'.log = led.log
  <2>1. alive
    BY <1>1 DEF IInv, Closed, FreshLedger
  <2>2. Between(led, usedIds) /\ now \in Nat /\ Counters
    BY <1>1, <2>1 DEF IInv, Counters
  <2>3. Done(led) /\ led \in Ledgers /\ led.goal.id \in usedIds
    BY <1>1, <2>2, DoneIsDurable DEF Between, Mid, GoodGoal
  <2>4. \A t \in Nat : /\ BeginAccounting(led, t).log = led.log
                       /\ ClearActiveAccounting(led).log = led.log
    BY <2>3, AccountingWritesNothing
  <2>5. ASSUME NEW id \in GoalIds, NEW budget \in Budgets,
               NEW source \in {"command", "tool"}, StartGoal(id, budget, source)
        PROVE  FALSE
    <3> DEFINE next == CreateThreadGoal(id, budget, now)
    <3>1. next \in Goals /\ next.id = id
      BY <2>2, UnixSecondsType DEF CreateThreadGoal, Goals, Statuses
    <3>2. GoodGoal(next, usedIds \cup {id})
      BY DEF CreateThreadGoal, GoodGoal, WithinBudget, Budgets
    <3>3. led' = SetGoal(led, next, source, now) /\ id \notin usedIds
      BY <2>5 DEF StartGoal
    <3> HIDE DEF next
    <3>4. Between(led, usedIds \cup {id}) /\ NeverRewinds(led.persisted, next)
      BY <2>2, <2>3, <3>1, <3>3, MoreIds DEF NeverRewinds, Done
    <3>5. led'.goal = next
      BY <2>2, <3>1, <3>2, <3>3, <3>4, SetGoalSettles
    <3> QED BY <1>1, <2>3, <3>1, <3>3, <3>5
  <2>6. ASSUME NEW log, SessionEnds(log) PROVE FALSE
    BY <1>1, <2>6 DEF SessionEnds, FreshLedger
  <2>7. led' = ApplyGoalTransition(led, ClearPlan, now) => FALSE
    <3>1. \A b \in Ledgers : [b EXCEPT !.goal = Null, !.persisted = Null,
              !.persistedAt = Null, !.log = Append(@, ClearEntry)].goal = Null
      BY DEF Ledgers
    <3>2. ApplyEffects(led, ClearPlan.before) \in Ledgers
      BY <2>3, EffectsKeep
    <3> QED BY <1>1, <3>1, <3>2 DEF ApplyGoalTransition, ClearPlan
  <2>8. ASSUME NEW tokens \in TurnTokens PROVE tokens \in Nat
    BY GoalLedgerAssumption
  <2>9. AbortedTokens \in Nat
    BY <2>2 DEF AbortedTokens, Counters, Runs
  <2>10. \A tokens \in Nat, aborted \in BOOLEAN, gaveUp \in BOOLEAN :
           /\ ToolExecutionEndLedger(led, now).log = led.log
           /\ TurnEndLedger(led, tokens, aborted, now).log = led.log
           /\ AgentEndLedger(led, aborted, tokens, gaveUp, now).log = led.log
           /\ BeforeCompactLedger(led, now).log = led.log
           /\ CompleteGoalLedger(led, now).log = led.log
    BY <2>2, <2>3, DoneHandlers
  <2>11. ResumePausedGoal(led, now) = led /\ FlushGoalPersistence(led, "runtime", now) = led
    BY <2>3, DoneOperations
  <2>12. \A status \in {"paused", "active"} : ~MayUpdateGoalStatus(led.goal, status)
    BY <1>1 DEF MayUpdateGoalStatus
  <2>13. run.aborted \in BOOLEAN
    BY <2>2 DEF Counters, Runs
  <2>14. CASE ClockChanges \/ UNCHANGED vars
    BY <2>14 DEF ClockChanges, vars
  <2>15. CASE \E resuming \in BOOLEAN : SessionStart(resuming)
    BY <2>1, <2>15 DEF SessionStart
  <2>16. CASE \E yes \in BOOLEAN : AnswerResume(yes)
    BY <2>2, <2>4, <2>11, <2>16 DEF AnswerResume
  <2>17. CASE \E n \in 0..Len(led.log) : SessionTree(n)
    BY <1>1, <2>2, <2>17 DEF SessionTree, Counters
  <2>18. CASE SessionBeforeCompact \/ SessionCompact
    BY <2>10, <2>11, <2>18 DEF SessionBeforeCompact, SessionCompact
  <2>19. CASE \/ \E dropped, pending \in BOOLEAN : SessionShutdown(dropped, pending)
              \/ Crash
    BY <2>6, <2>19 DEF SessionShutdown, Crash
  <2>20. CASE \E id \in GoalIds : CommandStart(id) \/ AnswerReplaceYes(id)
    BY <2>5, <2>20 DEF CommandStart, AnswerReplaceYes, Budgets
  <2>21. CASE CommandAskReplace \/ AnswerReplaceNo
    BY <2>21 DEF CommandAskReplace, AnswerReplaceNo
  <2>22. CASE CommandClear \/ \E status \in {"paused", "active"} : CommandSetStatus(status)
    BY <2>7, <2>12, <2>22 DEF CommandClear, CommandSetStatus
  <2>23. CASE \E id \in GoalIds, budget \in TokenBudgets \cup {Null}, replaceExisting \in BOOLEAN :
                ToolCreateGoal(id, budget, replaceExisting)
    BY <2>5, <2>23, GoalLedgerAssumption DEF ToolCreateGoal, Budgets
  <2>24. CASE ToolCompleteGoal \/ ToolExecutionEnd
    BY <2>10, <2>24 DEF ToolCompleteGoal, ToolExecutionEnd
  <2>25. CASE TurnStart \/ GuardDropsAccounting \/ GuardSkips
    BY <2>2, <2>4, <2>25 DEF TurnStart, GuardDropsAccounting, GuardSkips
  <2>26. CASE \E tokens \in TurnTokens, aborted \in BOOLEAN : TurnEnd(tokens, aborted)
    BY <2>8, <2>10, <2>26 DEF TurnEnd
  <2>27. CASE \E gaveUp \in BOOLEAN : AgentEnd(gaveUp)
    BY <2>9, <2>10, <2>13, <2>27 DEF AgentEnd
  <2>28. CASE \/ \E tokens \in TurnTokens, aborted \in BOOLEAN : GuardSkipsTurnEnd(tokens, aborted)
              \/ GuardSkipsAgentEnd
    BY <2>25, <2>28 DEF GuardSkipsTurnEnd, GuardSkipsAgentEnd
  <2> QED
    BY <1>1, <2>14, <2>15, <2>16, <2>17, <2>18, <2>19, <2>20, <2>21, <2>22, <2>23, <2>24,
       <2>25, <2>26, <2>27, <2>28 DEF Next
<1>2. IInv /\ [Next]_vars => [Same /\ Kept => led'.log = led.log]_vars
  BY <1>1
<1> QED BY <1>2, LedgerInvariant, PTL DEF Spec, CompleteGoalWritesNothing
-----------------------------------------------------------------------------
(***************************************************************************)
(* What goals are charged.  Neither the goal in memory nor any the log was *)
(* ever read as has more tokens than all turns reported; and between the   *)
(* end of an aborted turn and the end of its run, which reports the same   *)
(* tokens again, the goal may only be charged if it was not yet.           *)
(***************************************************************************)
Within(g, n) == g # Null => g.tokens <= n

Recorded(log) == {Replay(log)[i] : i \in 0..Len(log)}

Spends(m, n) ==
    /\ Within(m.goal, n)
    /\ \A g \in Recorded(m.log) : Within(g, n)

\* An operation appends one entry at most.
WritesOnce(m, r) == r.log = m.log \/ \E e \in Entries : r.log = Append(m.log, e)

LEMMA FlushWritesOnce ==
  ASSUME NEW m \in Ledgers, NEW source, NEW t
  PROVE  WritesOnce(m, FlushGoalPersistence(m, source, t))
<1> DEFINE e == FlushedEntry(m, source)
           f == FlushGoalPersistence(m, source, t)
<1>1. CASE m.goal = Null \/ m.goal = m.persisted
  BY <1>1 DEF FlushGoalPersistence, WritesOnce
<1>2. CASE ~(m.goal = Null \/ m.goal = m.persisted)
  <2>1. m.goal \in Goals
    BY <1>2 DEF Ledgers, GoalOrNull
  <2>2. SetEntry(m.goal) \in Entries
    BY <2>1 DEF SetEntry, SetEntries, Entries
  <2>3. m.goal.status \in RuntimeStatuses => RuntimeUsageEntry(m.goal) \in Entries
    BY <2>1 DEF RuntimeUsageEntry, UsageEntries, Entries, Goals
  <2>4. e \in Entries
    BY <2>2, <2>3
       DEF FlushedEntry, CanPersistRuntimeUsageEntry, IsRuntimeUsageGoalStatus
  <2>5. f = [m EXCEPT !.log = Append(m.log, e), !.persisted = m.goal, !.persistedAt = t]
    BY <1>2 DEF FlushGoalPersistence
  <2> HIDE DEF e, f
  <2>6. f.log = Append(m.log, e)
    BY <2>5 DEF Ledgers
  <2> QED BY <2>4, <2>6 DEF WritesOnce, f
<1> QED BY <1>1, <1>2

LEMMA TransitionWritesOnce ==
  ASSUME NEW m \in Ledgers, NEW plan, NEW t, plan.next \in GoalOrNull,
         plan.persist \in {"skip", "defer", "set"}
  PROVE  LET r == ApplyGoalTransition(m, plan, t)
         IN  /\ WritesOnce(m, r)
             /\ r.owner \in {m.owner, Null}
<1> DEFINE b == ApplyEffects(m, plan.before)
           c == [b EXCEPT !.goal = plan.next]
           f == FlushGoalPersistence(c, plan.source, t)
           r == ApplyGoalTransition(m, plan, t)
<1>1. b \in Ledgers /\ b.log = m.log /\ b.owner \in {m.owner, Null}
  BY EffectsKeep
<1>2. r \in {b, c, f}
  BY DEF ApplyGoalTransition
<1> HIDE DEF b, r
<1>3. c \in Ledgers /\ c.log = m.log /\ c.owner = b.owner
  BY <1>1 DEF Ledgers
<1> HIDE DEF c
<1>4. WritesOnce(c, f) /\ f.owner = c.owner
  <2>1. f.owner = c.owner
    BY <1>3 DEF FlushGoalPersistence, Ledgers
  <2> QED BY <1>3, <2>1, FlushWritesOnce
<1> QED BY <1>1, <1>2, <1>3, <1>4 DEF WritesOnce, r

\* What an operation leaves is bounded if the goal it leaves is.
LEMMA WriteSpends ==
  ASSUME NEW m, NEW r, NEW ids, NEW n \in Nat, m.log \in Seq(Entries),
         Spends(m, n), Mid(r, ids), Within(r.goal, n), WritesOnce(m, r)
  PROVE  Spends(r, n)
<1>1. r.log \in Seq(Entries) /\ r.goal \in GoalOrNull /\ r.persisted \in GoalOrNull
      /\ r.persisted = ReconstructGoal(r.log) /\ Behind(r.persisted, r.goal)
  BY DEF Mid, Readable, Ledgers
<1>2. Within(ReconstructGoal(r.log), n)
  BY <1>1 DEF Within, Behind, GoalOrNull, Goals
<1>3. CASE r.log = m.log
  BY <1>3 DEF Spends
<1>4. ASSUME NEW e \in Entries, r.log = Append(m.log, e) PROVE Spends(r, n)
  <2>1. Len(m.log) \in Nat /\ Len(r.log) = Len(m.log) + 1
    BY <1>4, LenProperties, AppendProperties
  <2>2. /\ \A i \in 0..Len(m.log) : Replay(r.log)[i] = Replay(m.log)[i]
        /\ Replay(r.log)[Len(m.log) + 1] = ReconstructGoal(r.log)
    BY <1>4, <2>1, ReplayAppend DEF ReconstructGoal
  <2>3. ASSUME NEW i \in 0..Len(r.log) PROVE Within(Replay(r.log)[i], n)
    <3>1. CASE i = Len(m.log) + 1
      BY <1>2, <2>2, <3>1
    <3>2. CASE i \in 0..Len(m.log)
      BY <2>2, <3>2 DEF Spends, Recorded
    <3> QED BY <2>1, <3>1, <3>2
  <2> QED BY <2>3 DEF Spends, Recorded
<1> QED BY <1>3, <1>4 DEF WritesOnce

LEMMA SpendsMore ==
  ASSUME NEW m, NEW ids, Mid(m, ids), NEW n \in Nat, NEW k \in Nat, n <= k, Spends(m, n)
  PROVE  Spends(m, k)
<1>1. \A g \in GoalOrNull : Within(g, n) => Within(g, k)
  BY DEF Within, GoalOrNull, Goals
<1>2. m.log \in Seq(Entries) /\ m.goal \in GoalOrNull /\ GoodLog(m.log, ids)
  BY DEF Mid, Readable, Ledgers
<1>3. Recorded(m.log) \subseteq GoalOrNull
  BY <1>2, ReconstructType DEF Recorded
<1> QED BY <1>1, <1>2, <1>3 DEF Spends

LEMMA SetGoalSpends ==
  ASSUME NEW m, NEW ids, Between(m, ids), NEW next \in Goals, GoodGoal(next, ids),
         NeverRewinds(m.persisted, next), NEW source \in {"command", "tool"}, NEW t \in Nat,
         NEW n \in Nat, Spends(m, n), Within(next, n)
  PROVE  LET r == SetGoal(m, next, source, t)
         IN  Spends(r, n) /\ r.owner \in {m.owner, Null}
<1> DEFINE plan == SetPlan(m.goal, next, source)
           r == SetGoal(m, next, source, t)
<1>1. m \in Ledgers /\ m.log \in Seq(Entries)
  BY BetweenType DEF Between, Ledgers
<1>2. plan.next \in GoalOrNull /\ plan.persist \in {"skip", "defer", "set"}
  BY DEF SetPlan, GoalOrNull
<1>3. WritesOnce(m, r) /\ r.owner \in {m.owner, Null}
  <2> HIDE DEF plan
  <2>1. r = ApplyGoalTransition(m, plan, t)
    BY DEF SetGoal, plan
  <2> QED BY <1>1, <1>2, <2>1, TransitionWritesOnce
<1>4. Mid(r, ids) /\ r.goal = next
  BY SetGoalSettles DEF Between
<1> HIDE DEF r
<1>5. Spends(r, n)
  BY <1>1, <1>3, <1>4, WriteSpends
<1> QED BY <1>3, <1>5 DEF r

LEMMA AccountSpends ==
  ASSUME NEW m, NEW ids, Between(m, ids), NEW tokens \in Nat,
         NEW limited \in BOOLEAN, NEW t \in Nat, NEW n \in Nat, Spends(m, n),
         AccountsFor(m, limited) => m.goal.tokens + tokens <= n
  PROVE  Spends(AccountProgress(m, tokens, limited, t), n)
<1> DEFINE a == AccountProgress(m, tokens, limited, t)
           touched == [m EXCEPT !.since = t]
           next == NextUsage(m, tokens, t)
           plan == RuntimeAccountingPlan(m.goal, next)
<1>1. m \in Ledgers /\ m.log \in Seq(Entries) /\ m.goal \in GoalOrNull /\ GoodGoal(m.goal, ids)
  BY BetweenType DEF Between, Ledgers
<1>2. Within(a.goal, n)
  <2>1. \/ a.goal = m.goal
        \/ /\ AccountsFor(m, limited) /\ a.goal.tokens = m.goal.tokens + tokens
    BY AccountProgressMoves
  <2> HIDE DEF a
  <2> QED BY <2>1 DEF Spends, Within
<1>3. Mid(a, ids)
  BY AccountProgressKeeps
<1>4. CASE ~AccountsFor(m, limited)
  <2>1. a.log = m.log
    BY <1>1, <1>4, AccountingWritesNothing DEF AccountProgress
  <2> HIDE DEF a
  <2> QED BY <1>1, <1>2, <1>3, <2>1, WriteSpends DEF WritesOnce, a
<1>5. CASE AccountsFor(m, limited)
  <2>1. a = touched \/ a = ApplyGoalTransition(touched, plan, t)
    BY <1>5 DEF AccountProgress
  <2>2. touched \in Ledgers /\ touched.log = m.log
    BY <1>1 DEF Ledgers, Instants
  <2>3. next \in Goals
    <3>1. m.goal \in Goals /\ m.goal.status = "active"
      BY <1>1, <1>5, GoalStateAssumption
         DEF Between, Mid, AccountsFor, CanAccount, GoalOrNull, Goals, AccountingOK
    <3>2. Elapsed(m, t) \in Nat /\ m.goal.status \in RuntimeStatuses
      BY <1>1, <3>1, ElapsedType DEF RuntimeStatuses
    <3> QED BY <1>1, <3>1, <3>2, ApplyUsageKeeps DEF NextUsage
  <2> HIDE DEF next
  <2>4. plan.next \in GoalOrNull /\ plan.persist \in {"skip", "defer", "set"}
    BY <2>3 DEF RuntimeAccountingPlan, GoalOrNull
  <2> HIDE DEF plan, touched
  <2>5. WritesOnce(touched, ApplyGoalTransition(touched, plan, t))
    BY <2>2, <2>4, TransitionWritesOnce
  <2>6. WritesOnce(m, a)
    BY <2>1, <2>2, <2>5 DEF WritesOnce
  <2> HIDE DEF a
  <2> QED BY <1>1, <1>2, <1>3, <2>6, WriteSpends DEF a
<1> QED BY <1>4, <1>5

LEMMA FlushSpends ==
  ASSUME NEW m, NEW ids, Mid(m, ids), NEW t \in Nat, NEW n \in Nat, Spends(m, n)
  PROVE  /\ Spends(FlushGoalPersistence(m, "runtime", t), n)
         /\ Spends(MaybeFlushRuntimePersistence(m, t), n)
<1> DEFINE f == FlushGoalPersistence(m, "runtime", t)
<1>1. m \in Ledgers /\ m.log \in Seq(Entries)
  BY BetweenType DEF Ledgers
<1>2. Mid(f, ids) /\ f.goal = m.goal /\ WritesOnce(m, f)
  BY <1>1, FlushSettles, FlushKeepsGoal, FlushWritesOnce DEF Between
<1> HIDE DEF f
<1>3. Spends(f, n)
  BY <1>1, <1>2, WriteSpends DEF Spends
<1> QED BY <1>3 DEF f, MaybeFlushRuntimePersistence

\* A pause or a resumption charges nothing.
LEMMA DerivedSpends ==
  ASSUME NEW m, NEW ids, Between(m, ids), NEW n \in Nat, Spends(m, n), m.goal # Null,
         NEW status \in {"active", "paused"}, m.goal.status \in {"active", "paused"},
         NEW t \in Nat, NEW plan, plan.persist = "set",
         plan.next = DeriveGoalWithStatus(m.goal, status, t),
         Between(ApplyGoalTransition(m, plan, t), ids),
         ApplyGoalTransition(m, plan, t).goal.tokens = m.goal.tokens
  PROVE  Spends(ApplyGoalTransition(m, plan, t), n)
<1> DEFINE r == ApplyGoalTransition(m, plan, t)
<1>1. m \in Ledgers /\ m.log \in Seq(Entries) /\ m.goal \in Goals /\ GoodGoal(m.goal, ids)
  BY BetweenType DEF Between, Ledgers, GoalOrNull
<1>2. plan.next \in Goals
  BY <1>1, DeriveKeeps
<1>3. WritesOnce(m, r)
  BY <1>1, <1>2, TransitionWritesOnce DEF GoalOrNull
<1> HIDE DEF r
<1>4. Within(r.goal, n) /\ Mid(r, ids)
  BY DEF Within, Spends, Between, r
<1> QED BY <1>1, <1>3, <1>4, WriteSpends DEF r

LEMMA PauseSpends ==
  ASSUME NEW m, NEW ids, Between(m, ids), NEW t \in Nat, NEW n \in Nat, Spends(m, n),
         NEW r \in {PauseForAbort(m, t), PauseForRecovery(m, t), PauseForShutdown(m, t)}
  PROVE  Spends(r, n)
<1>1. CASE m.goal # Null /\ m.goal.status = "active"
  <2>1. r.goal.tokens = m.goal.tokens
    BY <1>1, PauseMoves
  <2>2. Between(r, ids)
    BY PauseForAbortKeeps, PauseForRecoveryKeeps, PauseForShutdownKeeps
  <2>3. PICK extra : r = ApplyGoalTransition(m, PausePlan(m.goal, extra, t), t)
    BY <1>1 DEF PauseForAbort, PauseForRecovery, PauseForShutdown,
                AbortPausePlan, RecoveryPausePlan, RecoveryShutdownPausePlan
  <2> DEFINE plan == PausePlan(m.goal, extra, t)
  <2>4. plan.persist = "set" /\ plan.next = DeriveGoalWithStatus(m.goal, "paused", t)
    BY DEF PausePlan
  <2> HIDE DEF plan
  <2> QED BY <1>1, <2>1, <2>2, <2>3, <2>4, DerivedSpends DEF plan
<1>2. CASE ~(m.goal # Null /\ m.goal.status = "active")
  BY <1>2 DEF PauseForAbort, PauseForRecovery, PauseForShutdown
<1> QED BY <1>1, <1>2

LEMMA ResumeSpends ==
  ASSUME NEW m, NEW ids, Between(m, ids), NEW t \in Nat, NEW n \in Nat, Spends(m, n)
  PROVE  Spends(ResumePausedGoal(m, t), n)
<1>1. CASE m.goal # Null /\ m.goal.status = "paused"
  <2> DEFINE plan == ResumeActivePlan(m.goal, t)
             next == DeriveGoalWithStatus(m.goal, "active", t)
             b == ApplyEffects(m, plan.before)
             c == [b EXCEPT !.goal = next]
  <2>1. m.goal \in Goals /\ m \in Ledgers /\ GoodGoal(m.goal, ids)
    BY <1>1 DEF Between, Mid, Readable, Ledgers, GoalOrNull
  <2>2. next \in Goals /\ next.tokens = m.goal.tokens
    BY <1>1, <2>1, DeriveKeeps
  <2>3. plan.persist = "set" /\ plan.next = next /\ plan.source = "runtime"
    BY DEF ResumeActivePlan
  <2>4. /\ ResumePausedGoal(m, t) = ApplyGoalTransition(m, plan, t)
        /\ ApplyGoalTransition(m, plan, t) = FlushGoalPersistence(c, "runtime", t)
    BY <1>1, <2>3 DEF ResumePausedGoal, ApplyGoalTransition
  <2>5. Between(ResumePausedGoal(m, t), ids)
    BY ResumeSettles
  <2> HIDE DEF plan
  <2>6. b \in Ledgers
    BY <2>1, EffectsKeep
  <2> HIDE DEF b
  <2>7. c \in Ledgers /\ c.goal = next
    <3> HIDE DEF next
    <3> QED BY <2>2, <2>6 DEF Ledgers, GoalOrNull
  <2> HIDE DEF c
  <2>8. ApplyGoalTransition(m, plan, t).goal.tokens = m.goal.tokens
    BY <2>2, <2>4, <2>7, FlushKeepsGoal
  <2> QED BY <1>1, <2>3, <2>4, <2>5, <2>8, DerivedSpends
<1>2. CASE ~(m.goal # Null /\ m.goal.status = "paused")
  BY <1>2 DEF ResumePausedGoal
<1> QED BY <1>1, <1>2

\* Accounting and its flush, as every handler at the end of something does.
LEMMA FlushedSpends ==
  ASSUME NEW m, NEW ids, Between(m, ids), NEW tokens \in Nat,
         NEW limited \in BOOLEAN, NEW t \in Nat, NEW n \in Nat, Spends(m, n),
         AccountsFor(m, limited) => m.goal.tokens + tokens <= n
  PROVE  LET a == AccountProgress(m, tokens, limited, t)
             f == FlushGoalPersistence(a, "runtime", t)
         IN  /\ Spends(a, n) /\ Spends(f, n) /\ Spends(MaybeFlushRuntimePersistence(a, t), n)
             /\ Spends(PauseForAbort(f, t), n) /\ Spends(PauseForRecovery(f, t), n)
             /\ Spends(PauseForShutdown(f, t), n)
<1> DEFINE a == AccountProgress(m, tokens, limited, t)
           f == FlushGoalPersistence(a, "runtime", t)
<1>1. Mid(a, ids) /\ Spends(a, n)
  BY AccountProgressKeeps, AccountSpends
<1> HIDE DEF a
<1>2. Between(f, ids) /\ Spends(f, n) /\ Spends(MaybeFlushRuntimePersistence(a, t), n)
  BY <1>1, FlushSettles, FlushSpends
<1> HIDE DEF f
<1>3. /\ Spends(PauseForAbort(f, t), n) /\ Spends(PauseForRecovery(f, t), n)
      /\ Spends(PauseForShutdown(f, t), n)
  BY <1>2, PauseSpends
<1> QED BY <1>1, <1>2, <1>3 DEF a, f

LEMMA NoTokens ==
  ASSUME NEW m, NEW ids, Between(m, ids), NEW n \in Nat, Spends(m, n), NEW limited
  PROVE  AccountsFor(m, limited) => m.goal.tokens + 0 <= n
<1>1. m.goal \in GoalOrNull
  BY BetweenType DEF Between
<1>2. AccountsFor(m, limited) => m.goal # Null
  BY DEF AccountsFor, CanAccount
<1> QED BY <1>1, <1>2 DEF Spends, Within, GoalOrNull, Goals

LEMMA QuietHandlersSpend ==
  ASSUME NEW m, NEW ids, Between(m, ids), NEW t \in Nat, NEW n \in Nat, Spends(m, n)
  PROVE  /\ Spends(ToolExecutionEndLedger(m, t), n)
         /\ Spends(BeforeCompactLedger(m, t), n)
<1> DEFINE a == AccountProgress(m, 0, TRUE, t)
           f == FlushGoalPersistence(a, "runtime", t)
<1>1. AccountsFor(m, TRUE) => m.goal.tokens + 0 <= n
  BY NoTokens
<1>2. Spends(a, n) /\ Spends(f, n) /\ Spends(MaybeFlushRuntimePersistence(a, t), n)
  BY <1>1, FlushedSpends
<1>3. /\ ToolExecutionEndLedger(m, t) \in {a, MaybeFlushRuntimePersistence(a, t)}
      /\ BeforeCompactLedger(m, t) \in {a, f}
  BY DEF ToolExecutionEndLedger, BeforeCompactLedger
<1> HIDE DEF a, f
<1> QED BY <1>2, <1>3

LEMMA ShutdownSpends ==
  ASSUME NEW m, NEW ids, Between(m, ids), NEW t \in Nat, NEW n \in Nat, Spends(m, n),
         NEW dropped, NEW pending
  PROVE  Spends(ShutdownLedger(m, dropped, pending, t), n)
<1> DEFINE b == IF dropped THEN ClearActiveAccounting(m) ELSE m
           a == AccountProgress(b, 0, TRUE, t)
           f == FlushGoalPersistence(a, "runtime", t)
<1>1. m \in Ledgers
  BY BetweenType DEF Between
<1>2. Between(b, ids) /\ Spends(b, n)
  BY <1>1, ClearActiveAccountingKeeps, AccountingWritesNothing DEF Spends
<1> HIDE DEF b
<1>3. AccountsFor(b, TRUE) => b.goal.tokens + 0 <= n
  BY <1>2, NoTokens
<1>4. Spends(a, n) /\ Spends(f, n) /\ Spends(PauseForShutdown(f, t), n)
  BY <1>2, <1>3, FlushedSpends
<1>5. ShutdownLedger(m, dropped, pending, t) \in {a, f, PauseForShutdown(f, t)}
  BY DEF ShutdownLedger, b
<1> HIDE DEF a, f
<1> QED BY <1>4, <1>5

\* The end of a turn charges its tokens; when the turn was aborted, the
\* accounting is over, or nothing was charged.
LEMMA TurnEndSpends ==
  ASSUME NEW m, NEW ids, Between(m, ids), NEW tokens \in Nat, NEW aborted, NEW t \in Nat,
         NEW n \in Nat, Spends(m, n)
  PROVE  LET r == TurnEndLedger(m, tokens, aborted, t)
         IN  /\ Spends(r, n + tokens)
             /\ aborted /\ r.owner # Null => r.goal = m.goal
<1> DEFINE a == AccountProgress(m, tokens, FALSE, t)
           f == FlushGoalPersistence(a, "runtime", t)
           p == PauseForAbort(f, t)
           r == TurnEndLedger(m, tokens, aborted, t)
<1>1. Spends(m, n + tokens) /\ n + tokens \in Nat
  BY SpendsMore DEF Between
<1>2. AccountsFor(m, FALSE) => m.goal.tokens + tokens <= n + tokens
  <2>1. m.goal \in GoalOrNull /\ (AccountsFor(m, FALSE) => m.goal # Null)
    BY BetweenType DEF Between, AccountsFor, CanAccount
  <2> QED BY <2>1 DEF Spends, Within, GoalOrNull, Goals
<1>3. Spends(a, n + tokens) /\ Spends(f, n + tokens) /\ Spends(p, n + tokens)
  BY <1>1, <1>2, FlushedSpends
<1>4. r = IF AccountingThrows(m, tokens, FALSE, t) THEN a ELSE IF aborted THEN p ELSE f
  BY DEF TurnEndLedger
<1>5. AccountingThrows(m, tokens, FALSE, t) => a.goal = m.goal
  BY AccountProgressMoves
<1>6. Between(f, ids)
  BY FlushedMoves
<1> HIDE DEF a, f, r
<1>7. Between(p, ids) /\ (p.goal # Null => p.goal.status # "active")
  BY <1>6, PauseForAbortKeeps, PauseMoves DEF Goes
<1>8. p.owner = Null
  BY <1>7 DEF Between, Mid, AccountingOK
<1> QED BY <1>3, <1>4, <1>5, <1>8 DEF r

LEMMA AgentEndSpends ==
  ASSUME NEW m, NEW ids, Between(m, ids), NEW aborted, NEW tokens \in Nat, NEW gaveUp,
         NEW t \in Nat, NEW n \in Nat, Spends(m, n),
         m.owner # Null => m.goal.tokens + tokens <= n
  PROVE  Spends(AgentEndLedger(m, aborted, tokens, gaveUp, t), n)
<1> DEFINE a == AccountProgress(m, tokens, TRUE, t)
           f == FlushGoalPersistence(a, "runtime", t)
<1>1. AccountsFor(m, TRUE) => m.goal.tokens + tokens <= n
  <2>1. m.goal \in GoalOrNull /\ (AccountsFor(m, TRUE) => m.goal # Null /\ m.owner = m.goal.id)
    BY BetweenType DEF Between, AccountsFor, CanAccount
  <2> QED BY <2>1, GoalStateAssumption DEF GoalOrNull, Goals
<1>2. /\ Spends(a, n) /\ Spends(f, n)
      /\ Spends(PauseForAbort(f, t), n) /\ Spends(PauseForRecovery(f, t), n)
  BY <1>1, FlushedSpends
<1>3. AgentEndLedger(m, aborted, tokens, gaveUp, t)
        \in {a, f, PauseForAbort(f, t), PauseForRecovery(f, t)}
  BY DEF AgentEndLedger
<1> HIDE DEF a, f
<1> QED BY <1>2, <1>3

LEMMA CompleteGoalSpends ==
  ASSUME NEW m, NEW ids, Between(m, ids), NEW t \in Nat, NEW n \in Nat, Spends(m, n)
  PROVE  Spends(CompleteGoalLedger(m, t), n)
<1> DEFINE a == AccountProgress(m, 0, TRUE, t)
           next == UpdateGoalStatus(a.goal, "complete", t)
<1>1. Between(a, ids)
  BY AccountProgressKeeps
<1>2. Spends(a, n)
  BY NoTokens, AccountSpends
<1> HIDE DEF a
<1>3. CASE AccountingThrows(m, 0, TRUE, t) \/ ~MayUpdateGoalStatus(a.goal, "complete")
  BY <1>2, <1>3 DEF CompleteGoalLedger, a
<1>4. CASE ~(AccountingThrows(m, 0, TRUE, t) \/ ~MayUpdateGoalStatus(a.goal, "complete"))
  <2>1. a.goal \in Goals /\ GoodGoal(a.goal, ids) /\ Behind(a.persisted, a.goal) /\ a.goal # Null
    BY <1>1, <1>4
       DEF MayUpdateGoalStatus, Between, Mid, Readable, Ledgers, GoalOrNull
  <2>2. /\ next \in Goals /\ GoodGoal(next, ids) /\ next.id = a.goal.id
        /\ next.tokens = a.goal.tokens /\ next.seconds = a.goal.seconds
    <3>1. CASE a.goal.status = "complete"
      BY <2>1, <3>1 DEF UpdateGoalStatus
    <3>2. CASE a.goal.status # "complete"
      <4>1. next = DeriveGoalWithStatus(a.goal, "complete", t)
        BY <3>2 DEF UpdateGoalStatus, DeriveGoalWithStatus
      <4> QED BY <2>1, <4>1, DeriveKeeps
    <3> QED BY <3>1, <3>2
  <2> HIDE DEF next
  <2>3. NeverRewinds(a.persisted, next) /\ Within(next, n)
    BY <1>2, <2>1, <2>2 DEF Behind, NeverRewinds, Spends, Within
  <2>4. Spends(SetGoal(a, next, "tool", t), n)
    BY <1>1, <1>2, <2>2, <2>3, SetGoalSpends
  <2> QED BY <1>4, <2>4 DEF CompleteGoalLedger, a, next
<1> QED BY <1>3, <1>4

LEMMA CommandSetStatusSpends ==
  ASSUME NEW m, NEW ids, Between(m, ids), NEW t \in Nat, NEW n \in Nat, Spends(m, n),
         NEW status \in {"paused", "active"}, MayUpdateGoalStatus(m.goal, status)
  PROVE  LET r == SetGoal(m, UpdateGoalStatus(GoalForDisplay(m, t), status, t), "command", t)
         IN  /\ Spends(r, n) /\ r.owner \in {m.owner, Null}
             /\ r.goal.tokens = m.goal.tokens
<1> DEFINE g == GoalForDisplay(m, t)
           next == UpdateGoalStatus(g, status, t)
<1>1. m.goal # Null /\ m.goal.status \in {"active", "paused"}
  BY DEF MayUpdateGoalStatus
<1>2. /\ g \in Goals /\ GoodGoal(g, ids)
      /\ g.id = m.goal.id /\ g.status = m.goal.status
      /\ g.tokens = m.goal.tokens /\ g.seconds >= m.goal.seconds
  BY <1>1, GoalForDisplayKeeps
<1> HIDE DEF g
<1>3. next = DeriveGoalWithStatus(g, status, t)
  BY <1>1, <1>2 DEF UpdateGoalStatus, DeriveGoalWithStatus
<1>4. /\ next \in Goals /\ GoodGoal(next, ids) /\ next.id = g.id
      /\ next.tokens = g.tokens /\ next.seconds = g.seconds
  BY <1>1, <1>2, <1>3, DeriveKeeps
<1> HIDE DEF next
<1>5. NeverRewinds(m.persisted, next)
  <2>1. Behind(m.persisted, m.goal) /\ m.persisted \in Goals /\ m.goal \in Goals
    BY <1>1 DEF Between, Mid, Readable, Ledgers, GoalOrNull, Behind
  <2> QED BY <1>1, <1>2, <1>4, <2>1 DEF NeverRewinds, Behind, Goals
<1>6. Within(next, n)
  BY <1>1, <1>2, <1>4 DEF Spends, Within
<1>7. LET r == SetGoal(m, next, "command", t)
      IN  Spends(r, n) /\ r.owner \in {m.owner, Null} /\ r.goal = next
  BY <1>4, <1>5, <1>6, SetGoalSpends, SetGoalSettles
<1> QED BY <1>2, <1>4, <1>7 DEF g, next

LEMMA ClearSpends ==
  ASSUME NEW m, NEW ids, Between(m, ids), NEW t \in Nat, NEW n \in Nat, Spends(m, n)
  PROVE  LET r == ApplyGoalTransition(m, ClearPlan, t)
         IN  Spends(r, n) /\ r.owner = Null
<1> DEFINE b == ApplyEffects(m, ClearPlan.before)
           r == ApplyGoalTransition(m, ClearPlan, t)
<1>1. m \in Ledgers /\ m.log \in Seq(Entries)
  BY BetweenType DEF Between, Ledgers
<1>2. b \in Ledgers /\ b.log = m.log /\ b.owner = Null
  BY <1>1, EffectsKeep DEF ClearPlan, ForgetGoal
<1> HIDE DEF b
<1>3. r = [b EXCEPT !.goal = Null, !.persisted = Null, !.persistedAt = Null,
                    !.log = Append(b.log, ClearEntry)]
  BY DEF ApplyGoalTransition, ClearPlan, b
<1> HIDE DEF r
<1>4. r.goal = Null /\ r.owner = Null /\ r.log = Append(m.log, ClearEntry)
  BY <1>2, <1>3 DEF Ledgers
<1>5. ClearEntry \in Entries
  BY DEF ClearEntry, ClearEntries, Entries
<1>6. Mid(r, ids)
  BY ClearSettles DEF Between, Mid, r
<1> QED BY <1>1, <1>4, <1>5, <1>6, WriteSpends DEF WritesOnce, Within, r

\* Between the end of an aborted turn and the end of its run, accounting
\* that still runs has not been charged for the turn.
ChargedOnce ==
    /\ Spends(led, spent)
    /\ ~alive \/ dialog = "resume" => run.phase = "idle"
    /\ run.phase = "ended" /\ run.aborted /\ led.owner # Null =>
         led.goal.tokens + run.tokens <= spent

LEMMA ReadSpends ==
  ASSUME NEW m \in Ledgers, NEW n, NEW k \in 0..Len(m.log), NEW t,
         \A g \in Recorded(m.log) : Within(g, n)
  PROVE  LET p == [m EXCEPT !.log = SubSeq(m.log, 1, k)]
             b == BeginAccounting(ReloadFromSession(p), t)
         IN  Spends(b, n)
<1> DEFINE l == SubSeq(m.log, 1, k)
           p == [m EXCEPT !.log = l]
           g == ReconstructGoal(l)
           r == ReloadFromSession(p)
           b == BeginAccounting(r, t)
<1>1. /\ l \in Seq(Entries) /\ Len(l) = k /\ g = Replay(m.log)[k]
      /\ \A i \in 1..k : l[i] = m.log[i]
  BY ReconstructPrefix DEF Ledgers
<1>2. Len(m.log) \in Nat /\ m.log \in Seq(Entries)
  BY LenProperties DEF Ledgers
<1> HIDE DEF l
<1>3. \A i \in 0..k : Replay(l)[i] = Replay(m.log)[i]
  BY <1>1, <1>2, ReplayOfPrefix
<1>4. Recorded(l) \subseteq Recorded(m.log) /\ g \in Recorded(m.log)
  BY <1>1, <1>2, <1>3 DEF Recorded
<1>5. p \in Ledgers /\ p.log = l
  BY <1>1 DEF Ledgers
<1>6. g \in GoalOrNull
  BY <1>1, <1>2, ReconstructType
<1> HIDE DEF p, g
<1>7. r \in Ledgers /\ r.goal = g /\ r.log = l
  BY <1>5, <1>6 DEF ReloadFromSession, ClearActiveAccounting, Ledgers, Instants, g
<1> HIDE DEF r
<1>8. b.goal = g /\ b.log = l
  BY <1>7, AccountingWritesNothing
<1> QED BY <1>4, <1>8 DEF Spends, p, r, l

LEMMA StartSpends ==
  ASSUME IInv, IInv', alive, alive', Spends(led, spent), NEW id \in GoalIds,
         NEW budget \in Budgets, NEW source \in {"command", "tool"},
         StartGoal(id, budget, source)
  PROVE  Spends(led', spent') /\ led'.owner = Null
<1> DEFINE next == CreateThreadGoal(id, budget, now)
<1>1. id \in GoalIds \ usedIds /\ now \in Nat /\ spent \in Nat /\ Between(led, usedIds)
  BY DEF StartGoal, IInv, Counters
<1>2. next \in Goals /\ next.id = id /\ next.tokens = 0
  BY <1>1, UnixSecondsType DEF CreateThreadGoal, Goals, Statuses
<1>3. GoodGoal(next, usedIds \cup {id})
  BY DEF CreateThreadGoal, GoodGoal, WithinBudget, Budgets
<1>4. led' = SetGoal(led, next, source, now) /\ spent' = spent
  BY DEF StartGoal
<1> HIDE DEF next
<1>5. Between(led, usedIds \cup {id})
  BY <1>1, MoreIds
<1>6. NeverRewinds(led.persisted, next)
  <2>1. GoodGoal(led.persisted, usedIds)
    BY <1>1, ReadableGoal DEF Between, Mid, Readable, Ledgers
  <2> QED BY <1>1, <1>2, <2>1 DEF GoodGoal, NeverRewinds
<1>7. Within(next, spent)
  BY <1>1, <1>2 DEF Within
<1>8. Spends(led', spent) /\ led'.owner \in {led.owner, Null} /\ led'.goal = next
  BY <1>1, <1>2, <1>3, <1>4, <1>5, <1>6, <1>7, SetGoalSpends, SetGoalSettles
<1>9. led'.owner # Null => led'.goal.id = led'.owner /\ led.goal.id = led.owner
  BY <1>1, <1>8 DEF IInv, Between, Mid, AccountingOK
<1>10. led.owner # Null => led.goal.id \in usedIds
  BY <1>1 DEF Between, Mid, AccountingOK, GoodGoal
<1> QED BY <1>1, <1>2, <1>4, <1>8, <1>9, <1>10

LEMMA InitChargedOnce == Init => ChargedOnce
<1> SUFFICES ASSUME Init PROVE ChargedOnce
  OBVIOUS
<1>1. Recorded(<<>>) = {Null}
  <2>1. 0..Len(<<>>) = {0} /\ Replay(<<>>)[0] = Null
    BY EmptySeq, ReconstructEmpty DEF ReconstructGoal
  <2> QED BY <2>1 DEF Recorded
<1>2. Spends(FreshLedger(<<>>), 0)
  BY <1>1 DEF Spends, Within, FreshLedger
<1> QED BY <1>2 DEF Init, ChargedOnce, FreshLedger, IdleRun

LEMMA NextChargesOnce == IInv /\ ChargedOnce /\ [Next]_vars => ChargedOnce'
<1> SUFFICES ASSUME IInv, ChargedOnce, [Next]_vars PROVE ChargedOnce'
  OBVIOUS
<1>a. now \in Nat /\ spent \in Nat /\ Counters /\ IInv'
  BY NextKeepsIInv DEF IInv, Counters
<1>b. alive => Between(led, usedIds) /\ led \in Ledgers
  BY BetweenType DEF IInv, Between
<1>c. Spends(led, spent)
  BY DEF ChargedOnce
<1>d. ASSUME Spends(led', spent'), run'.phase # "ended", run'.phase # "idle" => alive' /\ dialog' # "resume"
      PROVE  ChargedOnce'
  BY <1>d DEF ChargedOnce
<1>e. ASSUME NEW log, SessionEnds(log), \A g \in Recorded(log) : Within(g, spent)
      PROVE  ChargedOnce'
  <2>1. Spends(led', spent') /\ run' = IdleRun
    BY <1>e DEF SessionEnds, FreshLedger, Spends, Within
  <2> QED BY <1>d, <2>1 DEF IdleRun
<1>1. CASE ClockChanges \/ UNCHANGED vars
  BY <1>1 DEF ClockChanges, vars, ChargedOnce
<1>2. ASSUME NEW resuming \in BOOLEAN, SessionStart(resuming) PROVE ChargedOnce'
  <2> DEFINE m == [led EXCEPT !.log = SubSeq(led.log, 1, Len(led.log))]
  <2>1. led \in Ledgers /\ led.log \in Seq(Entries)
    BY IInvLog
  <2>2. Len(led.log) \in 0..Len(led.log) /\ SubSeq(led.log, 1, Len(led.log)) = led.log
    <3>1. Len(led.log) \in Nat
      BY <2>1, LenProperties
    <3>2. /\ SubSeq(led.log, 1, Len(led.log)) \in Seq(Entries)
          /\ Len(SubSeq(led.log, 1, Len(led.log))) = Len(led.log)
          /\ \A i \in 1..Len(led.log) : SubSeq(led.log, 1, Len(led.log))[i] = led.log[i]
      BY <2>1, <3>1, ReconstructPrefix
    <3> QED BY <2>1, <3>1, <3>2, SeqEqual
  <2>3. m = led
    BY <2>1, <2>2 DEF Ledgers
  <2>4. Spends(BeginAccounting(ReloadFromSession(m), now), spent)
    BY <1>c, <2>1, <2>2, ReadSpends DEF Spends
  <2>5. Spends(led', spent')
    BY <1>2, <2>3, <2>4 DEF SessionStart
  <2>6. run'.phase = "idle"
    BY <1>2 DEF SessionStart, ChargedOnce
  <2> QED BY <1>d, <2>5, <2>6
<1>3. ASSUME NEW yes \in BOOLEAN, AnswerResume(yes) PROVE ChargedOnce'
  <2> DEFINE r == ResumePausedGoal(led, now)
  <2>1. Between(led, usedIds) /\ run'.phase = "idle" /\ spent' = spent
    BY <1>3, <1>b DEF AnswerResume, ChargedOnce
  <2>2. Between(r, usedIds) /\ Spends(r, spent)
    BY <1>a, <1>c, <2>1, ResumeSettles, ResumeSpends
  <2> HIDE DEF r
  <2>3. Spends(BeginAccounting(r, now), spent)
    BY <2>2, BetweenType, AccountingWritesNothing DEF Between, Spends
  <2>4. Spends(led', spent')
    BY <1>3, <1>c, <2>1, <2>3 DEF AnswerResume, r
  <2> QED BY <1>d, <2>1, <2>4
<1>4. ASSUME NEW n \in 0..Len(led.log), SessionTree(n) PROVE ChargedOnce'
  <2>1. Spends(led', spent') /\ run'.phase = "idle"
    BY <1>4, <1>b, <1>c, ReadSpends DEF SessionTree, Started, Spends
  <2> QED BY <1>d, <2>1
<1>5. CASE SessionBeforeCompact \/ SessionCompact
  <2>1. Between(led, usedIds) /\ run'.phase = "idle" /\ spent' = spent
    BY <1>5, <1>b DEF SessionBeforeCompact, SessionCompact, Started
  <2>2. /\ Spends(BeforeCompactLedger(led, now), spent)
        /\ Spends(FlushGoalPersistence(led, "runtime", now), spent)
    BY <1>a, <1>c, <2>1, QuietHandlersSpend, FlushSpends DEF Between
  <2>3. Spends(led', spent')
    BY <1>5, <2>1, <2>2 DEF SessionBeforeCompact, SessionCompact
  <2> QED BY <1>d, <2>1, <2>3
<1>6. ASSUME NEW dropped \in BOOLEAN, NEW pending \in BOOLEAN, SessionShutdown(dropped, pending)
      PROVE  ChargedOnce'
  <2>1. Spends(ShutdownLedger(led, dropped, pending, now), spent)
    BY <1>6, <1>a, <1>b, <1>c, ShutdownSpends DEF SessionShutdown
  <2> QED BY <1>6, <1>e, <2>1 DEF SessionShutdown, Spends
<1>7. CASE Crash
  BY <1>7, <1>c, <1>e DEF Crash, Spends
<1>8. ASSUME NEW id \in GoalIds, CommandStart(id) \/ AnswerReplaceYes(id) PROVE ChargedOnce'
  <2>1. /\ alive /\ alive' /\ dialog' = "none" /\ run' = run
        /\ StartGoal(id, Null, "command") /\ Null \in Budgets
    BY <1>8 DEF CommandStart, AnswerReplaceYes, UserMayType, StartGoal, Budgets
  <2>2. Spends(led', spent') /\ led'.owner = Null
    BY <1>a, <1>c, <2>1, StartSpends
  <2> QED BY <2>1, <2>2 DEF ChargedOnce
<1>9. CASE CommandAskReplace \/ AnswerReplaceNo
  BY <1>9 DEF CommandAskReplace, AnswerReplaceNo, UserMayType, ChargedOnce
<1>10. ASSUME NEW status \in {"paused", "active"}, CommandSetStatus(status) PROVE ChargedOnce'
  <2>1. Between(led, usedIds) /\ MayUpdateGoalStatus(led.goal, status)
    BY <1>10, <1>b DEF CommandSetStatus, UserMayType
  <2>2. Spends(led', spent) /\ led'.owner \in {led.owner, Null} /\ led'.goal.tokens = led.goal.tokens
    BY <1>10, <1>a, <1>c, <2>1, CommandSetStatusSpends DEF CommandSetStatus
  <2> QED BY <1>10, <2>2 DEF CommandSetStatus, UserMayType, ChargedOnce
<1>11. CASE CommandClear
  <2>1. Spends(led', spent) /\ led'.owner = Null
    BY <1>11, <1>a, <1>b, <1>c, ClearSpends DEF CommandClear, UserMayType
  <2> QED BY <1>11, <2>1 DEF CommandClear, UserMayType, ChargedOnce
<1>12. ASSUME NEW id \in GoalIds, NEW budget \in TokenBudgets \cup {Null},
              NEW replaceExisting \in BOOLEAN, ToolCreateGoal(id, budget, replaceExisting)
       PROVE  ChargedOnce'
  <2>1. alive /\ alive' /\ budget \in Budgets /\ StartGoal(id, budget, "tool")
    BY <1>12, GoalLedgerAssumption DEF ToolCreateGoal, StartGoal, Budgets
  <2>2. Spends(led', spent')
    BY <1>a, <1>c, <2>1, StartSpends
  <2>3. run'.phase = "turn" /\ dialog' = dialog /\ run.phase = "turn"
    BY <1>12, <1>a DEF ToolCreateGoal, Counters, Runs
  <2> QED BY <1>d, <2>1, <2>2, <2>3 DEF ChargedOnce
<1>13. CASE ToolCompleteGoal \/ ToolExecutionEnd
  <2>1. Between(led, usedIds) /\ alive /\ alive' /\ run.phase = "turn" /\ run' = run
        /\ dialog' = dialog /\ spent' = spent
    BY <1>13, <1>b DEF ToolCompleteGoal, ToolExecutionEnd
  <2>2. Spends(CompleteGoalLedger(led, now), spent) /\ Spends(ToolExecutionEndLedger(led, now), spent)
    BY <1>a, <1>c, <2>1, CompleteGoalSpends, QuietHandlersSpend
  <2>3. Spends(led', spent')
    BY <1>13, <2>1, <2>2 DEF ToolCompleteGoal, ToolExecutionEnd
  <2> QED BY <1>d, <2>1, <2>3 DEF ChargedOnce
<1>14. CASE TurnStart
  <2>1. Spends(led', spent')
    BY <1>14, <1>b, <1>c, AccountingWritesNothing DEF TurnStart, Started, Spends
  <2>2. run'.phase = "turn" /\ alive' /\ dialog' # "resume"
    BY <1>14 DEF TurnStart, Started, IdleRun
  <2> QED BY <1>d, <2>1, <2>2
<1>15. ASSUME NEW tokens \in TurnTokens, NEW aborted \in BOOLEAN, EndsTurn(tokens, aborted),
              \/ led' = TurnEndLedger(led, tokens, aborted, now)
              \/ GuardSkips
       PROVE  ChargedOnce'
  <2>1. /\ tokens \in Nat /\ Between(led, usedIds) /\ spent' = spent + tokens /\ alive'
        /\ dialog' # "resume"
    BY <1>15, <1>b, GoalLedgerAssumption DEF EndsTurn, ChargedOnce
  <2>2. run'.phase = "ended" /\ run'.aborted = aborted /\ run'.tokens = tokens
    BY <1>15, <1>a DEF EndsTurn, Counters, Runs
  <2>3. CASE led' = TurnEndLedger(led, tokens, aborted, now)
    <3>1. Spends(led', spent + tokens) /\ (aborted /\ led'.owner # Null => led'.goal = led.goal)
      BY <1>a, <1>c, <2>1, <2>3, TurnEndSpends
    <3>2. led'.owner # Null => led'.goal # Null /\ led'.goal \in GoalOrNull
      BY <1>a, <2>1, BetweenType DEF IInv, Between, Mid, AccountingOK
    <3>3. aborted /\ led'.owner # Null => led'.goal.tokens + tokens <= spent + tokens
      BY <1>a, <1>c, <2>1, <3>1, <3>2 DEF Spends, Within, GoalOrNull, Goals
    <3> QED BY <2>1, <2>2, <3>1, <3>3 DEF ChargedOnce
  <2>4. CASE GuardSkips
    <3>1. /\ led'.goal = led.goal /\ led'.log = led.log
          /\ led.owner = Null => led'.owner = Null
      BY <1>b, <1>15, <2>4 DEF GuardSkips, EndsTurn, ClearActiveAccounting, Ledgers
    <3>2. Spends(led, spent + tokens)
      BY <1>a, <1>c, <2>1, SpendsMore DEF Between
    <3>3. led.owner # Null => led.goal # Null /\ led.goal \in GoalOrNull
      BY <2>1, BetweenType DEF Between, Mid, AccountingOK
    <3>4. led'.owner # Null => led'.goal.tokens + tokens <= spent + tokens
      BY <1>a, <1>c, <2>1, <3>1, <3>3 DEF Spends, Within, GoalOrNull, Goals
    <3> QED BY <2>1, <2>2, <3>1, <3>2, <3>4 DEF ChargedOnce, Spends
  <2> QED BY <1>15, <2>3, <2>4
<1>16. ASSUME EndsRun,
              \/ \E gaveUp \in BOOLEAN :
                   led' = AgentEndLedger(led, run.aborted, AbortedTokens, gaveUp, now)
              \/ GuardSkips
       PROVE  ChargedOnce'
  <2>1. Between(led, usedIds) /\ spent' = spent /\ run'.phase = "idle" /\ run.phase = "ended"
    BY <1>16, <1>b DEF EndsRun, IdleRun
  <2>2. AbortedTokens \in Nat
    BY <1>a DEF AbortedTokens, Counters, Runs
  <2>3. led.owner # Null => led.goal.tokens + AbortedTokens <= spent
    <3>1. led.owner # Null => led.goal # Null /\ led.goal \in GoalOrNull
      BY <2>1, BetweenType DEF Between, Mid, AccountingOK
    <3> QED BY <1>c, <2>1, <3>1 DEF AbortedTokens, ChargedOnce, Spends, Within, GoalOrNull, Goals
  <2>4. \A gaveUp \in BOOLEAN :
          Spends(AgentEndLedger(led, run.aborted, AbortedTokens, gaveUp, now), spent)
    BY <1>a, <1>c, <2>1, <2>2, <2>3, AgentEndSpends
  <2>5. GuardSkips => led'.goal = led.goal /\ led'.log = led.log
    BY <1>b, <1>16 DEF EndsRun, GuardSkips, ClearActiveAccounting, Ledgers
  <2>6. Spends(led', spent')
    BY <1>16, <1>c, <2>1, <2>4, <2>5 DEF Spends
  <2> QED BY <1>d, <2>1, <2>6
<1>17. CASE GuardDropsAccounting
  <2>1. led'.goal = led.goal /\ led'.log = led.log /\ led'.owner = Null
    BY <1>17, <1>b DEF GuardDropsAccounting, ClearActiveAccounting, Ledgers
  <2> QED BY <1>17, <2>1 DEF GuardDropsAccounting, ChargedOnce, Spends
<1> QED
  BY <1>1, <1>2, <1>3, <1>4, <1>5, <1>6, <1>7, <1>8, <1>9, <1>10, <1>11, <1>12, <1>13,
     <1>14, <1>15, <1>16, <1>17
     DEF Next, TurnEnd, AgentEnd, GuardSkipsTurnEnd, GuardSkipsAgentEnd

\* No turn is charged twice, although the end of an aborted turn and the end
\* of its run both report its tokens, and whatever replays the log.
THEOREM TurnsAreChargedOnce == Spec => []NoDoubleCharge
<1>1. IInv /\ ChargedOnce /\ [Next]_vars => ChargedOnce'
  BY NextChargesOnce
<1>2. ChargedOnce => NoDoubleCharge
  BY DEF ChargedOnce, Spends, Within, NoDoubleCharge
<1> QED BY <1>1, <1>2, InitChargedOnce, LedgerInvariant, PTL DEF Spec
-----------------------------------------------------------------------------
(***************************************************************************)
(* The seconds kept back.  Only the end of a tool defers usage, and only   *)
(* when the last write is less than an interval ago; every other handler   *)
(* leaves what was deferred alone or writes it.                            *)
(***************************************************************************)
Timely(m) ==
    m.goal # m.persisted =>
      /\ m.persistedAt # Null
      /\ m.goal.updatedAt * TicksPerSecond < m.persistedAt + PersistInterval * TicksPerSecond

LEMMA SecondsBehind ==
  ASSUME NEW t \in Nat
  PROVE  UnixSeconds(t) * TicksPerSecond <= t
BY GoalStateAssumption DEF UnixSeconds

\* Within one handler the wall clock is t and the last write is as recent.
LEMMA NotDueIsTimely ==
  ASSUME NEW m, NEW ids, Mid(m, ids), NEW t \in Nat,
         m.goal # m.persisted => m.goal.updatedAt = UnixSeconds(t) \/ Timely(m)
  PROVE  Timely(MaybeFlushRuntimePersistence(m, t))
<1>1. m \in Ledgers /\ m.goal \in GoalOrNull /\ Behind(m.persisted, m.goal)
  BY BetweenType DEF Mid
<1>2. CASE m.goal = m.persisted
  BY <1>2 DEF MaybeFlushRuntimePersistence, FlushGoalPersistence, Timely
<1>3. CASE m.goal # m.persisted
  <2>1. m.goal \in Goals /\ m.goal # Null /\ m.goal.status = "active"
    BY <1>1, <1>3 DEF Behind, GoalOrNull
  <2>2. CASE RuntimeFlushDue(m, t)
    <3>1. /\ FlushGoalPersistence(m, "runtime", t).goal = m.goal
          /\ FlushGoalPersistence(m, "runtime", t).persisted = m.goal
      BY <1>1, <1>3, <2>1 DEF FlushGoalPersistence, Ledgers
    <3> QED BY <2>2, <3>1 DEF MaybeFlushRuntimePersistence, Timely
  <2>3. CASE ~RuntimeFlushDue(m, t)
    <3>1. m.persistedAt \in Nat /\ m.persistedAt # Null
      BY <1>1, <2>1, <2>3, GoalStateAssumption DEF RuntimeFlushDue, Ledgers, Instants
    <3>2. ~(t - m.persistedAt >= PersistInterval * TicksPerSecond)
      BY <2>1, <2>3 DEF RuntimeFlushDue
    <3>3. PersistInterval * TicksPerSecond \in Nat /\ UnixSeconds(t) * TicksPerSecond \in Nat
      BY GoalStateAssumption, GoalLedgerAssumption, UnixSecondsType
    <3>4. UnixSeconds(t) * TicksPerSecond < m.persistedAt + PersistInterval * TicksPerSecond
      <4>1. UnixSeconds(t) * TicksPerSecond <= t
        BY SecondsBehind
      <4> DEFINE u == UnixSeconds(t) * TicksPerSecond
                 i == PersistInterval * TicksPerSecond
      <4>2. u \in Nat /\ i \in Nat /\ u <= t /\ ~(t - m.persistedAt >= i)
        BY <3>2, <3>3, <4>1
      <4> HIDE DEF u, i
      <4>3. u < m.persistedAt + i
        BY <3>1, <4>2
      <4> QED BY <4>3 DEF u, i
    <3>5. Timely(m)
      BY <1>3, <3>1, <3>4 DEF Timely
    <3> QED BY <2>3, <3>5 DEF MaybeFlushRuntimePersistence
  <2> QED BY <2>2, <2>3
<1> QED BY <1>2, <1>3

\* What is written is not deferred.
LEMMA WrittenIsTimely ==
  ASSUME NEW m, NEW ids, Mid(m, ids), NEW source, NEW t
  PROVE  Timely(FlushGoalPersistence(m, source, t))
<1>1. m \in Ledgers /\ Behind(m.persisted, m.goal)
  BY BetweenType DEF Mid
<1>2. CASE m.goal = Null \/ m.goal = m.persisted
  BY <1>1, <1>2 DEF FlushGoalPersistence, Timely, Behind
<1>3. CASE ~(m.goal = Null \/ m.goal = m.persisted)
  BY <1>1, <1>3 DEF FlushGoalPersistence, Timely, Ledgers
<1> QED BY <1>2, <1>3

\* Nor is a goal that is not active.
LEMMA StoppedIsTimely ==
  ASSUME NEW m, NEW ids, Mid(m, ids), m.goal = Null \/ m.goal.status # "active"
  PROVE  Timely(m)
BY DEF Mid, Behind, Timely

LEMMA AccountingKeepsTimely ==
  ASSUME NEW m \in Ledgers, Timely(m), NEW t
  PROVE  Timely(BeginAccounting(m, t)) /\ Timely(ClearActiveAccounting(m))
BY DEF BeginAccounting, ClearActiveAccounting, Ledgers, Timely

\* accountProgress leaves the goal as timely as it was, or dated now.
LEMMA AccountedIsTimely ==
  ASSUME NEW m, NEW ids, Between(m, ids), NEW tokens \in Nat,
         NEW limited \in BOOLEAN, NEW t \in Nat, Timely(m)
  PROVE  LET a == AccountProgress(m, tokens, limited, t)
         IN  /\ AccountingThrows(m, tokens, limited, t) => Timely(a)
             /\ a.goal # a.persisted => a.goal.updatedAt = UnixSeconds(t) \/ Timely(a)
<1> DEFINE a == AccountProgress(m, tokens, limited, t)
           touched == [m EXCEPT !.since = t]
           next == NextUsage(m, tokens, t)
           plan == RuntimeAccountingPlan(m.goal, next)
           b == ApplyEffects(touched, plan.before)
           c == [b EXCEPT !.goal = next]
<1>1. m \in Ledgers /\ m.goal \in GoalOrNull /\ GoodGoal(m.goal, ids) /\ AccountingOK(m)
  BY BetweenType DEF Between, Mid
<1>2. CASE ~AccountsFor(m, limited)
  <2>1. a = BeginAccounting(m, t)
    BY <1>2 DEF AccountProgress
  <2> QED BY <1>1, <2>1, AccountingKeepsTimely
<1>3. CASE AccountsFor(m, limited) /\ ~(/\ UsageChanges(m, tokens, t)
                                        /\ ValidRuntimeAccounting(m.goal, next))
  <2>1. a = touched
    BY <1>3 DEF AccountProgress
  <2>2. Timely(a)
    BY <1>1, <2>1 DEF Timely, Ledgers
  <2> QED BY <2>2
<1>4. CASE /\ AccountsFor(m, limited)
           /\ UsageChanges(m, tokens, t) /\ ValidRuntimeAccounting(m.goal, next)
  <2>1. a = ApplyGoalTransition(touched, plan, t) /\ ~AccountingThrows(m, tokens, limited, t)
    BY <1>4 DEF AccountProgress, AccountingThrows
  <2>2. touched \in Ledgers
    BY <1>1 DEF Ledgers, Instants
  <2>3. next.updatedAt = UnixSeconds(t)
    <3>1. m.goal \in Goals
      BY <1>1, <1>4 DEF AccountsFor, CanAccount, GoalOrNull
    <3> QED BY <3>1 DEF NextUsage, ApplyUsage, Goals
  <2> HIDE DEF next
  <2>4. plan.next = next /\ plan.persist \in {"set", "defer"} /\ plan.source = "runtime"
    BY DEF RuntimeAccountingPlan
  <2>5. a = c \/ a = FlushGoalPersistence(c, "runtime", t)
    <3> HIDE DEF plan, touched
    <3> QED BY <2>1, <2>4 DEF ApplyGoalTransition
  <2> HIDE DEF touched, plan
  <2>6. b \in Ledgers
    BY <2>2, EffectsKeep
  <2> HIDE DEF b
  <2>7. c.goal = next
    BY <2>6 DEF Ledgers
  <2>8. FlushGoalPersistence(c, "runtime", t).goal = next
    <3>1. \A s \in {"runtime"} : FlushGoalPersistence(c, s, t).goal = c.goal
      BY <2>6 DEF FlushGoalPersistence, Ledgers
    <3> QED BY <2>7, <3>1
  <2> QED BY <2>1, <2>3, <2>5, <2>7, <2>8
<1> QED BY <1>2, <1>3, <1>4

LEMMA SetGoalIsTimely ==
  ASSUME NEW m, NEW ids, Between(m, ids), Timely(m), NEW next \in Goals, NEW source, NEW t
  PROVE  Timely(SetGoal(m, next, source, t))
<1> DEFINE plan == SetPlan(m.goal, next, source)
           b == ApplyEffects(m, plan.before)
           c == [b EXCEPT !.goal = next]
<1>1. m \in Ledgers
  BY BetweenType DEF Between
<1>2. CASE m.goal = next
  <2>1. plan.persist = "skip" /\ plan.before = {}
    BY <1>2 DEF SetPlan
  <2> QED BY <2>1 DEF SetGoal, ApplyGoalTransition, ApplyEffects
<1>3. CASE m.goal # next
  <2>1. plan.persist = "set" /\ plan.next = next
    BY <1>3 DEF SetPlan
  <2>2. SetGoal(m, next, source, t) = FlushGoalPersistence(c, plan.source, t)
    BY <2>1 DEF SetGoal, ApplyGoalTransition
  <2> HIDE DEF plan
  <2>3. b \in Ledgers
    BY <1>1, EffectsKeep
  <2> HIDE DEF b
  <2>4. c \in Ledgers /\ c.goal = next /\ next # Null
    BY <2>3, GoalStateAssumption DEF Ledgers, GoalOrNull
  <2> HIDE DEF c
  <2>5. FlushGoalPersistence(c, plan.source, t).goal = FlushGoalPersistence(c, plan.source, t).persisted
    BY <2>4 DEF FlushGoalPersistence, Ledgers
  <2> QED BY <2>2, <2>5 DEF Timely
<1> QED BY <1>2, <1>3

LEMMA PauseIsTimely ==
  ASSUME NEW m, NEW ids, Between(m, ids), Timely(m), NEW t \in Nat,
         NEW r \in {PauseForAbort(m, t), PauseForRecovery(m, t), PauseForShutdown(m, t)}
  PROVE  Timely(r)
<1>1. Mid(r, ids)
  BY PauseForAbortKeeps, PauseForRecoveryKeeps, PauseForShutdownKeeps DEF Between
<1>2. r = m \/ r.goal.status # "active"
  BY PauseMoves DEF Goes
<1> QED BY <1>1, <1>2, StoppedIsTimely

\* A handler that accounts, writes and perhaps pauses.
LEMMA FlushedIsTimely ==
  ASSUME NEW m, NEW ids, Between(m, ids), NEW tokens \in Nat,
         NEW limited \in BOOLEAN, NEW t \in Nat, Timely(m)
  PROVE  LET a == AccountProgress(m, tokens, limited, t)
             f == FlushGoalPersistence(a, "runtime", t)
         IN  /\ AccountingThrows(m, tokens, limited, t) => Timely(a)
             /\ Timely(f) /\ Timely(MaybeFlushRuntimePersistence(a, t))
             /\ Timely(PauseForAbort(f, t)) /\ Timely(PauseForRecovery(f, t))
             /\ Timely(PauseForShutdown(f, t))
<1> DEFINE a == AccountProgress(m, tokens, limited, t)
           f == FlushGoalPersistence(a, "runtime", t)
<1>1. /\ Mid(a, ids)
      /\ AccountingThrows(m, tokens, limited, t) => Timely(a)
      /\ a.goal # a.persisted => a.goal.updatedAt = UnixSeconds(t) \/ Timely(a)
  BY AccountProgressKeeps, AccountedIsTimely
<1> HIDE DEF a
<1>2. Between(f, ids) /\ Timely(f) /\ Timely(MaybeFlushRuntimePersistence(a, t))
  BY <1>1, FlushSettles, WrittenIsTimely, NotDueIsTimely
<1> HIDE DEF f
<1>3. /\ Timely(PauseForAbort(f, t)) /\ Timely(PauseForRecovery(f, t))
      /\ Timely(PauseForShutdown(f, t))
  BY <1>2, PauseIsTimely
<1> QED BY <1>1, <1>2, <1>3 DEF a, f

LEMMA HandlersAreTimely ==
  ASSUME NEW m, NEW ids, Between(m, ids), NEW tokens \in Nat, NEW t \in Nat, Timely(m),
         NEW aborted, NEW gaveUp
  PROVE  /\ Timely(ToolExecutionEndLedger(m, t)) /\ Timely(BeforeCompactLedger(m, t))
         /\ Timely(TurnEndLedger(m, tokens, aborted, t))
         /\ Timely(AgentEndLedger(m, aborted, tokens, gaveUp, t))
<1> DEFINE a(k, limited) == AccountProgress(m, k, limited, t)
           f(k, limited) == FlushGoalPersistence(a(k, limited), "runtime", t)
<1>1. \A k \in Nat, limited \in BOOLEAN :
        /\ AccountingThrows(m, k, limited, t) => Timely(a(k, limited))
        /\ Timely(f(k, limited)) /\ Timely(MaybeFlushRuntimePersistence(a(k, limited), t))
        /\ Timely(PauseForAbort(f(k, limited), t)) /\ Timely(PauseForRecovery(f(k, limited), t))
  BY FlushedIsTimely
<1>2. /\ ToolExecutionEndLedger(m, t) = IF AccountingThrows(m, 0, TRUE, t) THEN a(0, TRUE)
                                        ELSE MaybeFlushRuntimePersistence(a(0, TRUE), t)
      /\ BeforeCompactLedger(m, t) = IF AccountingThrows(m, 0, TRUE, t) THEN a(0, TRUE)
                                     ELSE f(0, TRUE)
      /\ TurnEndLedger(m, tokens, aborted, t) =
           IF AccountingThrows(m, tokens, FALSE, t) THEN a(tokens, FALSE)
           ELSE IF aborted THEN PauseForAbort(f(tokens, FALSE), t) ELSE f(tokens, FALSE)
      /\ AgentEndLedger(m, aborted, tokens, gaveUp, t) =
           IF AccountingThrows(m, tokens, TRUE, t) THEN a(tokens, TRUE)
           ELSE IF aborted THEN PauseForAbort(f(tokens, TRUE), t)
           ELSE IF gaveUp THEN PauseForRecovery(f(tokens, TRUE), t) ELSE f(tokens, TRUE)
  BY DEF ToolExecutionEndLedger, BeforeCompactLedger, TurnEndLedger, AgentEndLedger
<1> HIDE DEF a, f
<1> QED BY <1>1, <1>2

LEMMA CompleteGoalIsTimely ==
  ASSUME NEW m, NEW ids, Between(m, ids), NEW t \in Nat, Timely(m)
  PROVE  Timely(CompleteGoalLedger(m, t))
<1> DEFINE a == AccountProgress(m, 0, TRUE, t)
           r == CompleteGoalLedger(m, t)
<1>1. Between(a, ids) /\ Between(r, ids)
  BY AccountProgressKeeps, CompleteGoalKeeps
<1>2. CASE AccountingThrows(m, 0, TRUE, t)
  <2>1. r = a
    BY <1>2 DEF CompleteGoalLedger
  <2> QED BY <1>2, <2>1, AccountedIsTimely
<1>3. CASE ~AccountingThrows(m, 0, TRUE, t)
  <2>1. r.goal = Null \/ r.goal.status # "active"
    <3>1. CASE ~MayUpdateGoalStatus(a.goal, "complete")
      <4>1. r = a /\ a.goal = Null
        BY <1>3, <3>1 DEF CompleteGoalLedger, MayUpdateGoalStatus
      <4> QED BY <4>1
    <3>2. CASE MayUpdateGoalStatus(a.goal, "complete")
      <4> DEFINE next == UpdateGoalStatus(a.goal, "complete", t)
      <4>1. r = SetGoal(a, next, "tool", t)
        BY <1>3, <3>2 DEF CompleteGoalLedger
      <4> HIDE DEF a, r
      <4>2. a.goal \in Goals /\ GoodGoal(a.goal, ids) /\ Behind(a.persisted, a.goal) /\ a.goal # Null
        BY <1>1, <3>2 DEF MayUpdateGoalStatus, Between, Mid, Readable, Ledgers, GoalOrNull
      <4>3. /\ next \in Goals /\ GoodGoal(next, ids) /\ next.id = a.goal.id
            /\ next.tokens = a.goal.tokens /\ next.seconds = a.goal.seconds
            /\ next.status = "complete"
        <5>1. CASE a.goal.status = "complete"
          BY <4>2, <5>1 DEF UpdateGoalStatus
        <5>2. CASE a.goal.status # "complete"
          <6>1. next = DeriveGoalWithStatus(a.goal, "complete", t)
            BY <5>2 DEF UpdateGoalStatus, DeriveGoalWithStatus
          <6> QED BY <4>2, <6>1, DeriveKeeps
        <5> QED BY <5>1, <5>2
      <4> HIDE DEF next
      <4>4. NeverRewinds(a.persisted, next)
        BY <4>2, <4>3 DEF Behind, NeverRewinds
      <4>5. r.goal = next
        BY <1>1, <4>1, <4>3, <4>4, SetGoalSettles
      <4> QED BY <4>3, <4>5
    <3> QED BY <3>1, <3>2
  <2> HIDE DEF r
  <2> QED BY <1>1, <2>1, StoppedIsTimely DEF Between, r
<1> QED BY <1>2, <1>3

\* A resumed goal was written.
LEMMA ResumeIsTimely ==
  ASSUME NEW m, NEW ids, Between(m, ids), Timely(m), NEW t \in Nat
  PROVE  Timely(ResumePausedGoal(m, t))
<1>1. CASE m.goal # Null /\ m.goal.status = "paused"
  <2> DEFINE plan == ResumeActivePlan(m.goal, t)
             next == DeriveGoalWithStatus(m.goal, "active", t)
             b == ApplyEffects(m, plan.before)
             c == [b EXCEPT !.goal = next]
  <2>1. m.goal \in Goals /\ m \in Ledgers /\ GoodGoal(m.goal, ids)
    BY <1>1 DEF Between, Mid, Readable, Ledgers, GoalOrNull
  <2>2. next \in Goals
    BY <1>1, <2>1, DeriveKeeps
  <2>3. plan.persist = "set" /\ plan.next = next /\ plan.source = "runtime"
    BY DEF ResumeActivePlan
  <2>4. ResumePausedGoal(m, t) = FlushGoalPersistence(c, "runtime", t)
    BY <1>1, <2>3 DEF ResumePausedGoal, ApplyGoalTransition
  <2> HIDE DEF plan, next
  <2>5. b \in Ledgers
    BY <2>1, EffectsKeep
  <2> HIDE DEF b
  <2>6. c \in Ledgers /\ c.goal # Null
    BY <2>2, <2>5, GoalStateAssumption DEF Ledgers, GoalOrNull
  <2> HIDE DEF c
  <2>7. FlushGoalPersistence(c, "runtime", t).goal = FlushGoalPersistence(c, "runtime", t).persisted
    BY <2>6 DEF FlushGoalPersistence, Ledgers
  <2> QED BY <2>4, <2>7 DEF Timely
<1>2. CASE ~(m.goal # Null /\ m.goal.status = "paused")
  BY <1>2 DEF ResumePausedGoal
<1> QED BY <1>1, <1>2

LEMMA ReloadIsTimely ==
  ASSUME NEW m, m.log \in Seq(Entries), m \in Ledgers, NEW t
  PROVE  Timely(BeginAccounting(ReloadFromSession(m), t))
<1> DEFINE r == ReloadFromSession(m)
           g == ReconstructGoal(m.log)
<1>1. g \in GoalOrNull
  BY ReconstructType, LenProperties DEF ReconstructGoal
<1> HIDE DEF g
<1>2. r \in Ledgers /\ r.goal = g /\ r.persisted = g
  BY <1>1 DEF ReloadFromSession, ClearActiveAccounting, Ledgers, Instants, g
<1> HIDE DEF r
<1> QED BY <1>2, AccountingKeepsTimely DEF Timely, r

LEMMA NextKeepsTimely == IInv /\ Timely(led) /\ [Next]_vars => Timely(led)'
<1> SUFFICES ASSUME IInv, Timely(led), [Next]_vars PROVE Timely(led')
  OBVIOUS
<1>1. now \in Nat /\ Counters /\ IInv' /\ led \in Ledgers /\ led.log \in Seq(Entries)
  BY NextKeepsIInv, IInvLog DEF IInv, Counters
<1>2. alive => Between(led, usedIds)
  BY DEF IInv
<1>3. \A log : Timely(FreshLedger(log))
  BY DEF Timely, FreshLedger
<1>4. Timely(BeginAccounting(led, now)) /\ Timely(ClearActiveAccounting(led))
  BY <1>1, AccountingKeepsTimely
<1>5. alive => \A tokens \in Nat, aborted \in BOOLEAN, gaveUp \in BOOLEAN :
                 /\ Timely(ToolExecutionEndLedger(led, now))
                 /\ Timely(BeforeCompactLedger(led, now))
                 /\ Timely(TurnEndLedger(led, tokens, aborted, now))
                 /\ Timely(AgentEndLedger(led, aborted, tokens, gaveUp, now))
  BY <1>1, <1>2, HandlersAreTimely
<1>6. alive => /\ Timely(CompleteGoalLedger(led, now))
               /\ Timely(FlushGoalPersistence(led, "runtime", now))
  BY <1>1, <1>2, CompleteGoalIsTimely, WrittenIsTimely DEF Between
<1>7. AbortedTokens \in Nat /\ run.aborted \in BOOLEAN
  BY <1>1 DEF AbortedTokens, Counters, Runs
<1>8. CASE ClockChanges \/ CommandAskReplace \/ AnswerReplaceNo \/ UNCHANGED vars
  BY <1>8 DEF ClockChanges, CommandAskReplace, AnswerReplaceNo, vars
<1>9. CASE \E resuming \in BOOLEAN : SessionStart(resuming)
  BY <1>1, <1>9, ReloadIsTimely DEF SessionStart
<1>10. CASE \E yes \in BOOLEAN : AnswerResume(yes)
  <2> DEFINE r == ResumePausedGoal(led, now)
  <2>1. Between(led, usedIds)
    BY <1>2, <1>10 DEF AnswerResume
  <2>2. Between(r, usedIds) /\ Timely(r)
    BY <1>1, <2>1, ResumeSettles, ResumeIsTimely
  <2> HIDE DEF r
  <2>3. Timely(BeginAccounting(r, now))
    BY <2>2, BetweenType, AccountingKeepsTimely DEF Between
  <2> QED BY <1>10, <2>3 DEF AnswerResume, r
<1>11. ASSUME NEW n \in 0..Len(led.log), SessionTree(n) PROVE Timely(led')
  <2> DEFINE m == [led EXCEPT !.log = SubSeq(led.log, 1, n)]
  <2>1. SubSeq(led.log, 1, n) \in Seq(Entries)
    BY <1>1, ReconstructPrefix
  <2>2. m \in Ledgers /\ m.log \in Seq(Entries)
    BY <1>1, <2>1 DEF Ledgers
  <2> HIDE DEF m
  <2>3. Timely(BeginAccounting(ReloadFromSession(m), now))
    BY <2>2, ReloadIsTimely
  <2> QED BY <1>11, <2>3 DEF SessionTree, m
<1>12. CASE SessionBeforeCompact \/ SessionCompact
  BY <1>5, <1>6, <1>12 DEF SessionBeforeCompact, SessionCompact, Started
<1>13. CASE (\E dropped, pending \in BOOLEAN : SessionShutdown(dropped, pending)) \/ Crash
  BY <1>3, <1>13 DEF SessionShutdown, Crash, SessionEnds
<1>14. ASSUME NEW id \in GoalIds, NEW budget \in Budgets, NEW source, alive,
              StartGoal(id, budget, source)
       PROVE  Timely(led')
  <2>1. CreateThreadGoal(id, budget, now) \in Goals
    BY <1>1, UnixSecondsType DEF CreateThreadGoal, Goals, Statuses
  <2> QED BY <1>2, <1>14, <2>1, SetGoalIsTimely DEF StartGoal
<1>15. CASE \E id \in GoalIds : CommandStart(id) \/ AnswerReplaceYes(id)
  BY <1>14, <1>15 DEF CommandStart, AnswerReplaceYes, UserMayType, Budgets
<1>16. CASE \E id \in GoalIds, budget \in TokenBudgets \cup {Null}, replaceExisting \in BOOLEAN :
              ToolCreateGoal(id, budget, replaceExisting)
  BY <1>14, <1>16, GoalLedgerAssumption DEF ToolCreateGoal, Budgets
<1>17. ASSUME NEW status \in {"paused", "active"}, CommandSetStatus(status) PROVE Timely(led')
  <2> DEFINE g == GoalForDisplay(led, now)
             next == UpdateGoalStatus(g, status, now)
  <2>1. Between(led, usedIds) /\ MayUpdateGoalStatus(led.goal, status)
    BY <1>2, <1>17 DEF CommandSetStatus, UserMayType
  <2>2. g \in Goals /\ GoodGoal(g, usedIds) /\ g.status = led.goal.status
    BY <1>1, <2>1, GoalForDisplayKeeps DEF MayUpdateGoalStatus
  <2> HIDE DEF g
  <2>3. next \in Goals
    <3>1. g.status \in {"active", "paused"}
      BY <2>1, <2>2 DEF MayUpdateGoalStatus
    <3>2. next = DeriveGoalWithStatus(g, status, now)
      BY <3>1 DEF UpdateGoalStatus, DeriveGoalWithStatus
    <3> QED BY <1>1, <2>2, <3>1, <3>2, DeriveKeeps
  <2> HIDE DEF next
  <2>4. Timely(SetGoal(led, next, "command", now))
    BY <2>1, <2>3, SetGoalIsTimely
  <2> QED BY <1>17, <2>4 DEF CommandSetStatus, g, next
<1>18. CASE CommandClear
  <2>1. Between(led', usedIds)
    BY <1>1, <1>2, <1>18, ClearSettles DEF CommandClear, UserMayType, Between, Mid
  <2>2. led'.goal = Null
    <3>1. \A b \in Ledgers : [b EXCEPT !.goal = Null, !.persisted = Null,
              !.persistedAt = Null, !.log = Append(@, ClearEntry)].goal = Null
      BY DEF Ledgers
    <3>2. ApplyEffects(led, ClearPlan.before) \in Ledgers
      BY <1>1, EffectsKeep
    <3> QED BY <1>18, <3>1, <3>2 DEF CommandClear, ApplyGoalTransition, ClearPlan
  <2> QED BY <2>1, <2>2, StoppedIsTimely DEF Between
<1>19. CASE ToolCompleteGoal \/ ToolExecutionEnd
  BY <1>5, <1>6, <1>19 DEF ToolCompleteGoal, ToolExecutionEnd
<1>20. CASE TurnStart \/ GuardDropsAccounting \/ GuardSkips
  BY <1>4, <1>20 DEF TurnStart, GuardDropsAccounting, GuardSkips
<1>21. CASE \E tokens \in TurnTokens, aborted \in BOOLEAN : TurnEnd(tokens, aborted)
  BY <1>5, <1>21, GoalLedgerAssumption DEF TurnEnd, EndsTurn
<1>22. CASE \E gaveUp \in BOOLEAN : AgentEnd(gaveUp)
  BY <1>5, <1>7, <1>22 DEF AgentEnd, EndsRun
<1>23. CASE \/ \E tokens \in TurnTokens, aborted \in BOOLEAN : GuardSkipsTurnEnd(tokens, aborted)
            \/ GuardSkipsAgentEnd
  BY <1>20, <1>23 DEF GuardSkipsTurnEnd, GuardSkipsAgentEnd
<1> QED
  BY <1>8, <1>9, <1>10, <1>11, <1>12, <1>13, <1>15, <1>16, <1>17, <1>18, <1>19, <1>20, <1>21,
     <1>22, <1>23 DEF Next

\* However long a tool-heavy run is, the seconds not yet in the log reach no
\* further than one persist interval past the last write.
THEOREM CrashLosesOneInterval == Spec => []DeferredTimeIsBounded
<1>1. Init => Timely(led)
  BY DEF Init, FreshLedger, Timely
<1>2. IInv /\ Timely(led) /\ [Next]_vars => Timely(led)'
  BY NextKeepsTimely
<1>3. Timely(led) => DeferredTimeIsBounded
  BY DEF Timely, DeferredTimeIsBounded
<1> QED BY <1>1, <1>2, <1>3, LedgerInvariant, PTL DEF Spec
=============================================================================
