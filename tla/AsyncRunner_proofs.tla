-------------------------- MODULE AsyncRunner_proofs --------------------------
(***************************************************************************)
(* What the files of a background run say about it, proved for plans of    *)
(* any length, groups of any width and any number of models.               *)
(***************************************************************************)
EXTENDS AsyncRunner, TLAPS, FunctionTheorems, FiniteSetTheorems, SequenceTheorems

Active == {"top", "tasks", "share", "finish"}

(***************************************************************************)
(* The status file.  It says paused exactly when the run was stopped, and  *)
(* running while the loop goes on; it has its final state before the       *)
(* result is written.                                                      *)
(***************************************************************************)
StatusInv ==
  /\ interrupted \in BOOLEAN
  /\ state \in {"running", "paused", "failed", "complete"}
  /\ pc \in Active \cup {"result", "exited", "dead"}
  /\ pc # "exited" => resultFile = "none"
  /\ interrupted <=> state = "paused"
  /\ pc \in {"top", "tasks"} /\ ~interrupted => state = "running"
  /\ pc = "result" => state = FinalState

LEMMA StatusInit == Init => StatusInv
BY DEF Init, StatusInv, Active

\* Actions of the loop and of the tasks that leave the payload's state alone.
LEMMA StatusQuiet ==
  ASSUME StatusInv, pc \in Active, pc' \in Active \cup {"dead"},
         pc' \in {"top", "tasks"} => pc \in {"top", "tasks"},
         UNCHANGED <<state, interrupted, resultFile>>
  PROVE  StatusInv'
BY DEF StatusInv, Active

LEMMA StatusStep == StatusInv /\ [Next]_vars => StatusInv'
<1> SUFFICES ASSUME StatusInv, [Next]_vars PROVE StatusInv'
  OBVIOUS
<1> AfterLoop \in {"share", "finish"}
  BY DEF AfterLoop
<1>1. CASE Loop
  <2>1. CASE MaterializeFails
    BY <2>1 DEF MaterializeFails, Begins, StatusInv, Active
  <2>2. CASE LoopEnds \/ SequentialStepBegins \/ ParallelGroupBegins \/ WorktreeSetupFails
             \/ MaterializeEmpty \/ \E k \in 1..MaxWidth : MaterializeItems(k)
    BY <2>2, StatusQuiet DEF LoopEnds, SequentialStepBegins, ParallelGroupBegins,
       WorktreeSetupFails, MaterializeEmpty, MaterializeItems, Begins, AwaitTasks, Active
  <2> QED BY <1>1, <2>1, <2>2 DEF Loop
<1>2. CASE Tasks
  BY <1>2, StatusQuiet DEF Tasks, TaskOf, SequentialStepStarts, SequentialAttemptEnds,
     SequentialStepEnds, ParallelTaskStarts, ParallelAttemptEnds, DynamicTaskStarts,
     DynamicAttemptEnds, ParallelGroupEnds, DynamicGroupEnds, Collect, Active
<1>3. CASE ShareEnds
  BY <1>3, StatusQuiet DEF ShareEnds, Active
<1>4. CASE RunEnds
  BY <1>4 DEF RunEnds, StatusInv, Active, FinalState, AggregateOutcome, Succeeded
<1>5. CASE WriteResultFile
  BY <1>5 DEF WriteResultFile, StatusInv, Active
<1>6. CASE InterruptRunner
  <2>1. pc \in {"share", "tasks"} BY <1>6 DEF InterruptRunner, Idle
  <2> QED BY <1>6, <2>1 DEF InterruptRunner, StatusInv, Active
<1>7. CASE Crash
  BY <1>7 DEF Crash, StatusInv, Active
<1>8. ASSUME NEW i \in Slots, ChildEvents(i) PROVE StatusInv'
  <2>1. OfChild(i)
    BY <1>8 DEF ChildEvents, Timers, ChildWrites, FinalDrainTimer, TimeoutTimer,
       InterruptTimer, ChildExits, ChildCloses, SpawnFails
  <2>2. pc \in {"share", "tasks"} BY <2>1 DEF OfChild, Idle
  <2> QED BY <2>1, <2>2, StatusQuiet DEF OfChild, Active
<1>9. CASE UNCHANGED vars
  BY <1>9 DEF vars, StatusInv, FinalState, AggregateOutcome, Succeeded
<1> QED BY <1>1, <1>2, <1>3, <1>4, <1>5, <1>6, <1>7, <1>8, <1>9 DEF Next, Ending
-----------------------------------------------------------------------------
(***************************************************************************)
(* Refinement: every step is a step of AsyncRun, or changes no file.       *)
(***************************************************************************)
PhaseAt(p) == CASE p = "dead" -> "dead"
                [] p = "exited" -> "over"
                [] p = "result" -> "settled"
                [] OTHER -> "running"

\* While the loop goes on, and until the outcome is settled, the phase is running.
LEMMA PhaseOfPc ==
  /\ \A p \in Active : PhaseAt(p) = "running"
  /\ PhaseAt("result") = "settled" /\ PhaseAt("exited") = "over" /\ PhaseAt("dead") = "dead"
BY DEF PhaseAt, Active

LEMMA FilesInit == Init => Files!AsyncInit
BY DEF Init, Files!AsyncInit

File(ph, s, r) == [phase |-> ph, status |-> s, result |-> r]

\* What may happen to the files, written out.
LEMMA FileMoves ==
  ASSUME NEW s, NEW r
  PROVE  /\ \A x \in {"paused", "failed"} :
              File("running", x, r) \in Files!Leaving(File("running", "running", r))
         /\ \A x \in IF s = "paused" THEN {"paused"} ELSE {"failed", "complete"} :
              File("settled", x, r) \in Files!Settling(File("running", s, r))
         /\ \A x \in {s, r} : File("over", s, x) \in Files!Ending(File("settled", s, r))
         /\ \A ph \in {"running", "settled"} :
              File("dead", s, r) \in Files!Dying(File(ph, s, r))
<1>1. ASSUME NEW x \in {"paused", "failed"}
      PROVE  File("running", x, r) \in Files!Leaving(File("running", "running", r))
  <2>1. File("running", x, r) = [File("running", "running", r) EXCEPT !.status = x]
    BY DEF File
  <2> QED BY <2>1 DEF Files!Leaving, File
<1>2. ASSUME NEW x \in IF s = "paused" THEN {"paused"} ELSE {"failed", "complete"}
      PROVE  File("settled", x, r) \in Files!Settling(File("running", s, r))
  <2>a. File("settled", s, r) = [File("running", s, r) EXCEPT !.phase = "settled"]
    BY DEF File
  <2>b. File("settled", x, r) = [File("settled", s, r) EXCEPT !.status = x]
    BY DEF File
  <2>1. File("settled", x, r) =
          [File("running", s, r) EXCEPT !.phase = "settled", !.status = x]
    BY <2>a, <2>b, Zenon
  <2> QED BY <2>1 DEF Files!Settling, File
<1>3. ASSUME NEW x \in {s, r}
      PROVE  File("over", s, x) \in Files!Ending(File("settled", s, r))
  <2>2. File("over", s, r) = [File("settled", s, r) EXCEPT !.phase = "over"]
    BY DEF File
  <2>a. File("over", s, s) = [File("over", s, r) EXCEPT !.result = s]
    BY DEF File
  <2>1. File("over", s, s) = [File("settled", s, r) EXCEPT !.phase = "over", !.result = s]
    BY <2>2, <2>a, Zenon
  <2>3. File("settled", s, r).phase = "settled" /\ File("settled", s, r).status = s
    BY DEF File
  <2> QED BY <2>1, <2>2, <2>3 DEF Files!Ending
<1>4. ASSUME NEW ph \in {"running", "settled"}
      PROVE  File("dead", s, r) \in Files!Dying(File(ph, s, r))
  <2>1. File("dead", s, r) = [File(ph, s, r) EXCEPT !.phase = "dead"]
    BY DEF File
  <2> QED BY <2>1 DEF Files!Dying, File
<1> QED BY <1>1, <1>2, <1>3, <1>4

LEMMA FilesMap ==
  /\ Files!File = File(PhaseAt(pc), state, resultFile)
  /\ Files!File' = File(PhaseAt(pc'), state', resultFile')
  /\ (PhaseAt(pc') = PhaseAt(pc) /\ state' = state /\ resultFile' = resultFile)
       => UNCHANGED Files!asyncVars
BY DEF Files!File, File, PhaseAt, Files!asyncVars

\* A step that stays in the loop and leaves the payload's state alone.
LEMMA QuietStutters ==
  ASSUME pc \in Active, pc' \in Active, UNCHANGED <<state, resultFile>>
  PROVE  UNCHANGED Files!asyncVars
BY PhaseOfPc, FilesMap

LEMMA FilesStep ==
  StatusInv /\ [Next]_vars => [Files!AsyncNext]_(Files!asyncVars)
<1> SUFFICES ASSUME StatusInv, [Next]_vars
             PROVE  Files!AsyncNext \/ UNCHANGED Files!asyncVars
  OBVIOUS
<1> AfterLoop \in {"share", "finish"}
  BY DEF AfterLoop
<1>m. ASSUME Files!File' \in Files!Leaving(Files!File) \cup Files!Settling(Files!File)
                             \cup Files!Ending(Files!File) \cup Files!Dying(Files!File)
      PROVE  Files!AsyncNext
  BY <1>m DEF Files!AsyncNext
<1>1. CASE Loop
  <2>1. CASE MaterializeFails
    <3>1. pc = "top" /\ pc' \in {"share", "finish"} /\ state = "running" /\ state' = "failed"
          /\ resultFile' = resultFile
      BY <2>1 DEF MaterializeFails, Begins, StatusInv
    <3>2. PhaseAt(pc) = "running" /\ PhaseAt(pc') = "running"
      BY <3>1, PhaseOfPc DEF Active
    <3> QED BY <3>1, <3>2, <1>m, FilesMap, FileMoves
  <2>2. CASE LoopEnds \/ SequentialStepBegins \/ ParallelGroupBegins \/ WorktreeSetupFails
             \/ MaterializeEmpty \/ \E k \in 1..MaxWidth : MaterializeItems(k)
    BY <2>2, QuietStutters DEF LoopEnds, SequentialStepBegins,
       ParallelGroupBegins, WorktreeSetupFails, MaterializeEmpty, MaterializeItems, Begins,
       AwaitTasks, Active
  <2> QED BY <1>1, <2>1, <2>2 DEF Loop
<1>2. CASE Tasks
  BY <1>2, QuietStutters DEF Tasks, TaskOf, SequentialStepStarts,
     SequentialAttemptEnds, SequentialStepEnds, ParallelTaskStarts, ParallelAttemptEnds,
     DynamicTaskStarts, DynamicAttemptEnds, ParallelGroupEnds, DynamicGroupEnds, Collect, Active
<1>3. CASE ShareEnds
  BY <1>3, QuietStutters DEF ShareEnds, Active
<1>4. CASE RunEnds
  <2>1. PhaseAt(pc) = "running" /\ PhaseAt(pc') = "settled"
    BY <1>4, PhaseOfPc DEF RunEnds, Active
  <2>2. state' \in IF state = "paused" THEN {"paused"} ELSE {"failed", "complete"}
    BY <1>4 DEF RunEnds, FinalState, StatusInv
  <2>3. resultFile' = resultFile BY <1>4 DEF RunEnds
  <2> QED BY <2>1, <2>2, <2>3, <1>m, FilesMap, FileMoves
<1>5. CASE WriteResultFile
  <2>1. PhaseAt(pc) = "settled" /\ PhaseAt(pc') = "over"
    BY <1>5, PhaseOfPc DEF WriteResultFile
  <2>2. state' = state /\ resultFile = "none" /\ resultFile' \in {state, "none"}
    BY <1>5 DEF WriteResultFile, StatusInv
  <2> QED BY <2>1, <2>2, <1>m, FilesMap, FileMoves
<1>6. CASE InterruptRunner
  <2>1. pc \in {"share", "tasks"} BY <1>6 DEF InterruptRunner, Idle
  <2>2. PhaseAt(pc) = "running" /\ PhaseAt(pc') = "running"
    BY <1>6, <2>1, PhaseOfPc DEF InterruptRunner, Active
  <2>3. state = "running" /\ state' = "paused" /\ resultFile' = resultFile
    BY <1>6 DEF InterruptRunner
  <2> QED BY <2>2, <2>3, <1>m, FilesMap, FileMoves
<1>7. CASE Crash
  <2>0. pc' = "dead" /\ (pc \in Active \/ pc = "result")
    BY <1>7 DEF Crash, StatusInv
  <2>1. PhaseAt(pc') = "dead" /\ PhaseAt(pc) \in {"running", "settled"}
    BY <2>0, PhaseOfPc
  <2>2. state' = state /\ resultFile' = resultFile BY <1>7 DEF Crash
  <2> QED BY <2>1, <2>2, <1>m, FilesMap, FileMoves
<1>8. ASSUME NEW i \in Slots, ChildEvents(i) PROVE UNCHANGED Files!asyncVars
  <2>1. OfChild(i)
    BY <1>8 DEF ChildEvents, Timers, ChildWrites, FinalDrainTimer, TimeoutTimer,
       InterruptTimer, ChildExits, ChildCloses, SpawnFails
  <2>2. pc \in {"share", "tasks"} BY <2>1 DEF OfChild, Idle
  <2> QED BY <2>1, <2>2, QuietStutters DEF OfChild, Active
<1>9. CASE UNCHANGED vars
  <2>1. pc' = pc /\ state' = state /\ resultFile' = resultFile
    BY <1>9 DEF vars
  <2> QED BY <2>1, FilesMap
<1> QED BY <1>1, <1>2, <1>3, <1>4, <1>5, <1>6, <1>7, <1>8, <1>9 DEF Next, Ending

LEMMA StatusAlways == Spec => []StatusInv
BY StatusInit, StatusStep, PTL DEF Spec

\* Whatever plan it carries out, and whenever it is stopped or dies, the files
\* of a runner tell a story the watcher and the reconciler rely on: one result,
\* after the final status and equal to it.
THEOREM RunnerImplementsAsyncRun == Spec => ImplementsAsyncRun
<1>1. StatusInv /\ [Next]_vars => [Files!AsyncNext]_(Files!asyncVars)
  BY FilesStep
<1> QED BY <1>1, FilesInit, StatusAlways, PTL DEF Spec, ImplementsAsyncRun, Files!AsyncSpec
-----------------------------------------------------------------------------
(***************************************************************************)
(* The children.  There are none but while a group is awaited, and the one *)
(* the stop signal would reach is alive.                                   *)
(***************************************************************************)
ChildInv ==
  /\ child \in [Slots -> ChildType \cup {NoChild}]
  /\ active \in Slots \cup {NoTask}
  /\ active # NoTask => Live(active)
  /\ pc \notin {"tasks", "dead"} => \A i \in Slots : child[i] = NoChild

\* A handler or a timer changes what is remembered of a child, not whether it
\* runs; closing and failing to spawn end it.
LEMMA ChildHandlers ==
  ASSUME NEW c \in ChildType
  PROVE  /\ AssistantFails(c) \in ChildType /\ AssistantFails(c).proc = c.proc
         /\ \A failed, hasText \in BOOLEAN :
              /\ AssistantStops(c, failed, hasText) \in ChildType
              /\ AssistantStops(c, failed, hasText).proc = c.proc
         /\ FinalDrainFires(c) \in ChildType /\ FinalDrainFires(c).proc = c.proc
         /\ HardKillFires(c) \in ChildType /\ HardKillFires(c).proc = c.proc
         /\ TimeoutFires(c) \in ChildType /\ TimeoutFires(c).proc = c.proc
         /\ TimeoutKillFires(c) \in ChildType /\ TimeoutKillFires(c).proc = c.proc
         /\ InterruptChild(c) \in ChildType /\ InterruptChild(c).proc = c.proc
         /\ InterruptTermFires(c) \in ChildType /\ InterruptTermFires(c).proc = c.proc
         /\ \A code \in Codes :
              Exits(c, code) \in ChildType /\ Exits(c, code).proc = "exited"
         /\ Closes(c) \in ChildType /\ FailsToSpawn(c) \in ChildType
<1>s. \A s \in Signals : Signal(c, s) \in ChildType /\ Signal(c, s).proc = c.proc
  BY DEF Signal, ChildType, Signals
<1>1. AssistantFails(c) \in ChildType /\ AssistantFails(c).proc = c.proc
  BY DEF AssistantFails, ChildType
<1>2. ASSUME NEW failed \in BOOLEAN, NEW hasText \in BOOLEAN
      PROVE  /\ AssistantStops(c, failed, hasText) \in ChildType
             /\ AssistantStops(c, failed, hasText).proc = c.proc
  BY DEF AssistantStops, StartFinalDrain, ChildType
<1>d. ASSUME NEW d \in ChildType, NEW e \in ChildErrors
      PROVE  /\ [d EXCEPT !.error = e] \in ChildType
             /\ [d EXCEPT !.error = e].proc = d.proc
  BY DEF ChildType
<1>3. FinalDrainFires(c) \in ChildType /\ FinalDrainFires(c).proc = c.proc
  <2>1. ASSUME NEW d \in ChildType
        PROVE  /\ [d EXCEPT !.drain = "hard", !.forced = TRUE] \in ChildType
               /\ [d EXCEPT !.drain = "hard", !.forced = TRUE].proc = d.proc
    BY DEF ChildType
  <2>2. Signal(c, "TERM").error \in ChildErrors BY <1>s DEF ChildType, Signals
  <2>3. (IF ~c.clean /\ Signal(c, "TERM").error = "none" /\ ~c.assistantError
         THEN "noExit" ELSE Signal(c, "TERM").error) \in ChildErrors
    BY <2>2 DEF ChildErrors
  <2> QED BY <1>s, <1>d, <2>1, <2>3 DEF FinalDrainFires, Signals
<1>4. HardKillFires(c) \in ChildType /\ HardKillFires(c).proc = c.proc
  BY <1>s DEF HardKillFires, ChildType, Signals
<1>5. TimeoutFires(c) \in ChildType /\ TimeoutFires(c).proc = c.proc
  <2>1. ASSUME NEW d \in ChildType
        PROVE  /\ [d EXCEPT !.limit = "hard", !.timedOut = TRUE, !.forced = TRUE] \in ChildType
               /\ [d EXCEPT !.limit = "hard", !.timedOut = TRUE, !.forced = TRUE].proc = d.proc
    BY DEF ChildType
  <2>2. Signal(c, "TERM").error \in ChildErrors BY <1>s DEF ChildType, Signals
  <2>3. (IF Signal(c, "TERM").error = "none" THEN "timeout" ELSE Signal(c, "TERM").error)
          \in ChildErrors
    BY <2>2 DEF ChildErrors
  <2> DEFINE d == [Signal(c, "TERM") EXCEPT !.limit = "hard", !.timedOut = TRUE, !.forced = TRUE]
             e == IF Signal(c, "TERM").error = "none" THEN "timeout" ELSE Signal(c, "TERM").error
  <2>4. d \in ChildType /\ d.proc = c.proc /\ d.error = Signal(c, "TERM").error
    <3>1. Signal(c, "TERM") \in ChildType /\ Signal(c, "TERM").proc = c.proc
      BY <1>s DEF Signals
    <3>2. d.error = Signal(c, "TERM").error BY <3>1 DEF ChildType
    <3> QED BY <2>1, <3>1, <3>2
  <2>5. e \in ChildErrors BY <2>3
  <2>6. TimeoutFires(c) = [d EXCEPT !.error = e]
    BY <2>4, Zenon DEF TimeoutFires
  <2> HIDE DEF d, e
  <2> QED BY <1>d, <2>4, <2>5, <2>6
<1>6. TimeoutKillFires(c) \in ChildType /\ TimeoutKillFires(c).proc = c.proc
  BY <1>s DEF TimeoutKillFires, ChildType, Signals
<1>7. InterruptChild(c) \in ChildType /\ InterruptChild(c).proc = c.proc
  <2>1. ASSUME NEW d \in ChildType
        PROVE  /\ [d EXCEPT !.interrupted = TRUE, !.intTimer = TRUE] \in ChildType
               /\ [d EXCEPT !.interrupted = TRUE, !.intTimer = TRUE].proc = d.proc
    BY DEF ChildType
  <2>2. Signal(c, "INT").error \in ChildErrors BY <1>s DEF ChildType, Signals
  <2>3. (IF Signal(c, "INT").error = "none" THEN "interrupted" ELSE Signal(c, "INT").error)
          \in ChildErrors
    BY <2>2 DEF ChildErrors
  <2> DEFINE d == [Signal(c, "INT") EXCEPT !.interrupted = TRUE, !.intTimer = TRUE]
             e == IF Signal(c, "INT").error = "none" THEN "interrupted" ELSE Signal(c, "INT").error
  <2>4. d \in ChildType /\ d.proc = c.proc /\ d.error = Signal(c, "INT").error
    <3>1. Signal(c, "INT") \in ChildType /\ Signal(c, "INT").proc = c.proc
      BY <1>s DEF Signals
    <3>2. d.error = Signal(c, "INT").error BY <3>1 DEF ChildType
    <3> QED BY <2>1, <3>1, <3>2
  <2>5. e \in ChildErrors BY <2>3
  <2>6. c.proc # "closed" => InterruptChild(c) = [d EXCEPT !.error = e]
    BY <2>4, Zenon DEF InterruptChild
  <2>7. c.proc = "closed" => InterruptChild(c) = c
    BY DEF InterruptChild
  <2> HIDE DEF d, e
  <2> QED BY <1>d, <2>4, <2>5, <2>6, <2>7
<1>8. InterruptTermFires(c) \in ChildType /\ InterruptTermFires(c).proc = c.proc
  BY <1>s DEF InterruptTermFires, ChildType, Signals
<1>9. \A code \in Codes : Exits(c, code) \in ChildType /\ Exits(c, code).proc = "exited"
  BY DEF Exits, ChildType, Procs, Codes
<1>10. Closes(c) \in ChildType /\ FailsToSpawn(c) \in ChildType
  BY DEF Closes, FailsToSpawn, ChildType, Procs, Codes, ChildErrors
<1> QED BY <1>1, <1>2, <1>3, <1>4, <1>5, <1>6, <1>7, <1>8, <1>9, <1>10

LEMMA SpawnedType == Spawned \in ChildType /\ Spawned.proc = "running"
BY DEF Spawned, ChildType, Procs, Codes, Signals, ChildErrors

LEMMA SlotsNat == 1 \in Slots /\ NoTask \notin Slots /\ Slots \subseteq Nat
BY BoundsAssumption DEF Slots, NoTask

\* Only a child that exists has a process.
LEMMA LiveChild ==
  ASSUME ChildInv, NEW i \in Slots, child[i].proc \in Procs
  PROVE  child[i] \in ChildType /\ child[i] # NoChild
BY DEF ChildInv, NoChild, Procs

\* While a group is awaited one child becomes c.
LEMMA PutChild ==
  ASSUME ChildInv, NEW i \in Slots, NEW c \in ChildType \cup {NoChild}, pc' = "tasks",
         child' = [child EXCEPT ![i] = c],
         active' \in {active, i, NoTask},
         active' = i => c.proc \in {"running", "exited"}
  PROVE  ChildInv'
<1>1. child' \in [Slots -> ChildType \cup {NoChild}] BY DEF ChildInv
<1>2. active' \in Slots \cup {NoTask} BY DEF ChildInv
<1>3. ASSUME active' # NoTask PROVE Live(active)'
  <2>1. CASE active' = i BY <2>1 DEF Live, ChildInv
  <2>2. CASE active' # i
    <3>1. active' = active /\ Live(active) /\ active \in Slots
      BY <2>2, <1>3 DEF ChildInv
    <3>2. child'[active] = child[active] BY <2>2, <3>1 DEF ChildInv
    <3> QED BY <3>1, <3>2 DEF Live
  <2> QED BY <2>1, <2>2
<1> QED BY <1>1, <1>2, <1>3 DEF ChildInv

LEMMA ChildInit == Init => ChildInv
BY DEF Init, ChildInv, NoTask

\* Nothing is done to a child; a step is left only when no child is left.
LEMMA ChildQuiet ==
  ASSUME ChildInv, UNCHANGED <<child, active>>,
         pc' \in {"tasks", "dead"} \/ pc \notin {"tasks", "dead"} \/ Busy = {}
  PROVE  ChildInv'
BY DEF ChildInv, Live, Busy
\* A task starts, or an attempt of it ends.
LEMMA ChildTask ==
  ASSUME ChildInv, NEW i \in Slots, pc = "tasks", pc' = pc,
         StartTask(i) \/ SkipTask(i) \/ NextAttempt(i) \/ LastAttempt(i)
  PROVE  ChildInv'
<1>1. CASE StartTask(i)
  BY <1>1, PutChild, SpawnedType DEF StartTask
<1>2. CASE SkipTask(i)
  BY <1>2, ChildQuiet DEF SkipTask
<1>3. CASE NextAttempt(i)
  BY <1>3, PutChild, SpawnedType DEF NextAttempt
<1>4. CASE LastAttempt(i)
  <2>1. active # i
    BY <1>4, SlotsNat DEF LastAttempt, ChildInv, Live
  <2> QED BY <1>4, <2>1, PutChild, SlotsNat DEF LastAttempt
<1> QED BY <1>1, <1>2, <1>3, <1>4

\* A child writes, its timers fire, it exits, its streams close.
LEMMA ChildEvent ==
  ASSUME ChildInv, NEW i \in Slots, ChildEvents(i)
  PROVE  ChildInv'
<1>0. OfChild(i)
  BY DEF ChildEvents, Timers, ChildWrites, FinalDrainTimer, TimeoutTimer,
     InterruptTimer, ChildExits, ChildCloses, SpawnFails
<1>1. child[i] \in ChildType /\ child[i] # NoChild /\ child[i].proc \in {"running", "exited"}
  BY <1>0, LiveChild DEF OfChild, Live, Procs
<1>2. pc = "tasks" /\ pc' = "tasks"
  <2>1. pc = "tasks" \/ pc = "share" BY <1>0 DEF OfChild, Idle
  <2> QED BY <1>0, <1>1, <2>1 DEF OfChild, ChildInv
<1>p. ASSUME NEW c \in ChildType, Becomes(i, c), c.proc \in {"running", "exited"}
      PROVE  ChildInv'
  BY <1>p, <1>2, PutChild DEF Becomes
<1>w. ASSUME NEW c \in ChildType, Withdraw(i, c) PROVE ChildInv'
  BY <1>w, <1>2, PutChild, SlotsNat DEF Withdraw
<1>3. CASE ChildWrites(i)
  BY <1>3, <1>1, <1>p, ChildHandlers DEF ChildWrites
<1>4. CASE FinalDrainTimer(i)
  BY <1>4, <1>1, <1>p, ChildHandlers DEF FinalDrainTimer
<1>5. CASE TimeoutTimer(i)
  BY <1>5, <1>1, <1>p, ChildHandlers DEF TimeoutTimer
<1>6. CASE InterruptTimer(i)
  BY <1>6, <1>1, <1>p, ChildHandlers DEF InterruptTimer
<1>7. CASE ChildExits(i)
  <2>1. PICK code \in Codes : Becomes(i, Exits(child[i], code))
    BY <1>7 DEF ChildExits, Codes
  <2> QED BY <2>1, <1>1, <1>p, ChildHandlers
<1>8. CASE ChildCloses(i)
  BY <1>8, <1>1, <1>w, ChildHandlers DEF ChildCloses
<1>9. CASE SpawnFails(i)
  BY <1>9, <1>1, <1>w, ChildHandlers DEF SpawnFails
<1> QED BY <1>3, <1>4, <1>5, <1>6, <1>7, <1>8, <1>9 DEF ChildEvents, Timers

LEMMA ChildStep == ChildInv /\ [Next]_vars => ChildInv'
<1> SUFFICES ASSUME ChildInv, [Next]_vars PROVE ChildInv'
  OBVIOUS
<1> AfterLoop \in {"share", "finish"}
  BY DEF AfterLoop
<1>1. CASE Loop
  BY <1>1, ChildQuiet DEF Loop, LoopEnds, SequentialStepBegins, ParallelGroupBegins,
     WorktreeSetupFails, MaterializeFails, MaterializeEmpty, MaterializeItems, Begins,
     AwaitTasks
<1>2. CASE Tasks
  <2>1. CASE SequentialStepStarts \/ SequentialAttemptEnds
    BY <2>1, ChildTask, SlotsNat DEF SequentialStepStarts, SequentialAttemptEnds, TaskOf
  <2>2. ASSUME NEW i \in Slots,
               \/ ParallelTaskStarts(i) \/ ParallelAttemptEnds(i)
               \/ DynamicTaskStarts(i) \/ DynamicAttemptEnds(i)
        PROVE  ChildInv'
    BY <2>2, ChildTask DEF ParallelTaskStarts, ParallelAttemptEnds, DynamicTaskStarts,
       DynamicAttemptEnds, TaskOf
  <2>3. CASE SequentialStepEnds \/ ParallelGroupEnds \/ DynamicGroupEnds
    BY <2>3, ChildQuiet DEF SequentialStepEnds, ParallelGroupEnds, DynamicGroupEnds,
       Collect, GroupDone
  <2> QED BY <1>2, <2>1, <2>2, <2>3 DEF Tasks
<1>3. CASE Ending \/ Crash
  BY <1>3, ChildQuiet DEF Ending, ShareEnds, RunEnds, WriteResultFile, Crash
<1>4. CASE InterruptRunner
  <2>1. pc' = pc /\ active' = active BY <1>4 DEF InterruptRunner
  <2>2. CASE active = NoTask
    BY <1>4, <2>1, <2>2, ChildQuiet DEF InterruptRunner
  <2>3. CASE active # NoTask
    <3>1. active \in Slots /\ child[active].proc \in {"running", "exited"}
      BY <2>3 DEF ChildInv, Live
    <3>2. child[active] \in ChildType /\ child[active] # NoChild
      BY <3>1, LiveChild DEF Procs
    <3>3. pc = "tasks" BY <1>4, <3>1, <3>2 DEF InterruptRunner, Idle, ChildInv
    <3>4. child' = [child EXCEPT ![active] = InterruptChild(child[active])]
      BY <1>4, <2>3 DEF InterruptRunner
    <3>5. InterruptChild(child[active]) \in ChildType
          /\ InterruptChild(child[active]).proc \in {"running", "exited"}
      BY <3>1, <3>2, ChildHandlers
    <3> QED BY <2>1, <3>1, <3>3, <3>4, <3>5, PutChild
  <2> QED BY <2>2, <2>3
<1>5. ASSUME NEW i \in Slots, ChildEvents(i) PROVE ChildInv'
  BY <1>5, ChildEvent
<1>6. CASE UNCHANGED vars
  BY <1>6, ChildQuiet DEF vars
<1> QED BY <1>1, <1>2, <1>3, <1>4, <1>5, <1>6 DEF Next

LEMMA ChildAlways == Spec => []ChildInv
BY ChildInit, ChildStep, PTL DEF Spec

\* The result is the last thing of a run: no child of it is still at work when
\* it is written, whatever failed, was skipped or was stopped before.
THEOREM ResultsComeLast == Spec => []ResultAfterChildren
<1>1. StatusInv /\ ChildInv => ResultAfterChildren
  BY DEF StatusInv, ChildInv, ResultAfterChildren, Busy
<1> QED BY <1>1, StatusAlways, ChildAlways, PTL

\* Once a task of a fail-fast group has failed, no free slot of the group is
\* given a child.
THEOREM FailFastHolds == Spec => FailFastStartsNothing
<1>1. ChildInv /\ [Next]_vars => [StartsNothing]_vars
  <2> SUFFICES ASSUME ChildInv, Next, NEW i \in Slots, pc = "tasks", Step.failFast,
                      group.aborted, child[i] = NoChild
               PROVE  child'[i] = NoChild
    BY DEF StartsNothing
  <2>0. ASSUME NEW j \in Slots, child[j] # NoChild, NEW c, child' = [child EXCEPT ![j] = c]
        PROVE  child'[i] = NoChild
    BY <2>0
  <2>n. ASSUME NEW j \in Slots, child[j].proc \in Procs PROVE child[j] # NoChild
    BY <2>n, LiveChild
  <2>1. CASE Loop
    BY <2>1 DEF Loop, LoopEnds, SequentialStepBegins, ParallelGroupBegins,
       WorktreeSetupFails, MaterializeFails, MaterializeEmpty, MaterializeItems, Begins
  <2>t. ASSUME NEW j \in Slots,
               StartTask(j) \/ SkipTask(j) \/ NextAttempt(j) \/ LastAttempt(j)
        PROVE  child'[i] = NoChild
    <3>1. ~StartTask(j) BY DEF StartTask, Skipped
    <3>2. CASE SkipTask(j) BY <3>2 DEF SkipTask
    <3>3. CASE NextAttempt(j)
      BY <3>3, <2>0, <2>n DEF NextAttempt, Procs
    <3>4. CASE LastAttempt(j)
      BY <3>4, <2>0, <2>n DEF LastAttempt, Procs
    <3> QED BY <2>t, <3>1, <3>2, <3>3, <3>4
  <2>2. CASE Tasks
    BY <2>2, <2>t, SlotsNat DEF Tasks, SequentialStepStarts, SequentialAttemptEnds,
       SequentialStepEnds, ParallelTaskStarts, ParallelAttemptEnds, DynamicTaskStarts,
       DynamicAttemptEnds, ParallelGroupEnds, DynamicGroupEnds, Collect
  <2>3. CASE Ending \/ Crash
    BY <2>3 DEF Ending, ShareEnds, RunEnds, WriteResultFile, Crash
  <2>4. CASE InterruptRunner
    <3>1. CASE active = NoTask BY <2>4, <3>1 DEF InterruptRunner
    <3>2. CASE active # NoTask
      <4>1. active \in Slots /\ child[active] # NoChild
        BY <3>2, <2>n DEF ChildInv, Live, Procs
      <4> QED BY <2>4, <3>2, <4>1, <2>0 DEF InterruptRunner
    <3> QED BY <3>1, <3>2
  <2>5. ASSUME NEW j \in Slots, ChildEvents(j) PROVE child'[i] = NoChild
    <3>1. child[j] # NoChild
      BY <2>5, <2>n DEF ChildEvents, Timers, ChildWrites, FinalDrainTimer, TimeoutTimer,
         InterruptTimer, ChildExits, ChildCloses, SpawnFails, OfChild, Live, Procs
    <3> QED BY <2>5, <3>1, <2>0 DEF ChildEvents, Timers, ChildWrites, FinalDrainTimer,
         TimeoutTimer, InterruptTimer, ChildExits, ChildCloses, SpawnFails, Becomes, Withdraw
  <2> QED BY <2>1, <2>2, <2>3, <2>4, <2>5 DEF Next
<1> QED BY <1>1, ChildAlways, PTL DEF Spec, FailFastStartsNothing
-----------------------------------------------------------------------------
(***************************************************************************)
(* The entries of the status and the results, one beside the other.  In    *)
(* the loop the entries behind flatIndex are settled, those of the group   *)
(* that is awaited agree with its outcomes, and the rest is pending.       *)
(***************************************************************************)
EntryStates == {"pending", "running", "complete", "failed", "paused"}
Outcomes == {"ok", "failed", "skipped", NoOutcome}
GroupType == [n : 0..MaxWidth, next : Nat, aborted : BOOLEAN, out : [Slots -> Outcomes]]

\* What the steps from the k-th on have as entries in the first status.
Ahead(k) ==
  {x \in (DOMAIN plan.steps) \X Slots : x[2] <= Entries(plan, x[1]) /\ x[1] >= k}

LayoutInv ==
  /\ plan \in Plans
  /\ stepIndex \in 1..(Len(plan.steps) + 1)
  /\ flatIndex \in Nat
  /\ steps \in Seq(EntryStates)
  /\ results \in Seq(Outcomes)
  /\ group \in GroupType
  /\ pc = "top" => /\ group = NoGroup
                   /\ Len(steps) = flatIndex + Cardinality(Ahead(stepIndex))
  /\ pc = "tasks" => /\ stepIndex <= Len(plan.steps)
                     /\ Len(steps) = flatIndex + group.n + Cardinality(Ahead(stepIndex + 1))

EntryInv ==
  /\ pc \in {"top", "tasks"} =>
       \A k \in DOMAIN steps : k > flatIndex + group.n => steps[k] = "pending"
  /\ pc # "dead" =>
       \A k \in DOMAIN steps : steps[k] = "running" =>
         pc = "tasks" /\ \E i \in Slots : k = Entry(i) /\ child[i] # NoChild
  /\ \A i \in Slots : child[i] # NoChild /\ child[i].interrupted => interrupted

\* An entry of the group that is awaited says what its task's outcome says.
OutcomeInv ==
  pc = "tasks" =>
    /\ group.next <= group.n + 1
    /\ \A i \in Slots : child[i] # NoChild => i < group.next
    /\ \A i \in 1..group.n :
         /\ i >= group.next => group.out[i] = NoOutcome
         /\ steps[Entry(i)] = "failed" => group.out[i] \in {"failed", "skipped"}
         /\ group.out[i] = "ok" =>
              steps[Entry(i)] = "complete" \/ (steps[Entry(i)] = "paused" /\ interrupted)

\* The entries that have their results.
Settled == IF pc = "tasks" THEN 1..flatIndex ELSE DOMAIN steps

CountInv ==
  pc # "dead" =>
    /\ Cardinality({k \in Settled : steps[k] = "failed"})
         <= Cardinality(DOMAIN results \ Succeeded)
    /\ Cardinality(Succeeded)
         <= Cardinality({k \in Settled : steps[k] \in {"complete", "paused"}})

DoneInv ==
  /\ pc # "dead" /\ ~interrupted /\ Succeeded = DOMAIN results =>
       /\ \A k \in 1..flatIndex : steps[k] = "complete"
       /\ pc \notin {"top", "tasks"} => flatIndex = Len(steps)
  /\ resultFile \in {"none", FinalState}

EntriesInv == LayoutInv /\ EntryInv /\ OutcomeInv /\ CountInv /\ DoneInv

\* The first status entry of a step comes right behind the entries before it.
Shifted(a, A) == {a + i : i \in A}

LEMMA ShiftedCard ==
  ASSUME NEW a \in Nat, NEW n \in Nat, NEW A \in SUBSET (1..n)
  PROVE  /\ IsFiniteSet(A) /\ IsFiniteSet(Shifted(a, A))
         /\ Cardinality(A) \in Nat /\ Cardinality(Shifted(a, A)) = Cardinality(A)
<1> DEFINE f == [i \in A |-> a + i]
<1>0. IsFiniteSet(1..n)
  BY FS_Interval
<1>1. IsFiniteSet(A)
  BY <1>0, FS_Subset
<1>a. \A i \in A : a + i \in Shifted(a, A)
  BY DEF Shifted
<1>b. \A i \in A : f[i] = a + i
  OBVIOUS
<1>c. f \in [A -> Shifted(a, A)]
  BY <1>a
<1>d. \A i, j \in A : f[i] = f[j] => i = j
  BY <1>b
<1>e. \A t \in Shifted(a, A) : \E i \in A : f[i] = t
  BY <1>b DEF Shifted
<1> HIDE DEF f
<1>2. f \in Bijection(A, Shifted(a, A))
  BY <1>c, <1>d, <1>e, Fun_IsBij
<1>3. ExistsBijection(A, Shifted(a, A))
  BY <1>2 DEF ExistsBijection
<1> QED BY <1>1, <1>3, FS_Bijection, FS_CardinalityType

\* Entries and results that are settled together are counted together.
LEMMA CountBoth ==
  ASSUME NEW a \in Nat, NEW b \in Nat, NEW n \in Nat,
         NEW S \in SUBSET (1..a), NEW T \in SUBSET (1..b), Cardinality(S) <= Cardinality(T),
         NEW A \in SUBSET (1..n), NEW B \in SUBSET (1..n), A \subseteq B
  PROVE  Cardinality(S \cup Shifted(a, A)) <= Cardinality(T \cup Shifted(b, B))
<1>0. IsFiniteSet(1..a) /\ IsFiniteSet(1..b)
  BY FS_Interval
<1>1. IsFiniteSet(S) /\ IsFiniteSet(T)
  BY <1>0, FS_Subset
<1>i. /\ IsFiniteSet(A) /\ IsFiniteSet(Shifted(a, A))
      /\ IsFiniteSet(B) /\ IsFiniteSet(Shifted(b, B))
  BY ShiftedCard
<1>n. /\ Cardinality(A) \in Nat /\ Cardinality(Shifted(a, A)) = Cardinality(A)
      /\ Cardinality(B) \in Nat /\ Cardinality(Shifted(b, B)) = Cardinality(B)
  BY ShiftedCard
<1>2. Cardinality(S) \in Nat /\ Cardinality(T) \in Nat
  BY <1>1, FS_CardinalityType
<1>3. Cardinality(A) <= Cardinality(B)
  BY <1>i, FS_Subset
<1>4. S \cap Shifted(a, A) = {} /\ T \cap Shifted(b, B) = {}
  BY DEF Shifted
<1>5. Cardinality(S \cup Shifted(a, A)) = Cardinality(S) + Cardinality(A)
  <2>1. Cardinality(S \cup Shifted(a, A))
          = Cardinality(S) + Cardinality(Shifted(a, A)) - Cardinality(S \cap Shifted(a, A))
    BY <1>1, <1>i, FS_Union
  <2>2. Cardinality(S \cap Shifted(a, A)) = 0
    BY <1>4, FS_EmptySet
  <2> QED BY <2>1, <2>2, <1>2, <1>n
<1>6. Cardinality(T \cup Shifted(b, B)) = Cardinality(T) + Cardinality(B)
  <2>1. Cardinality(T \cup Shifted(b, B))
          = Cardinality(T) + Cardinality(Shifted(b, B)) - Cardinality(T \cap Shifted(b, B))
    BY <1>1, <1>i, FS_Union
  <2>2. Cardinality(T \cap Shifted(b, B)) = 0
    BY <1>4, FS_EmptySet
  <2> QED BY <2>1, <2>2, <1>2, <1>n
<1> QED BY <1>2, <1>3, <1>5, <1>6, <1>n

LEMMA PlanFacts ==
  ASSUME plan \in Plans
  PROVE  /\ Len(plan.steps) \in Nat /\ DOMAIN plan.steps = 1..Len(plan.steps)
         /\ \A k \in DOMAIN plan.steps :
              /\ plan.steps[k] \in StepType
              /\ plan.steps[k].kind = "seq" => plan.steps[k].n = 1
              /\ Entries(plan, k) \in 1..MaxWidth
<1>1. plan.steps \in Seq(StepType)
  BY PlansAssumption
<1>2. ASSUME NEW k \in DOMAIN plan.steps
      PROVE  /\ plan.steps[k] \in StepType
             /\ plan.steps[k].kind = "seq" => plan.steps[k].n = 1
             /\ Entries(plan, k) \in 1..MaxWidth
  <2>1. k \in 1..Len(plan.steps)
    BY <1>1, LenProperties
  <2>2. plan.steps[k] \in StepType
    BY <1>1, <2>1, ElementOfSeq
  <2>3. plan.steps[k].kind = "seq" => plan.steps[k].n = 1
    BY <1>2, PlansAssumption
  <2>4. plan.steps[k].n \in 1..MaxWidth
    BY <2>2 DEF StepType
  <2> QED BY <2>2, <2>3, <2>4, BoundsAssumption DEF Entries
<1> QED BY <1>1, <1>2, LenProperties

LEMMA AheadCounts ==
  ASSUME plan \in Plans
  PROVE  /\ Cardinality(Ahead(Len(plan.steps) + 1)) = 0
         /\ \A k \in 1..(Len(plan.steps) + 1) : Cardinality(Ahead(k)) \in Nat
         /\ \A k \in 1..Len(plan.steps) :
              Cardinality(Ahead(k)) = Entries(plan, k) + Cardinality(Ahead(k + 1))
<1> DEFINE N == Len(plan.steps)
<1>0. N \in Nat /\ DOMAIN plan.steps = 1..N
  BY PlanFacts
<1>w. MaxWidth \in Nat /\ Slots = 1..MaxWidth
  BY BoundsAssumption DEF Slots
<1>1. Ahead(N + 1) = {}
  BY <1>0 DEF Ahead
<1>f. \A k \in 1..(N + 1) : IsFiniteSet(Ahead(k))
  <2> HIDE DEF N
  <2>a. IsFiniteSet(1..N) /\ IsFiniteSet(Slots)
    BY <1>0, <1>w, FS_Interval
  <2>1. IsFiniteSet((1..N) \X Slots)
    BY <2>a, FS_Product
  <2> QED BY <2>1, <1>0, FS_Subset DEF Ahead
<1>2. ASSUME NEW k \in 1..N
      PROVE  Cardinality(Ahead(k)) = Entries(plan, k) + Cardinality(Ahead(k + 1))
  <2> DEFINE E == Entries(plan, k)
             now == {<<k, i>> : i \in 1..E}
             f == [i \in 1..E |-> <<k, i>>]
  <2>1. E \in 1..MaxWidth
    BY <1>0, PlanFacts
  <2>2. Ahead(k) = now \cup Ahead(k + 1) /\ now \cap Ahead(k + 1) = {}
    BY <1>0, <1>w, <2>1 DEF Ahead
  <2>a. \A i \in 1..E : f[i] = <<k, i>>
    OBVIOUS
  <2>b. f \in [1..E -> now]
    OBVIOUS
  <2>c. \A i, j \in 1..E : f[i] = f[j] => i = j
    BY <2>a
  <2>d. \A t \in now : \E i \in 1..E : f[i] = t
    BY <2>a
  <2> HIDE DEF f
  <2>3. f \in Bijection(1..E, now)
    BY <2>b, <2>c, <2>d, Fun_IsBij
  <2>4. IsFiniteSet(now) /\ Cardinality(now) = E
    <3>1. ExistsBijection(1..E, now) BY <2>3 DEF ExistsBijection
    <3>2. IsFiniteSet(1..E) /\ Cardinality(1..E) = E BY <2>1, <1>w, FS_Interval
    <3> QED BY <3>1, <3>2, FS_Bijection
  <2>5. IsFiniteSet(Ahead(k + 1)) BY <1>f
  <2>6. Cardinality(now \cup Ahead(k + 1)) = E + Cardinality(Ahead(k + 1))
    <3>1. Cardinality(now \cup Ahead(k + 1))
            = Cardinality(now) + Cardinality(Ahead(k + 1)) - Cardinality(now \cap Ahead(k + 1))
      BY <2>4, <2>5, FS_Union
    <3>2. Cardinality(Ahead(k + 1)) \in Nat BY <2>5, FS_CardinalityType
    <3>3. Cardinality(now \cap Ahead(k + 1)) = 0 BY <2>2, FS_EmptySet
    <3> HIDE DEF now, E
    <3> QED BY <3>1, <3>2, <3>3, <2>1, <1>w, <2>4
  <2> QED BY <2>2, <2>6
<1>3. Cardinality(Ahead(N + 1)) = 0
  BY <1>1, FS_EmptySet
<1>4. \A k \in 1..(N + 1) : Cardinality(Ahead(k)) \in Nat
  BY <1>f, FS_CardinalityType
<1> QED BY <1>2, <1>3, <1>4

\* What is pushed to the results.
LEMMA ResultsGrow ==
  ASSUME results \in Seq(Outcomes), NEW extra \in Seq(Outcomes), results' = results \o extra
  PROVE  /\ results' \in Seq(Outcomes)
         /\ Succeeded \in SUBSET (1..Len(results)) /\ DOMAIN results = 1..Len(results)
         /\ Succeeded' = Succeeded \cup
              Shifted(Len(results), {i \in 1..Len(extra) : extra[i] = "ok"})
         /\ DOMAIN results' \ Succeeded' = (DOMAIN results \ Succeeded) \cup
              Shifted(Len(results), {i \in 1..Len(extra) : extra[i] # "ok"})
<1> DEFINE a == Len(results)  n == Len(extra)
<1>1. a \in Nat /\ n \in Nat /\ DOMAIN results = 1..a /\ DOMAIN extra = 1..n
  BY LenProperties
<1>2. /\ results' \in Seq(Outcomes) /\ Len(results') = a + n
      /\ \A i \in 1..(a + n) : results'[i] = IF i <= a THEN results[i] ELSE extra[i - a]
  BY ConcatProperties
<1>3. DOMAIN results' = 1..(a + n)
  BY <1>2, LenProperties
<1>4. Succeeded = {k \in 1..a : results[k] = "ok"}
      /\ Succeeded' = {k \in 1..(a + n) : results'[k] = "ok"}
  BY <1>1, <1>3 DEF Succeeded
<1> HIDE DEF a, n
<1>5. Succeeded' = Succeeded \cup Shifted(a, {i \in 1..n : extra[i] = "ok"})
  <2>1. ASSUME NEW k \in Succeeded'
        PROVE  k \in Succeeded \cup Shifted(a, {i \in 1..n : extra[i] = "ok"})
    <3>1. CASE k <= a BY <3>1, <1>1, <1>2, <1>4
    <3>2. CASE k > a
      <4>1. k - a \in 1..n /\ extra[k - a] = "ok" /\ k = a + (k - a)
        BY <3>2, <1>1, <1>2, <1>4
      <4> QED BY <4>1 DEF Shifted
    <3> QED BY <3>1, <3>2, <1>1, <1>4
  <2>2. ASSUME NEW k \in Succeeded \cup Shifted(a, {i \in 1..n : extra[i] = "ok"})
        PROVE  k \in Succeeded'
    <3>1. CASE k \in Succeeded BY <3>1, <1>1, <1>2, <1>4
    <3>2. CASE k \in Shifted(a, {i \in 1..n : extra[i] = "ok"})
      <4>1. PICK i \in 1..n : extra[i] = "ok" /\ k = a + i BY <3>2 DEF Shifted
      <4>2. k \in 1..(a + n) /\ k - a = i /\ ~(k <= a) BY <4>1, <1>1
      <4> QED BY <4>1, <4>2, <1>2, <1>4
    <3> QED BY <2>2, <3>1, <3>2
  <2> QED BY <2>1, <2>2
<1>6. DOMAIN results' \ Succeeded' = (DOMAIN results \ Succeeded) \cup
              Shifted(a, {i \in 1..n : extra[i] # "ok"})
  <2>1. ASSUME NEW k \in DOMAIN results' \ Succeeded'
        PROVE  k \in (DOMAIN results \ Succeeded) \cup Shifted(a, {i \in 1..n : extra[i] # "ok"})
    <3>1. CASE k <= a BY <3>1, <1>1, <1>2, <1>3, <1>4
    <3>2. CASE k > a
      <4>1. k - a \in 1..n /\ extra[k - a] # "ok" /\ k = a + (k - a)
        BY <3>2, <1>1, <1>2, <1>3, <1>4
      <4> QED BY <4>1 DEF Shifted
    <3> QED BY <3>1, <3>2, <1>1, <1>3
  <2>2. ASSUME NEW k \in (DOMAIN results \ Succeeded) \cup Shifted(a, {i \in 1..n : extra[i] # "ok"})
        PROVE  k \in DOMAIN results' \ Succeeded'
    <3>1. CASE k \in DOMAIN results \ Succeeded BY <3>1, <1>1, <1>2, <1>3, <1>4
    <3>2. CASE k \in Shifted(a, {i \in 1..n : extra[i] # "ok"})
      <4>1. PICK i \in 1..n : extra[i] # "ok" /\ k = a + i BY <3>2 DEF Shifted
      <4>2. k \in 1..(a + n) /\ k - a = i /\ ~(k <= a) BY <4>1, <1>1
      <4> QED BY <4>1, <4>2, <1>2, <1>3, <1>4
    <3> QED BY <2>2, <3>1, <3>2
  <2> QED BY <2>1, <2>2
<1> QED BY <1>1, <1>2, <1>4, <1>5, <1>6 DEF a, n

FailedIn(s, N) == {k \in N : s[k] = "failed"}
DoneIn(s, N) == {k \in N : s[k] \in {"complete", "paused"}}

\* In the loop what is counted is behind flatIndex.
LEMMA CountBehind ==
  ASSUME LayoutInv, EntryInv, CountInv, pc \in {"top", "tasks"}
  PROVE  /\ Cardinality(FailedIn(steps, 1..flatIndex)) <= Cardinality(DOMAIN results \ Succeeded)
         /\ Cardinality(Succeeded) <= Cardinality(DoneIn(steps, 1..flatIndex))
<1>1. CASE pc = "tasks"
  BY <1>1 DEF CountInv, Settled, FailedIn, DoneIn
<1>2. CASE pc = "top"
  <2>1. /\ Len(steps) \in Nat /\ DOMAIN steps = 1..Len(steps)
        /\ flatIndex \in Nat /\ flatIndex <= Len(steps) /\ group.n = 0
    <3>1. Cardinality(Ahead(stepIndex)) \in Nat
      BY AheadCounts DEF LayoutInv
    <3> QED BY <1>2, <3>1, LenProperties DEF LayoutInv, NoGroup
  <2>2. \A k \in 1..Len(steps) : k > flatIndex => steps[k] = "pending"
    BY <1>2, <2>1 DEF EntryInv
  <2>3. Settled = DOMAIN steps BY <1>2 DEF Settled
  <2>4. FailedIn(steps, 1..flatIndex) = {k \in Settled : steps[k] = "failed"}
    BY <2>1, <2>2, <2>3 DEF FailedIn
  <2>5. DoneIn(steps, 1..flatIndex) = {k \in Settled : steps[k] \in {"complete", "paused"}}
    BY <2>1, <2>2, <2>3 DEF DoneIn
  <2> QED BY <1>2, <2>4, <2>5 DEF CountInv
<1> QED BY <1>1, <1>2

\* n entries are settled and their results are pushed, and perhaps a failure more.
LEMMA CountAhead ==
  ASSUME LayoutInv, EntryInv, CountInv, pc \in {"top", "tasks"}, pc' # "tasks",
         NEW n \in Nat, NEW extra \in Seq(Outcomes), n <= Len(extra), flatIndex + n <= Len(steps),
         results' = results \o extra,
         steps' \in Seq(EntryStates), Len(steps') = Len(steps),
         \A k \in 1..flatIndex : steps'[k] = steps[k],
         \A i \in 1..n : /\ steps'[flatIndex + i] = "failed" => extra[i] # "ok"
                         /\ extra[i] = "ok" => steps'[flatIndex + i] \in {"complete", "paused"},
         \A i \in 1..Len(extra) : i > n => extra[i] # "ok",
         \A k \in 1..Len(steps) : k > flatIndex + n => steps'[k] = "pending"
  PROVE  CountInv'
<1> DEFINE a == flatIndex  b == Len(results)  m == Len(extra)  L == Len(steps)
           F == {i \in 1..n : steps'[a + i] = "failed"}
           O == {i \in 1..m : extra[i] = "ok"}
           X == {i \in 1..m : extra[i] # "ok"}
<1>1. /\ a \in Nat /\ b \in Nat /\ m \in Nat /\ L \in Nat
      /\ DOMAIN steps = 1..L /\ DOMAIN steps' = 1..L /\ DOMAIN results = 1..b
  BY LenProperties DEF LayoutInv
<1>g. /\ Succeeded \in SUBSET (1..b)
      /\ Succeeded' = Succeeded \cup Shifted(b, O)
      /\ DOMAIN results' \ Succeeded' = (DOMAIN results \ Succeeded) \cup Shifted(b, X)
  BY ResultsGrow DEF LayoutInv
<1>h. n <= m /\ a + n <= L
  OBVIOUS
<1> HIDE DEF a, b, m, L
<1>s. Settled' = 1..L
  BY <1>1 DEF Settled
<1>2. F \subseteq X /\ F \in SUBSET (1..m) /\ X \in SUBSET (1..m) /\ O \in SUBSET (1..m) /\ O \subseteq 1..n
  BY <1>1, <1>h DEF a, m
<1>3. {k \in 1..L : steps'[k] = "failed"} = FailedIn(steps, 1..a) \cup Shifted(a, F)
  <2>1. ASSUME NEW k \in 1..L, steps'[k] = "failed"
        PROVE  k \in FailedIn(steps, 1..a) \cup Shifted(a, F)
    <3>1. CASE k <= a BY <3>1, <2>1, <1>1 DEF FailedIn, a
    <3>2. CASE k > a
      <4>1. k <= a + n BY <2>1, <1>1 DEF a, L
      <4>2. k - a \in 1..n /\ k = a + (k - a) BY <3>2, <4>1, <1>1
      <4> QED BY <4>2, <2>1 DEF Shifted
    <3> QED BY <3>1, <3>2, <1>1
  <2>2. ASSUME NEW k \in FailedIn(steps, 1..a) \cup Shifted(a, F)
        PROVE  k \in 1..L /\ steps'[k] = "failed"
    <3>1. CASE k \in FailedIn(steps, 1..a) BY <3>1, <1>1, <1>h DEF FailedIn, a
    <3>2. CASE k \in Shifted(a, F) BY <3>2, <1>1, <1>h DEF Shifted
    <3> QED BY <2>2, <3>1, <3>2
  <2> QED BY <2>1, <2>2
<1>4. DoneIn(steps, 1..a) \cup Shifted(a, O) \subseteq {k \in 1..L : steps'[k] \in {"complete", "paused"}}
  <2>1. ASSUME NEW k \in DoneIn(steps, 1..a) PROVE k \in 1..L /\ steps'[k] \in {"complete", "paused"}
    BY <2>1, <1>1, <1>h DEF DoneIn, a
  <2>2. ASSUME NEW k \in Shifted(a, O) PROVE k \in 1..L /\ steps'[k] \in {"complete", "paused"}
    <3>1. PICK i \in O : k = a + i BY <2>2 DEF Shifted
    <3>2. i \in 1..n /\ extra[i] = "ok" BY <3>1, <1>2
    <3> QED BY <3>1, <3>2, <1>1, <1>h DEF a
  <2> QED BY <2>1, <2>2
<1>5. /\ Cardinality(FailedIn(steps, 1..a)) <= Cardinality(DOMAIN results \ Succeeded)
      /\ Cardinality(Succeeded) <= Cardinality(DoneIn(steps, 1..a))
  BY CountBehind DEF a
<1>6. /\ FailedIn(steps, 1..a) \in SUBSET (1..a) /\ DoneIn(steps, 1..a) \in SUBSET (1..a)
      /\ DOMAIN results \ Succeeded \in SUBSET (1..b)
  BY <1>1 DEF FailedIn, DoneIn
<1> HIDE DEF F, O, X
<1>7. Cardinality({k \in 1..L : steps'[k] = "failed"}) <= Cardinality(DOMAIN results' \ Succeeded')
  <2>1. Cardinality(FailedIn(steps, 1..a) \cup Shifted(a, F))
          <= Cardinality((DOMAIN results \ Succeeded) \cup Shifted(b, X))
    BY <1>1, <1>2, <1>5, <1>6, CountBoth
  <2> QED BY <2>1, <1>3, <1>g
<1>8. Cardinality(Succeeded') <= Cardinality({k \in 1..L : steps'[k] \in {"complete", "paused"}})
  <2> DEFINE D == {k \in 1..L : steps'[k] \in {"complete", "paused"}}
             E == DoneIn(steps, 1..a) \cup Shifted(a, O)
  <2>1. Cardinality(Succeeded \cup Shifted(b, O)) <= Cardinality(E)
    BY <1>1, <1>2, <1>5, <1>6, <1>g, CountBoth
  <2>2. IsFiniteSet(1..L) BY <1>1, FS_Interval
  <2>3. IsFiniteSet(D)
    <3>1. D \in SUBSET (1..L) OBVIOUS
    <3> HIDE DEF D
    <3> QED BY <2>2, <3>1, FS_Subset
  <2>4. E \in SUBSET D BY <1>4
  <2>5. IsFiniteSet(Succeeded \cup Shifted(b, O)) /\ IsFiniteSet(E)
    <3>1. IsFiniteSet(Shifted(b, O)) BY <1>1, <1>2, ShiftedCard
    <3>2. IsFiniteSet(1..b) BY <1>1, FS_Interval
    <3>3. IsFiniteSet(Succeeded) BY <3>2, <1>g, FS_Subset
    <3> HIDE DEF D, E
    <3> QED BY <3>1, <3>3, <2>3, <2>4, FS_Union, FS_Subset
  <2> HIDE DEF D, E
  <2>6. Cardinality(E) <= Cardinality(D) BY <2>3, <2>4, FS_Subset
  <2>7. Cardinality(E) \in Nat /\ Cardinality(D) \in Nat /\ Cardinality(Succeeded \cup Shifted(b, O)) \in Nat
    BY <2>3, <2>5, FS_CardinalityType
  <2>8. Cardinality(Succeeded \cup Shifted(b, O)) <= Cardinality(D) BY <2>1, <2>6, <2>7
  <2> QED BY <2>8, <1>g DEF D
<1> QED BY <1>s, <1>7, <1>8 DEF CountInv

LEMMA EntriesInit == Init => EntriesInv
<1> SUFFICES ASSUME Init PROVE EntriesInv
  OBVIOUS
<1>1. plan \in Plans BY DEF Init
<1>2. Ahead(1) = {x \in (DOMAIN plan.steps) \X Slots : x[2] <= Entries(plan, x[1])}
  BY <1>1, PlanFacts DEF Ahead
<1>3. InitialEntries(plan) = Cardinality(Ahead(1)) /\ InitialEntries(plan) \in Nat
  <2>1. InitialEntries(plan) = Cardinality(Ahead(1)) BY <1>2 DEF InitialEntries
  <2>2. 1 \in 1..(Len(plan.steps) + 1) BY <1>1, PlanFacts
  <2> QED BY <1>1, <2>1, <2>2, AheadCounts
<1> DEFINE n == InitialEntries(plan)
<1>4. steps = [k \in 1..n |-> "pending"] /\ n \in Nat
  BY <1>3 DEF Init
<1> HIDE DEF n
<1>5. steps \in Seq(EntryStates) /\ Len(steps) = n /\ DOMAIN steps = 1..n
  <2>1. steps \in [1..n -> EntryStates] BY <1>4 DEF EntryStates
  <2> QED BY <1>4, <2>1
<1>6. NoGroup \in GroupType
  BY BoundsAssumption DEF NoGroup, GroupType, Outcomes, NoOutcome
<1>7. LayoutInv
  BY <1>1, <1>3, <1>5, <1>6, PlanFacts DEF Init, LayoutInv, n
<1>8. EntryInv /\ OutcomeInv
  BY <1>4, <1>5 DEF Init, EntryInv, OutcomeInv
<1>9. CountInv
  <2>1. Succeeded = {} /\ DOMAIN results = {} BY DEF Init, Succeeded
  <2>2. \A k \in DOMAIN steps : steps[k] = "pending" BY <1>4, <1>5
  <2>3. Settled = DOMAIN steps BY DEF Settled, Init
  <2>4. {k \in Settled : steps[k] = "failed"} = {} /\ {k \in Settled : steps[k] \in {"complete", "paused"}} = {}
    BY <2>2, <2>3
  <2>5. DOMAIN results \ Succeeded = {} BY <2>1
  <2>6. Cardinality({}) <= Cardinality({})
    <3>1. Cardinality({}) \in Nat BY FS_EmptySet
    <3> QED BY <3>1
  <2> QED BY <2>1, <2>4, <2>5, <2>6, Zenon DEF CountInv
<1>10. DoneInv
  BY DEF Init, DoneInv
<1> QED BY <1>7, <1>8, <1>9, <1>10 DEF EntriesInv

\* Only the children change, or the loop is left.
LEMMA EntriesQuiet ==
  ASSUME StatusInv, EntriesInv,
         UNCHANGED <<plan, stepIndex, flatIndex, steps, results, interrupted, group>>,
         \A i \in Slots : child[i] # NoChild <=> child'[i] # NoChild,
         \A i \in Slots : child'[i] # NoChild /\ child'[i].interrupted => interrupted,
         resultFile' \in {resultFile, FinalState},
         \/ pc' = pc \/ pc' = "dead"
         \/ pc = "top" /\ pc' \in {"share", "finish"} /\ (interrupted \/ stepIndex > Len(plan.steps))
         \/ pc \in {"share", "finish", "result"} /\ pc' \in {"finish", "result", "exited"}
  PROVE  EntriesInv'
<1>1. LayoutInv'
  <2>1. Ahead(stepIndex)' = Ahead(stepIndex) /\ Ahead(stepIndex + 1)' = Ahead(stepIndex + 1)
    BY DEF Ahead, Entries
  <2> QED BY <2>1 DEF EntriesInv, LayoutInv
<1>2. EntryInv'
  BY DEF EntriesInv, EntryInv, Entry
<1>3. OutcomeInv'
  BY DEF EntriesInv, OutcomeInv, Entry
<1>4. Succeeded' = Succeeded /\ FinalState' = FinalState
  BY DEF Succeeded, FinalState, AggregateOutcome
<1>5. CountInv'
  <2>1. CASE pc' = "dead" BY <2>1 DEF CountInv
  <2>2. CASE pc' # "dead"
    <3>1. Settled' = Settled /\ pc # "dead" BY <2>2 DEF Settled
    <3> QED BY <3>1, <1>4 DEF EntriesInv, CountInv
  <2> QED BY <2>1, <2>2
<1>6. DoneInv'
  <2>1. ASSUME pc' # "dead", ~interrupted, Succeeded = DOMAIN results
        PROVE  /\ \A k \in 1..flatIndex : steps[k] = "complete"
               /\ pc' \notin {"top", "tasks"} => flatIndex = Len(steps)
    <3>1. pc # "dead" BY <2>1
    <3>2. \A k \in 1..flatIndex : steps[k] = "complete"
      BY <2>1, <3>1 DEF EntriesInv, DoneInv
    <3>3. CASE pc \notin {"top", "tasks"} BY <2>1, <3>1, <3>2, <3>3 DEF EntriesInv, DoneInv
    <3>4. CASE pc \in {"top", "tasks"} /\ pc' \notin {"top", "tasks"}
      <4>1. pc = "top" /\ stepIndex > Len(plan.steps) BY <2>1, <3>4
      <4>2. Len(plan.steps) \in Nat BY PlanFacts DEF EntriesInv, LayoutInv
      <4>3. stepIndex = Len(plan.steps) + 1
        BY <4>1, <4>2 DEF EntriesInv, LayoutInv
      <4>4. Len(steps) = flatIndex + 0
        BY <4>1, <4>3, AheadCounts DEF EntriesInv, LayoutInv
      <4> QED BY <3>2, <4>4 DEF EntriesInv, LayoutInv
    <3> QED BY <3>2, <3>3, <3>4
  <2>2. resultFile' \in {"none", FinalState}
    BY DEF EntriesInv, DoneInv
  <2> QED BY <2>1, <2>2, <1>4 DEF DoneInv
<1> QED BY <1>1, <1>2, <1>3, <1>5, <1>6 DEF EntriesInv

\* A group begins: k entries of it are pending.
LEMMA GroupBegins ==
  ASSUME StatusInv, ChildInv, EntriesInv, pc = "top", pc' = "tasks",
         NEW k \in 1..MaxWidth, group' = [NoGroup EXCEPT !.n = k],
         UNCHANGED <<plan, stepIndex, flatIndex, results, interrupted, child, resultFile>>,
         stepIndex <= Len(plan.steps),
         steps' \in Seq(EntryStates), Len(steps') = flatIndex + k + Cardinality(Ahead(stepIndex + 1)),
         \A j \in 1..flatIndex : steps'[j] = steps[j],
         \A j \in 1..Len(steps') : j > flatIndex => steps'[j] = "pending"
  PROVE  EntriesInv'
<1>1. group'.n = k /\ group'.next = 1 /\ group' \in GroupType
      /\ \A i \in Slots : group'.out[i] = NoOutcome
  <2>1. group' = [n |-> k, next |-> 1, aborted |-> FALSE, out |-> [i \in Slots |-> NoOutcome]]
    BY DEF NoGroup
  <2>2. k \in 0..MaxWidth BY BoundsAssumption
  <2> DEFINE out == [i \in Slots |-> NoOutcome]
  <2>3. out \in [Slots -> Outcomes] /\ \A i \in Slots : out[i] = NoOutcome BY DEF Outcomes
  <2>4. group' = [n |-> k, next |-> 1, aborted |-> FALSE, out |-> out] BY <2>1
  <2> HIDE DEF out
  <2>5. group'.n = k /\ group'.next = 1 /\ group'.out = out BY <2>4
  <2>6. group' \in GroupType
    <3>1. /\ k \in 0..MaxWidth /\ 1 \in Nat /\ FALSE \in BOOLEAN /\ out \in [Slots -> Outcomes]
      BY <2>2, <2>3
    <3>2. [n |-> k, next |-> 1, aborted |-> FALSE, out |-> out] \in
            [n : 0..MaxWidth, next : Nat, aborted : BOOLEAN, out : [Slots -> Outcomes]]
      BY <3>1, Zenon
    <3> QED BY <2>4, <3>2 DEF GroupType
  <2> QED BY <2>3, <2>5, <2>6
<1>2. \A i \in Slots : child[i] = NoChild
  BY DEF ChildInv
<1>3. /\ DOMAIN steps' = 1..Len(steps') /\ flatIndex \in Nat /\ k \in Nat /\ Len(steps') \in Nat
      /\ DOMAIN steps = 1..Len(steps) /\ flatIndex <= Len(steps) /\ flatIndex + k <= Len(steps')
  <2>0. Cardinality(Ahead(stepIndex)) \in Nat /\ Cardinality(Ahead(stepIndex + 1)) \in Nat
    <3>1. Len(plan.steps) \in Nat BY PlanFacts DEF EntriesInv, LayoutInv
    <3>2. stepIndex + 1 \in 1..(Len(plan.steps) + 1) BY <3>1 DEF EntriesInv, LayoutInv
    <3> QED BY <3>2, AheadCounts DEF EntriesInv, LayoutInv
  <2> QED BY <2>0, LenProperties, BoundsAssumption DEF EntriesInv, LayoutInv
<1>4. LayoutInv'
  <2>1. Ahead(stepIndex + 1)' = Ahead(stepIndex + 1)
    BY DEF Ahead, Entries
  <2> QED BY <1>1, <2>1 DEF EntriesInv, LayoutInv
<1>5. EntryInv'
  <2>1. \A j \in DOMAIN steps' : steps'[j] # "running"
    <3>1. ASSUME NEW j \in 1..Len(steps'), steps'[j] = "running" PROVE FALSE
      <4>1. j \in 1..flatIndex /\ steps[j] = "running" /\ j \in DOMAIN steps BY <3>1, <1>3
      <4> QED BY <4>1 DEF EntriesInv, EntryInv
    <3> QED BY <3>1, <1>3
  <2>2. \A j \in DOMAIN steps' : j > flatIndex + group'.n => steps'[j] = "pending"
    BY <1>1, <1>3
  <2> QED BY <1>2, <2>1, <2>2 DEF EntryInv
<1>6. OutcomeInv'
  <2>1. \A i \in 1..k : steps'[flatIndex + i] = "pending" /\ i \in Slots
    BY <1>3, BoundsAssumption DEF Slots
  <2> QED BY <1>1, <1>2, <1>3, <2>1 DEF OutcomeInv, Entry, NoOutcome
<1>7. Succeeded' = Succeeded BY DEF Succeeded
<1>8. CountInv'
  <2>1. FailedIn(steps, 1..flatIndex) = {j \in 1..flatIndex : steps'[j] = "failed"}
    BY DEF FailedIn
  <2>2. DoneIn(steps, 1..flatIndex) = {j \in 1..flatIndex : steps'[j] \in {"complete", "paused"}}
    BY DEF DoneIn
  <2> QED BY <2>1, <2>2, <1>7, CountBehind DEF EntriesInv, CountInv, Settled
<1>9. DoneInv'
  <2>1. resultFile' = "none" BY DEF StatusInv
  <2>2. ~interrupted /\ Succeeded = DOMAIN results => \A j \in 1..flatIndex : steps'[j] = "complete"
    BY DEF EntriesInv, DoneInv
  <2> QED BY <1>7, <2>1, <2>2 DEF DoneInv
<1> QED BY <1>4, <1>5, <1>6, <1>8, <1>9 DEF EntriesInv

\* An entry of the group that is awaited changes, together with its outcome.
LEMMA EntryChanges ==
  ASSUME StatusInv, ChildInv, EntriesInv, pc = "tasks", pc' = "tasks",
         NEW i \in 1..group.n, NEW s \in EntryStates, SetEntry(i, s),
         UNCHANGED <<plan, stepIndex, flatIndex, results, interrupted, resultFile>>,
         group' \in GroupType, group'.n = group.n, group'.next >= group.next,
         group'.next <= group.n + 1, i < group'.next,
         \A j \in 1..group.n : j # i => group'.out[j] = group.out[j],
         s = "failed" => group'.out[i] \in {"failed", "skipped"},
         group'.out[i] = "ok" => s = "complete" \/ (s = "paused" /\ interrupted),
         \A j \in Slots : j # i => child'[j] = child[j],
         s = "running" => child'[i] # NoChild,
         child'[i] # NoChild => ~child'[i].interrupted
  PROVE  EntriesInv'
<1>1. /\ group.n \in Nat /\ 1..group.n \subseteq Slots /\ flatIndex \in Nat /\ Len(steps) \in Nat
      /\ DOMAIN steps = 1..Len(steps) /\ flatIndex + group.n <= Len(steps)
      /\ group.next \in Nat /\ group'.next \in Nat
  <2>0. Cardinality(Ahead(stepIndex + 1)) \in Nat
    <3>1. Len(plan.steps) \in Nat BY PlanFacts DEF EntriesInv, LayoutInv
    <3>2. stepIndex + 1 \in 1..(Len(plan.steps) + 1) BY <3>1 DEF EntriesInv, LayoutInv
    <3> QED BY <3>2, AheadCounts DEF EntriesInv, LayoutInv
  <2>1. group.n \in 0..MaxWidth /\ group.next \in Nat /\ group'.next \in Nat
    BY DEF EntriesInv, LayoutInv, GroupType
  <2> QED BY <2>0, <2>1, LenProperties, BoundsAssumption DEF EntriesInv, LayoutInv, Slots
<1>2. Entry(i) \in 1..Len(steps) /\ Entry(i) > flatIndex
  BY <1>1 DEF Entry
<1>3. /\ steps' \in Seq(EntryStates) /\ Len(steps') = Len(steps) /\ DOMAIN steps' = DOMAIN steps
      /\ \A k \in 1..Len(steps) : steps'[k] = IF k = Entry(i) THEN s ELSE steps[k]
  BY <1>1, <1>2, ExceptSeq DEF SetEntry, EntriesInv, LayoutInv
<1>4. LayoutInv'
  <2>1. Ahead(stepIndex + 1)' = Ahead(stepIndex + 1)
    BY DEF Ahead, Entries
  <2> QED BY <1>3, <2>1 DEF EntriesInv, LayoutInv
<1>5. EntryInv'
  <2>1. ASSUME NEW k \in 1..Len(steps), k > flatIndex + group.n PROVE steps'[k] = "pending"
    <3>1. k # Entry(i) BY <2>1, <1>1 DEF Entry
    <3> QED BY <3>1, <1>1, <1>3, <2>1 DEF EntriesInv, EntryInv
  <2>2. ASSUME NEW k \in 1..Len(steps), steps'[k] = "running"
        PROVE  \E j \in Slots : k = Entry(j) /\ child'[j] # NoChild
    <3>1. CASE k = Entry(i) BY <3>1, <1>1, <1>3, <2>2
    <3>2. CASE k # Entry(i)
      <4>1. PICK j \in Slots : k = Entry(j) /\ child[j] # NoChild
        BY <3>2, <1>1, <1>3, <2>2 DEF EntriesInv, EntryInv
      <4> QED BY <3>2, <4>1
    <3> QED BY <3>1, <3>2
  <2>3. \A j \in Slots : child'[j] # NoChild /\ child'[j].interrupted => interrupted
    BY DEF EntriesInv, EntryInv
  <2> QED BY <2>1, <2>2, <2>3, <1>1, <1>3 DEF EntryInv, Entry
<1>6. OutcomeInv'
  <2>1. ASSUME NEW j \in 1..group.n
        PROVE  /\ j >= group'.next => group'.out[j] = NoOutcome
               /\ steps'[Entry(j)] = "failed" => group'.out[j] \in {"failed", "skipped"}
               /\ group'.out[j] = "ok" =>
                    steps'[Entry(j)] = "complete" \/ (steps'[Entry(j)] = "paused" /\ interrupted)
    <3>1. Entry(j) \in 1..Len(steps) BY <1>1 DEF Entry
    <3>2. CASE j = i BY <3>2, <1>1, <1>3, <3>1
    <3>3. CASE j # i
      <4>1. Entry(j) # Entry(i) BY <3>3, <1>1 DEF Entry
      <4> QED BY <3>3, <4>1, <1>1, <1>3, <3>1 DEF EntriesInv, OutcomeInv
    <3> QED BY <3>2, <3>3
  <2>2. \A j \in Slots : child'[j] # NoChild => j < group'.next
    BY <1>1 DEF EntriesInv, OutcomeInv, Slots
  <2> QED BY <2>1, <2>2 DEF OutcomeInv, Entry
<1>7. Succeeded' = Succeeded BY DEF Succeeded
<1>b. \A k \in 1..flatIndex : steps'[k] = steps[k]
  BY <1>1, <1>2, <1>3
<1>8. CountInv'
  BY <1>7, <1>b DEF EntriesInv, CountInv, Settled
<1>9. DoneInv'
  <2>1. resultFile' = "none" BY DEF StatusInv
  <2> QED BY <1>7, <1>b, <2>1 DEF EntriesInv, DoneInv
<1> QED BY <1>4, <1>5, <1>6, <1>8, <1>9 DEF EntriesInv

\* n entries are settled, the results pushed, and the loop goes on or is left.
LEMMA GroupSettles ==
  ASSUME StatusInv, EntriesInv, pc \in {"top", "tasks"}, pc' \in {"top", "share", "finish"},
         Busy = {}, UNCHANGED <<plan, interrupted, child, resultFile>>,
         NEW n \in Nat, NEW extra \in Seq(Outcomes), n <= Len(extra), flatIndex + n <= Len(steps),
         results' = results \o extra,
         steps' \in Seq(EntryStates), Len(steps') = Len(steps),
         \A k \in 1..flatIndex : steps'[k] = steps[k],
         \A i \in 1..n :
           /\ steps'[flatIndex + i] \notin {"running"}
           /\ steps'[flatIndex + i] = "failed" => extra[i] # "ok"
           /\ extra[i] = "ok" =>
                steps'[flatIndex + i] = "complete" \/ (steps'[flatIndex + i] = "paused" /\ interrupted),
         \A i \in 1..Len(extra) : i > n => extra[i] # "ok",
         \A k \in 1..Len(steps) : k > flatIndex + n => steps'[k] = "pending",
         flatIndex' \in Nat, stepIndex' \in 1..(Len(plan.steps) + 1), group' \in GroupType,
         pc' = "top" => /\ flatIndex' = flatIndex + n /\ group' = NoGroup
                        /\ stepIndex' = stepIndex + 1
                        /\ Len(steps) = flatIndex + n + Cardinality(Ahead(stepIndex + 1))
         ,
         pc' # "top" => \E i \in 1..Len(extra) : extra[i] # "ok"
  PROVE  EntriesInv'
<1>1. /\ DOMAIN steps' = 1..Len(steps) /\ flatIndex \in Nat /\ Len(steps) \in Nat
      /\ DOMAIN steps = 1..Len(steps) /\ Len(extra) \in Nat
  BY LenProperties DEF EntriesInv, LayoutInv
<1>2. /\ results' \in Seq(Outcomes)
      /\ Succeeded' = Succeeded \cup
              Shifted(Len(results), {i \in 1..Len(extra) : extra[i] = "ok"})
      /\ DOMAIN results' \ Succeeded' = (DOMAIN results \ Succeeded) \cup
              Shifted(Len(results), {i \in 1..Len(extra) : extra[i] # "ok"})
  BY ResultsGrow DEF EntriesInv, LayoutInv
<1>3. LayoutInv'
  <2>1. pc' = "top" => Ahead(stepIndex)' = Ahead(stepIndex + 1)
    BY DEF Ahead, Entries
  <2> QED BY <1>2, <2>1 DEF EntriesInv, LayoutInv
<1>4. EntryInv'
  <2>1. \A i \in Slots : child[i] = NoChild BY DEF Busy
  <2>2. ASSUME NEW k \in 1..Len(steps), steps'[k] = "running" PROVE FALSE
    <3>1. CASE k <= flatIndex
      <4>1. steps[k] = "running" BY <3>1, <2>2, <1>1
      <4> QED BY <4>1, <2>1, <1>1 DEF EntriesInv, EntryInv
    <3>2. CASE k > flatIndex
      <4>1. k <= flatIndex + n BY <2>2, <1>1
      <4>2. k - flatIndex \in 1..n /\ k = flatIndex + (k - flatIndex) BY <3>2, <4>1, <1>1
      <4> QED BY <4>2, <2>2
    <3> QED BY <3>1, <3>2, <1>1
  <2>3. pc' \in {"top", "tasks"} =>
          \A k \in DOMAIN steps' : k > flatIndex' + group'.n => steps'[k] = "pending"
    <3>1. NoGroup.n = 0 BY DEF NoGroup
    <3> QED BY <3>1, <1>1
  <2> QED BY <1>1, <2>1, <2>2, <2>3 DEF EntryInv
<1>5. OutcomeInv'
  BY DEF OutcomeInv
<1>6. CountInv'
  BY CountAhead DEF EntriesInv
<1>7. DoneInv'
  <2>1. resultFile' = "none" BY DEF StatusInv
  <2>2. ASSUME ~interrupted, Succeeded' = DOMAIN results'
        PROVE  pc' = "top" /\ \A k \in 1..flatIndex' : steps'[k] = "complete"
    <3>1. Succeeded \subseteq DOMAIN results BY DEF Succeeded
    <3>2. Succeeded = DOMAIN results /\ \A i \in 1..Len(extra) : extra[i] = "ok"
      <4>1. DOMAIN results \ Succeeded = {} BY <1>2, <2>2
      <4>2. Shifted(Len(results), {i \in 1..Len(extra) : extra[i] # "ok"}) = {} BY <1>2, <2>2
      <4>3. ASSUME NEW i \in 1..Len(extra), extra[i] # "ok" PROVE FALSE
        <5>1. Len(results) + i \in Shifted(Len(results), {j \in 1..Len(extra) : extra[j] # "ok"})
          BY <4>3 DEF Shifted
        <5> QED BY <5>1, <4>2
      <4> QED BY <3>1, <4>1, <4>3
    <3>3. pc' = "top" /\ flatIndex' = flatIndex + n BY <3>2
    <3>4. \A k \in 1..flatIndex : steps[k] = "complete"
      BY <2>2, <3>2 DEF EntriesInv, DoneInv
    <3>5. ASSUME NEW k \in 1..flatIndex' PROVE steps'[k] = "complete"
      <4>1. CASE k <= flatIndex BY <4>1, <3>4, <1>1
      <4>2. CASE k > flatIndex
        <5>1. k - flatIndex \in 1..n /\ k = flatIndex + (k - flatIndex) BY <3>3, <4>2, <1>1
        <5>2. k - flatIndex \in 1..Len(extra) BY <5>1, <1>1
        <5> QED BY <5>1, <5>2, <3>2, <2>2
      <4> QED BY <4>1, <4>2, <1>1
    <3> QED BY <3>3, <3>5
  <2> QED BY <2>1, <2>2 DEF DoneInv
<1> QED BY <1>3, <1>4, <1>5, <1>6, <1>7 DEF EntriesInv

LEMMA StepFacts ==
  ASSUME LayoutInv, stepIndex <= Len(plan.steps)
  PROVE  /\ stepIndex \in DOMAIN plan.steps /\ stepIndex \in 1..Len(plan.steps)
         /\ stepIndex + 1 \in 1..(Len(plan.steps) + 1)
         /\ Step \in StepType /\ (Step.kind = "seq" => Step.n = 1)
         /\ Step.n \in 1..MaxWidth /\ MaxWidth \in Nat
         /\ Cardinality(Ahead(stepIndex + 1)) \in Nat
         /\ Cardinality(Ahead(stepIndex)) =
              (IF Step.kind = "par" THEN Step.n ELSE 1) + Cardinality(Ahead(stepIndex + 1))
<1>1. stepIndex \in DOMAIN plan.steps /\ stepIndex \in 1..Len(plan.steps)
      /\ stepIndex + 1 \in 1..(Len(plan.steps) + 1)
  BY PlanFacts DEF LayoutInv
<1>2. Step \in StepType /\ (Step.kind = "seq" => Step.n = 1)
  BY <1>1, PlanFacts DEF LayoutInv, Step
<1>3. Step.n \in 1..MaxWidth
  BY <1>2 DEF StepType
<1> QED BY <1>1, <1>2, <1>3, AheadCounts, BoundsAssumption DEF LayoutInv, Entries, Step

LEMMA LoopKeepsEntries ==
  ASSUME StatusInv, ChildInv, EntriesInv, Loop
  PROVE  EntriesInv'
<1>a. AfterLoop \in {"share", "finish"}
  BY DEF AfterLoop
<1>l. LayoutInv /\ EntryInv
  BY DEF EntriesInv
<1>c. \A i \in Slots : child[i] # NoChild /\ child[i].interrupted => interrupted
  BY DEF EntriesInv, EntryInv
<1>1. CASE LoopEnds
  BY <1>1, <1>a, <1>c, EntriesQuiet DEF LoopEnds
<1>b. ASSUME NEW kind, Begins(kind)
      PROVE  /\ pc = "top" /\ stepIndex <= Len(plan.steps) /\ Busy = {} /\ ~interrupted
             /\ UNCHANGED <<plan, interrupted, child, resultFile>>
             /\ Step.kind = kind
             /\ steps \in Seq(EntryStates) /\ Len(steps) \in Nat /\ flatIndex \in Nat /\ DOMAIN steps = 1..Len(steps)
             /\ group = NoGroup /\ group.n = 0 /\ group \in GroupType /\ results \in Seq(Outcomes)
             /\ Len(steps) = flatIndex + (IF kind = "par" THEN Step.n ELSE 1)
                               + Cardinality(Ahead(stepIndex + 1))
             /\ Cardinality(Ahead(stepIndex + 1)) \in Nat /\ Step.n \in 1..MaxWidth
             /\ \A k \in 1..Len(steps) : k > flatIndex => steps[k] = "pending"
  <2>1. pc = "top" /\ stepIndex <= Len(plan.steps) /\ Step.kind = kind
    BY <1>b DEF Begins
  <2>2. /\ Busy = {} /\ group = NoGroup /\ group.n = 0
    BY <1>l, <2>1 DEF ChildInv, Busy, LayoutInv, NoGroup
  <2>3. /\ Cardinality(Ahead(stepIndex + 1)) \in Nat /\ Step.n \in 1..MaxWidth /\ MaxWidth \in Nat
        /\ Cardinality(Ahead(stepIndex)) = (IF kind = "par" THEN Step.n ELSE 1)
                               + Cardinality(Ahead(stepIndex + 1))
    BY <1>l, <2>1, StepFacts
  <2>4. /\ steps \in Seq(EntryStates) /\ Len(steps) \in Nat /\ flatIndex \in Nat
        /\ DOMAIN steps = 1..Len(steps)
    BY <1>l, LenProperties DEF LayoutInv
  <2>5. Len(steps) = flatIndex + (IF kind = "par" THEN Step.n ELSE 1)
                               + Cardinality(Ahead(stepIndex + 1))
    BY <1>l, <2>1, <2>3, <2>4 DEF LayoutInv
  <2>6. \A k \in 1..Len(steps) : k > flatIndex => steps[k] = "pending"
    BY <1>l, <2>1, <2>2, <2>4 DEF EntryInv
  <2> QED BY <1>b, <1>l, <2>1, <2>2, <2>3, <2>4, <2>5, <2>6 DEF Begins, LayoutInv
<1>2. CASE SequentialStepBegins
  <2>1. Begins("seq") /\ group' = [NoGroup EXCEPT !.n = 1] /\ pc' = "tasks"
        /\ UNCHANGED <<stepIndex, flatIndex, steps, results>>
    BY <1>2 DEF SequentialStepBegins, AwaitTasks
  <2>2. 1 \in 1..MaxWidth BY BoundsAssumption
  <2> QED BY <2>1, <2>2, <1>b, GroupBegins
<1>3. CASE ParallelGroupBegins
  <2>1. Begins("par") /\ group' = [NoGroup EXCEPT !.n = Step.n] /\ pc' = "tasks"
        /\ UNCHANGED <<stepIndex, flatIndex, results>>
        /\ steps' = [k \in DOMAIN steps |->
                 IF k \in (flatIndex + 1)..(flatIndex + Step.n) THEN "pending" ELSE steps[k]]
    BY <1>3 DEF ParallelGroupBegins, AwaitTasks
  <2>2. steps' = steps
    <3>1. \A k \in 1..Len(steps) : k \in (flatIndex + 1)..(flatIndex + Step.n) => steps[k] = "pending"
      BY <2>1, <1>b
    <3>2. steps = [k \in DOMAIN steps |-> steps[k]] BY <2>1, <1>b, LenProperties
    <3>3. \A k \in DOMAIN steps :
            (IF k \in (flatIndex + 1)..(flatIndex + Step.n) THEN "pending" ELSE steps[k]) = steps[k]
      BY <3>1, <2>1, <1>b
    <3> QED BY <2>1, <3>2, <3>3, Zenon
  <2>3. /\ Step.n \in 1..MaxWidth /\ steps' \in Seq(EntryStates)
        /\ Len(steps') = flatIndex + Step.n + Cardinality(Ahead(stepIndex + 1))
        /\ \A j \in 1..Len(steps') : j > flatIndex => steps'[j] = "pending"
    BY <2>1, <2>2, <1>b
  <2>4. pc = "top" /\ stepIndex <= Len(plan.steps) /\ UNCHANGED <<plan, interrupted, child, resultFile>>
    BY <2>1, <1>b
  <2> QED BY <2>1, <2>2, <2>3, <2>4, GroupBegins
<1>4. CASE WorktreeSetupFails
  <2> DEFINE n == Step.n  extra == [i \in 1..n |-> "failed"]
  <2>1. /\ Begins("par") /\ pc' = AfterLoop
        /\ UNCHANGED <<stepIndex, group>> /\ flatIndex' = flatIndex + n
        /\ results' = results \o extra
        /\ steps' = [k \in DOMAIN steps |->
                 IF k \in (flatIndex + 1)..(flatIndex + n) THEN "failed" ELSE steps[k]]
    BY <1>4 DEF WorktreeSetupFails
  <2>2. n \in Nat /\ n \in 1..MaxWidth /\ flatIndex + n <= Len(steps) /\ n >= 1
    BY <2>1, <1>b, BoundsAssumption
  <2> HIDE DEF n
  <2>3. extra \in Seq(Outcomes) /\ Len(extra) = n /\ \A i \in 1..n : extra[i] = "failed"
    <3>1. extra \in [1..n -> Outcomes] BY DEF Outcomes
    <3> QED BY <3>1, <2>2
  <2> HIDE DEF extra
  <2>4. /\ steps' \in Seq(EntryStates) /\ Len(steps') = Len(steps)
        /\ \A k \in 1..Len(steps) :
             steps'[k] = IF k \in (flatIndex + 1)..(flatIndex + n) THEN "failed" ELSE steps[k]
    <3>0. steps \in [1..Len(steps) -> EntryStates] /\ DOMAIN steps = 1..Len(steps) /\ Len(steps) \in Nat
      BY <2>1, <1>b, LenProperties
    <3>1. steps' \in [1..Len(steps) -> EntryStates]
      BY <3>0, <2>1 DEF EntryStates
    <3> QED BY <3>0, <3>1, <2>1
  <2>5. \A k \in 1..flatIndex : steps'[k] = steps[k]
    BY <2>1, <2>2, <2>4, <1>b
  <2>6. \A i \in 1..n : steps'[flatIndex + i] = "failed"
    BY <2>1, <2>2, <2>4, <1>b
  <2>7. \A k \in 1..Len(steps) : k > flatIndex + n => steps'[k] = "pending"
    BY <2>1, <2>2, <2>4, <1>b
  <2>8. flatIndex' \in Nat /\ stepIndex' \in 1..(Len(plan.steps) + 1) /\ group' \in GroupType
    BY <2>1, <2>2, <1>b, <1>l DEF LayoutInv
  <2>9. \E i \in 1..Len(extra) : extra[i] # "ok"
    BY <2>2, <2>3
  <2>10. pc \in {"top", "tasks"} /\ Busy = {} /\ UNCHANGED <<plan, interrupted, child, resultFile>>
    BY <2>1, <1>b
  <2>11. pc' \in {"top", "share", "finish"} /\ pc' # "top"
    BY <2>1, <1>a
  <2>12. n <= Len(extra) /\ \A i \in 1..Len(extra) : i > n => extra[i] # "ok"
    BY <2>2, <2>3
  <2>13. \A i \in 1..n :
           /\ steps'[flatIndex + i] \notin {"running"}
           /\ steps'[flatIndex + i] = "failed" => extra[i] # "ok"
           /\ extra[i] = "ok" =>
                steps'[flatIndex + i] = "complete" \/ (steps'[flatIndex + i] = "paused" /\ interrupted)
    BY <2>3, <2>6
  <2> QED BY <2>1, <2>2, <2>3, <2>4, <2>5, <2>7, <2>8, <2>9, <2>10, <2>11, <2>12, <2>13, GroupSettles
<1>5. CASE MaterializeFails
  <2> DEFINE extra == <<"failed">>
  <2>1. /\ Begins("dyn") /\ pc' = AfterLoop
        /\ UNCHANGED <<stepIndex, group, flatIndex>>
        /\ results' = Append(results, "failed")
        /\ steps' = [steps EXCEPT ![flatIndex + 1] = "failed"]
    BY <1>5 DEF MaterializeFails, SetEntry, Entry
  <2>2. flatIndex + 1 <= Len(steps) /\ flatIndex + 1 \in 1..Len(steps)
    BY <2>1, <1>b
  <2>3. extra \in Seq(Outcomes) /\ Len(extra) = 1 /\ extra[1] = "failed"
    BY DEF Outcomes
  <2> HIDE DEF extra
  <2>r. results' = results \o extra
    BY <2>1, <1>b, AppendIsConcat DEF Outcomes, extra
  <2>4. /\ steps' \in Seq(EntryStates) /\ Len(steps') = Len(steps)
        /\ \A k \in 1..Len(steps) : steps'[k] = IF k = flatIndex + 1 THEN "failed" ELSE steps[k]
    <3>1. "failed" \in EntryStates BY DEF EntryStates
    <3> QED BY <3>1, <2>1, <2>2, <1>b, ExceptSeq
  <2>5. \A k \in 1..flatIndex : steps'[k] = steps[k]
    BY <2>1, <2>2, <2>4, <1>b
  <2>6. \A i \in 1..1 : steps'[flatIndex + i] = "failed"
    BY <2>1, <2>2, <2>4, <1>b
  <2>7. \A k \in 1..Len(steps) : k > flatIndex + 1 => steps'[k] = "pending"
    BY <2>1, <2>2, <2>4, <1>b
  <2>8. flatIndex' \in Nat /\ stepIndex' \in 1..(Len(plan.steps) + 1) /\ group' \in GroupType
    BY <2>1, <2>2, <1>b, <1>l DEF LayoutInv
  <2>9. \E i \in 1..Len(extra) : extra[i] # "ok"
    BY <2>2, <2>3
  <2>10. pc \in {"top", "tasks"} /\ Busy = {} /\ UNCHANGED <<plan, interrupted, child, resultFile>>
    BY <2>1, <1>b
  <2>11. pc' \in {"top", "share", "finish"} /\ pc' # "top"
    BY <2>1, <1>a
  <2>12. 1 \in Nat /\ 1 <= Len(extra) /\ \A i \in 1..Len(extra) : i > 1 => extra[i] # "ok"
    BY <2>2, <2>3
  <2>13. \A i \in 1..1 :
           /\ steps'[flatIndex + i] \notin {"running"}
           /\ steps'[flatIndex + i] = "failed" => extra[i] # "ok"
           /\ extra[i] = "ok" =>
                steps'[flatIndex + i] = "complete" \/ (steps'[flatIndex + i] = "paused" /\ interrupted)
    BY <2>3, <2>6
  <2> QED BY <2>r, <2>2, <2>3, <2>4, <2>5, <2>7, <2>8, <2>9, <2>10, <2>11, <2>12, <2>13, GroupSettles
<1>6. CASE MaterializeEmpty
  <2>1. /\ Begins("dyn") /\ pc' = pc
        /\ UNCHANGED <<results, group>>
        /\ flatIndex' = flatIndex + 1 /\ stepIndex' = stepIndex + 1
        /\ steps' = [steps EXCEPT ![flatIndex + 1] = "complete"]
    BY <1>6 DEF MaterializeEmpty, SetEntry, Entry
  <2>2. flatIndex + 1 <= Len(steps) /\ flatIndex + 1 \in 1..Len(steps)
    BY <2>1, <1>b
  <2>4. /\ steps' \in Seq(EntryStates) /\ Len(steps') = Len(steps) /\ DOMAIN steps' = 1..Len(steps)
        /\ \A k \in 1..Len(steps) : steps'[k] = IF k = flatIndex + 1 THEN "complete" ELSE steps[k]
    <3>1. "complete" \in EntryStates BY DEF EntryStates
    <3> QED BY <3>1, <2>1, <2>2, <1>b, ExceptSeq, LenProperties
  <2>5. LayoutInv'
    <3>1. Ahead(stepIndex)' = Ahead(stepIndex + 1) BY <2>1, <1>b DEF Ahead, Entries
    <3>2. stepIndex + 1 \in 1..(Len(plan.steps) + 1) BY <2>1, <1>b, <1>l, StepFacts
    <3> QED BY <3>1, <3>2, <2>1, <2>4, <1>b, <1>l DEF LayoutInv
  <2>6. EntryInv'
    <3>1. \A k \in 1..Len(steps) : steps'[k] # "running"
      BY <2>1, <2>4, <1>b, <1>l DEF EntryInv
    <3>2. \A k \in 1..Len(steps) : k > flatIndex + 1 => steps'[k] = "pending"
      BY <2>1, <2>4, <1>b
    <3> QED BY <3>1, <3>2, <2>1, <2>4, <1>b, <1>c DEF EntryInv
  <2>7. OutcomeInv' BY <2>1, <1>b DEF OutcomeInv
  <2>8. Succeeded' = Succeeded BY <2>1 DEF Succeeded
  <2>9. CountInv'
    <3> DEFINE D == {k \in 1..Len(steps) : steps'[k] \in {"complete", "paused"}}
    <3>1. Settled' = 1..Len(steps) BY <2>1, <2>4, <1>b DEF Settled
    <3>2. {k \in 1..Len(steps) : steps'[k] = "failed"} = FailedIn(steps, 1..flatIndex)
      <4>1. /\ \A k \in 1..Len(steps) : k > flatIndex => steps[k] = "pending"
            /\ flatIndex \in Nat /\ Len(steps) \in Nat
        BY <2>1, <1>b
      <4> QED BY <4>1, <2>2, <2>4 DEF FailedIn
    <3>3. DoneIn(steps, 1..flatIndex) \in SUBSET D
      BY <2>1, <2>2, <2>4, <1>b DEF DoneIn
    <3>4. IsFiniteSet(1..Len(steps)) BY <2>1, <1>b, FS_Interval
    <3>5. IsFiniteSet(D)
      <4>1. D \in SUBSET (1..Len(steps)) OBVIOUS
      <4> HIDE DEF D
      <4> QED BY <3>4, <4>1, FS_Subset
    <3>6. /\ Cardinality(FailedIn(steps, 1..flatIndex)) <= Cardinality(DOMAIN results \ Succeeded)
          /\ Cardinality(Succeeded) <= Cardinality(DoneIn(steps, 1..flatIndex))
      BY <2>1, <1>b, CountBehind DEF EntriesInv
    <3> HIDE DEF D
    <3>7. /\ Cardinality(DoneIn(steps, 1..flatIndex)) <= Cardinality(D)
          /\ Cardinality(DoneIn(steps, 1..flatIndex)) \in Nat /\ Cardinality(D) \in Nat
      BY <3>3, <3>5, FS_Subset, FS_CardinalityType
    <3>8. Cardinality(Succeeded) \in Nat
      <4>1. Succeeded \in SUBSET (1..Len(results)) /\ Len(results) \in Nat
        BY <2>1, <1>b, LenProperties DEF Succeeded
      <4>2. IsFiniteSet(1..Len(results)) BY <4>1, FS_Interval
      <4> QED BY <4>1, <4>2, FS_Subset, FS_CardinalityType
    <3>9. Cardinality(Succeeded) <= Cardinality(D) BY <3>6, <3>7, <3>8
    <3> QED BY <3>1, <3>2, <3>6, <3>9, <2>1, <2>8 DEF CountInv, D
  <2>10. DoneInv'
    <3>1. resultFile' = "none" BY <2>1, <1>b DEF StatusInv
    <3>2. ASSUME Succeeded = DOMAIN results, ~interrupted, NEW k \in 1..(flatIndex + 1)
          PROVE  steps'[k] = "complete"
      <4>1. CASE k = flatIndex + 1 BY <4>1, <2>2, <2>4
      <4>2. CASE k # flatIndex + 1
        <5>1. k \in 1..flatIndex /\ k \in 1..Len(steps) BY <4>2, <2>1, <2>2, <1>b
        <5>2. steps[k] = "complete" BY <5>1, <3>2, <2>1, <1>b DEF EntriesInv, DoneInv
        <5> QED BY <4>2, <5>1, <5>2, <2>4
      <4> QED BY <4>1, <4>2
    <3> QED BY <3>1, <3>2, <2>1, <2>8, <1>b DEF DoneInv
  <2> QED BY <2>5, <2>6, <2>7, <2>9, <2>10 DEF EntriesInv
<1>7. ASSUME NEW n \in 1..MaxWidth, MaterializeItems(n)
      PROVE  EntriesInv'
  <2> DEFINE L == Len(steps)
             front == SubSeq(steps, 1, flatIndex)  mid == [i \in 1..n |-> "pending"]
             back == SubSeq(steps, flatIndex + 2, L)
  <2>1. /\ Begins("dyn") /\ group' = [NoGroup EXCEPT !.n = n] /\ pc' = "tasks"
        /\ UNCHANGED <<stepIndex, flatIndex, results>>
        /\ steps' = front \o mid \o back
    BY <1>7 DEF MaterializeItems, AwaitTasks
  <2>a. /\ Len(steps) \in Nat /\ flatIndex \in Nat /\ steps \in Seq(EntryStates)
        /\ Len(steps) = flatIndex + 1 + Cardinality(Ahead(stepIndex + 1))
        /\ Cardinality(Ahead(stepIndex + 1)) \in Nat
    <3>1. Begins("dyn") BY <2>1
    <3> HIDE DEF front, mid, back, L
    <3>2. Len(steps) = flatIndex + (IF "dyn" = "par" THEN Step.n ELSE 1)
                               + Cardinality(Ahead(stepIndex + 1))
      BY <3>1, <1>b
    <3> QED BY <3>1, <3>2, <1>b
  <2>2. /\ n \in Nat /\ L \in Nat /\ flatIndex \in Nat /\ steps \in Seq(EntryStates)
        /\ L >= flatIndex + 1
    BY <2>a, BoundsAssumption
  <2>p. \A k \in 1..L : k > flatIndex => steps[k] = "pending"
    BY <2>1, <1>b
  <2>3. /\ front \in Seq(EntryStates) /\ Len(front) = flatIndex
        /\ \A k \in 1..flatIndex : front[k] = steps[k]
    <3>1. \A k \in 1..flatIndex : steps[k] \in EntryStates BY <2>2, ElementOfSeq
    <3> QED BY <2>2, <3>1, SubSeqProperties
  <2>4. mid \in Seq(EntryStates) /\ Len(mid) = n /\ \A i \in 1..n : mid[i] = "pending"
    <3>1. mid \in [1..n -> EntryStates] BY DEF EntryStates
    <3> QED BY <3>1, <2>2
  <2>5. /\ back \in Seq(EntryStates) /\ Len(back) = L - flatIndex - 1
        /\ \A i \in 1..(L - flatIndex - 1) : back[i] = steps[flatIndex + 1 + i]
    <3> DEFINE m == flatIndex + 2
    <3>1. \A k \in m..L : steps[k] \in EntryStates BY <2>2, ElementOfSeq
    <3>m. m \in Int /\ L \in Int BY <2>2
    <3>b. back = SubSeq(steps, m, L) OBVIOUS
    <3> HIDE DEF m, back, L
    <3>2. /\ back \in Seq(EntryStates)
          /\ Len(back) = IF m <= L THEN L - m + 1 ELSE 0
          /\ \A i \in 1..(L - m + 1) : back[i] = steps[m + i - 1]
      BY <3>1, <3>m, <3>b, SubSeqProperties
    <3> QED BY <2>2, <3>2 DEF m
  <2> DEFINE fm == front \o mid
  <2>c. steps' = fm \o back BY <2>1
  <2> HIDE DEF front, mid, back, L
  <2>6. /\ fm \in Seq(EntryStates) /\ Len(fm) = flatIndex + n
        /\ \A k \in 1..(flatIndex + n) :
             fm[k] = IF k <= flatIndex THEN front[k] ELSE mid[k - flatIndex]
    BY <2>3, <2>4, ConcatProperties
  <2> HIDE DEF fm
  <2>7. /\ steps' \in Seq(EntryStates) /\ Len(steps') = Len(fm) + Len(back)
        /\ \A k \in 1..(Len(fm) + Len(back)) :
             steps'[k] = IF k <= Len(fm) THEN fm[k] ELSE back[k - Len(fm)]
    BY <2>c, <2>5, <2>6, ConcatProperties
  <2>l. Len(steps') = n + L - 1
    BY <2>2, <2>5, <2>6, <2>7
  <2>8. \A j \in 1..flatIndex : steps'[j] = steps[j]
    BY <2>2, <2>3, <2>5, <2>6, <2>7
  <2>9. ASSUME NEW j \in 1..Len(steps'), j > flatIndex PROVE steps'[j] = "pending"
    <3>1. CASE j <= flatIndex + n
      <4>1. steps'[j] = fm[j] /\ j \in 1..(flatIndex + n)
        BY <3>1, <2>2, <2>5, <2>6, <2>7, <2>9
      <4>2. fm[j] = mid[j - flatIndex] /\ j - flatIndex \in 1..n
        BY <4>1, <2>2, <2>6, <2>9
      <4> QED BY <4>1, <4>2, <2>4
    <3>2. CASE j > flatIndex + n
      <4> DEFINE i == j - (flatIndex + n)
      <4>1. i \in 1..(L - flatIndex - 1) /\ steps'[j] = back[i]
        BY <3>2, <2>2, <2>5, <2>6, <2>7, <2>l
      <4> HIDE DEF i
      <4>2. flatIndex + 1 + i \in 1..L /\ flatIndex + 1 + i > flatIndex
        BY <4>1, <2>2
      <4>3. steps[flatIndex + 1 + i] = "pending"
        BY <4>2, <2>p
      <4> QED BY <4>1, <4>3, <2>5
    <3> QED BY <3>1, <3>2, <2>2, <2>l
  <2>10. Len(steps') = flatIndex + n + Cardinality(Ahead(stepIndex + 1))
    BY <2>2, <2>a, <2>l DEF L
  <2> QED BY <2>1, <2>7, <2>8, <2>9, <2>10, <1>b, GroupBegins
<1> QED BY <1>1, <1>2, <1>3, <1>4, <1>5, <1>6, <1>7 DEF Loop

LEMMA JoinThree ==
  ASSUME NEW S, NEW a \in Seq(S), NEW b \in Seq(S), NEW c \in Seq(S)
  PROVE  (a \o b) \o c = a \o (b \o c)
BY ConcatAssociative

LEMMA SeqOfFunction ==
  ASSUME NEW S, NEW n \in Nat, NEW f \in [1..n -> S]
  PROVE  f \in Seq(S) /\ Len(f) = n
OBVIOUS

\* A task starts or is skipped, or an attempt of it ends.
LEMMA TaskKeepsEntries ==
  ASSUME StatusInv, ChildInv, EntriesInv, NEW i \in Slots, pc = "tasks", pc' = pc,
         UNCHANGED <<plan, stepIndex, flatIndex, results, interrupted, resultFile>>,
         StartTask(i) \/ SkipTask(i) \/ NextAttempt(i) \/ LastAttempt(i)
  PROVE  EntriesInv'
<1>g. /\ group \in GroupType /\ group.n \in 0..MaxWidth /\ group.next \in Nat
      /\ group.aborted \in BOOLEAN /\ group.out \in [Slots -> Outcomes]
      /\ group = [n |-> group.n, next |-> group.next, aborted |-> group.aborted, out |-> group.out]
      /\ group.n \in Nat /\ 1..group.n \subseteq Slots
  BY BoundsAssumption DEF EntriesInv, LayoutInv, GroupType, Slots
<1>o. group.next <= group.n + 1 /\ \A j \in Slots : child[j] # NoChild => j < group.next
  BY DEF EntriesInv, OutcomeInv
<1>i. i \in Nat /\ i >= 1
  BY BoundsAssumption DEF Slots
<1>c. child \in [Slots -> ChildType \cup {NoChild}]
  BY DEF ChildInv
<1>s. Spawned # NoChild /\ Spawned.interrupted = FALSE
  BY DEF Spawned, NoChild
<1>1. CASE StartTask(i)
  <2>1. /\ i = group.next /\ i \in 1..group.n /\ SetEntry(i, "running")
        /\ group' = [group EXCEPT !.next = @ + 1] /\ child' = [child EXCEPT ![i] = Spawned]
    BY <1>1, <1>g, <1>i DEF StartTask, WorkerFree
  <2>2. /\ group' \in GroupType /\ group'.n = group.n /\ group'.next = group.next + 1
        /\ group'.out = group.out
    BY <2>1, <1>g DEF GroupType
  <2>3. child'[i] = Spawned /\ \A j \in Slots : j # i => child'[j] = child[j]
    BY <2>1, <1>c
  <2>4. group.out[i] = NoOutcome
    BY <2>1, <1>g DEF EntriesInv, OutcomeInv
  <2>5. "running" \in EntryStates BY DEF EntryStates
  <2>6. group'.next >= group.next /\ group'.next <= group.n + 1 /\ i < group'.next
    BY <2>1, <2>2, <1>g
  <2>7. group'.out[i] # "ok" BY <2>2, <2>4 DEF NoOutcome
  <2> QED BY <2>1, <2>2, <2>3, <2>5, <2>6, <2>7, <1>s, EntryChanges
<1>2. CASE SkipTask(i)
  <2>1. /\ i = group.next /\ i \in 1..group.n /\ SetEntry(i, "failed")
        /\ group' = [group EXCEPT !.next = @ + 1, !.out[i] = "skipped"] /\ child' = child
    BY <1>2, <1>g, <1>i DEF SkipTask, WorkerFree
  <2>2. /\ group' \in GroupType /\ group'.n = group.n /\ group'.next = group.next + 1
        /\ group'.out = [group.out EXCEPT ![i] = "skipped"]
    <3>1. [group.out EXCEPT ![i] = "skipped"] \in [Slots -> Outcomes] BY <1>g DEF Outcomes
    <3> DEFINE o == [group.out EXCEPT ![i] = "skipped"]
    <3>2. group' = [n |-> group.n, next |-> group.next + 1, aborted |-> group.aborted, out |-> o]
      BY <2>1, <1>g
    <3> HIDE DEF o
    <3>3. group.next + 1 \in Nat /\ o \in [Slots -> Outcomes] BY <3>1, <1>g DEF o
    <3>4. group' \in GroupType BY <3>2, <3>3, <1>g DEF GroupType
    <3> QED BY <3>2, <3>4 DEF o
  <2>3. group'.out[i] = "skipped" /\ \A j \in 1..group.n : j # i => group'.out[j] = group.out[j]
    BY <2>1, <2>2, <1>g
  <2>4. child[i] = NoChild
    BY <2>1, <1>o, <1>g
  <2>5. "failed" \in EntryStates BY DEF EntryStates
  <2>6. group'.next >= group.next /\ group'.next <= group.n + 1 /\ i < group'.next
    BY <2>1, <2>2, <1>g
  <2> QED BY <2>1, <2>2, <2>3, <2>4, <2>5, <2>6, EntryChanges
<1>3. CASE NextAttempt(i)
  <2>1. child[i].proc = "closed" /\ child' = [child EXCEPT ![i] = Spawned]
        /\ UNCHANGED <<steps, group>>
    BY <1>3 DEF NextAttempt
  <2>2. child[i] # NoChild BY <2>1 DEF NoChild
  <2>3. child'[i] = Spawned /\ \A j \in Slots : j # i => child'[j] = child[j]
    BY <2>1, <1>c
  <2>4. \A j \in Slots : child[j] # NoChild /\ child[j].interrupted => interrupted
    BY DEF EntriesInv, EntryInv
  <2>5. /\ \A j \in Slots : child[j] # NoChild <=> child'[j] # NoChild
        /\ \A j \in Slots : child'[j] # NoChild /\ child'[j].interrupted => interrupted
    BY <2>2, <2>3, <2>4, <1>s
  <2> QED BY <2>1, <2>5, EntriesQuiet
<1>4. CASE LastAttempt(i)
  <2> DEFINE r == StreamingResult(child[i])
  <2>1. PICK h \in HiddenErrors(r) :
             /\ SetEntry(i, IF r.interrupted THEN "paused"
                         ELSE IF AttemptExit(r, h) = 0 THEN "complete" ELSE "failed")
             /\ group' = [group EXCEPT
                         !.out[i] = IF AttemptExit(r, h) = 0 THEN "ok" ELSE "failed",
                         !.aborted = @ \/ (AttemptExit(r, h) # 0 /\ Step.failFast)]
    BY <1>4 DEF LastAttempt
  <2>2. child[i].proc = "closed" /\ child' = [child EXCEPT ![i] = NoChild]
    BY <1>4 DEF LastAttempt
  <2>3. child[i] # NoChild BY <2>2 DEF NoChild
  <2>4. r.interrupted => interrupted
    <3>1. r.interrupted => child[i].interrupted BY DEF StreamingResult
    <3> QED BY <3>1, <2>3 DEF EntriesInv, EntryInv
  <2> DEFINE o == IF AttemptExit(r, h) = 0 THEN "ok" ELSE "failed"
             s == IF r.interrupted THEN "paused"
                  ELSE IF AttemptExit(r, h) = 0 THEN "complete" ELSE "failed"
             ab == group.aborted \/ (AttemptExit(r, h) # 0 /\ Step.failFast)
  <2>5. s \in EntryStates /\ SetEntry(i, s) /\ o \in {"ok", "failed"}
    BY <2>1 DEF EntryStates
  <2>6. (s = "failed" => o = "failed") /\ (o = "ok" => s = "complete" \/ (s = "paused" /\ interrupted))
        /\ s # "running"
    BY <2>4
  <2>7. group' = [group EXCEPT !.out[i] = o, !.aborted = ab]
    BY <2>1
  <2>8. ab \in BOOLEAN
    <3>1. (AttemptExit(r, h) # 0 /\ Step.failFast) \in BOOLEAN OBVIOUS
    <3> QED BY <3>1, <1>g
  <2> HIDE DEF o, s, ab, r
  <2>9. /\ group' \in GroupType /\ group'.n = group.n /\ group'.next = group.next
        /\ group'.out = [group.out EXCEPT ![i] = o]
    <3>1. [group.out EXCEPT ![i] = o] \in [Slots -> Outcomes] BY <2>5, <1>g DEF Outcomes
    <3> QED BY <3>1, <2>7, <2>8, <1>g DEF GroupType
  <2>10. group'.out[i] = o /\ \A j \in 1..group.n : j # i => group'.out[j] = group.out[j]
    BY <2>9, <1>g
  <2>11. i < group.next /\ i \in 1..group.n
    BY <2>3, <1>o, <1>g, <1>i
  <2>12. child'[i] = NoChild /\ \A j \in Slots : j # i => child'[j] = child[j]
    BY <2>2, <1>c
  <2> QED BY <2>5, <2>6, <2>9, <2>10, <2>11, <2>12, <1>g, <1>o, EntryChanges
<1> QED BY <1>1, <1>2, <1>3, <1>4

LEMMA GroupResultsType ==
  ASSUME group \in GroupType
  PROVE  /\ GroupResults \in Seq(Outcomes) /\ Len(GroupResults) = group.n
         /\ \A i \in 1..group.n : GroupResults[i] = group.out[i]
<1> DEFINE n == group.n
<1>1. n \in Nat /\ group.out \in [Slots -> Outcomes] /\ 1..n \subseteq Slots
  BY BoundsAssumption DEF GroupType, Slots
<1>2. GroupResults = [i \in 1..n |-> group.out[i]]
  BY <1>1 DEF GroupResults, SubSeq
<1>3. GroupResults \in [1..n -> Outcomes]
  BY <1>1, <1>2
<1>4. GroupResults \in Seq(Outcomes) /\ Len(GroupResults) = n
  <2> HIDE DEF n
  <2> QED BY <1>1, <1>3, SeqOfFunction
<1>5. \A i \in 1..n : GroupResults[i] = group.out[i]
  BY <1>2
<1> QED BY <1>4, <1>5

\* A step ends: its outcomes become results, with the failure of the whole group.
LEMMA CollectKeepsEntries ==
  ASSUME StatusInv, EntriesInv, NEW kind, Collect(kind),
         NEW invalid \in BOOLEAN,
         results' = results \o GroupResults \o (IF invalid THEN <<"failed">> ELSE <<>>),
         pc' = IF GroupFailed \/ invalid THEN AfterLoop ELSE "top"
  PROVE  EntriesInv'
<1> DEFINE n == group.n
           tail == IF invalid THEN <<"failed">> ELSE <<>>
           extra == GroupResults \o tail
<1>l. LayoutInv /\ EntryInv /\ OutcomeInv
  BY DEF EntriesInv
<1>1. /\ pc = "tasks" /\ GroupDone /\ flatIndex' = flatIndex + n /\ stepIndex' = stepIndex + 1
      /\ group' = NoGroup /\ UNCHANGED <<plan, steps, interrupted, child, resultFile>>
  BY DEF Collect
<1>2. /\ group \in GroupType /\ n \in 0..MaxWidth /\ n \in Nat /\ group.next \in Nat
      /\ group.out \in [Slots -> Outcomes] /\ 1..n \subseteq Slots
  BY <1>l, BoundsAssumption DEF LayoutInv, GroupType, Slots
<1>3. Busy = {} /\ group.next > n
  BY <1>1 DEF GroupDone
<1>4. /\ flatIndex \in Nat /\ steps \in Seq(EntryStates) /\ Len(steps) \in Nat
      /\ DOMAIN steps = 1..Len(steps) /\ results \in Seq(Outcomes) /\ Len(plan.steps) \in Nat
      /\ stepIndex \in 1..Len(plan.steps)
  BY <1>l, <1>1, LenProperties, PlanFacts DEF LayoutInv
<1>5. /\ Cardinality(Ahead(stepIndex + 1)) \in Nat
      /\ Len(steps) = flatIndex + n + Cardinality(Ahead(stepIndex + 1))
      /\ stepIndex + 1 \in 1..(Len(plan.steps) + 1)
  BY <1>l, <1>1, <1>4, StepFacts DEF LayoutInv
<1>6. NoGroup \in GroupType
  BY BoundsAssumption DEF NoGroup, GroupType, Outcomes, NoOutcome
<1>a. AfterLoop \in {"share", "finish"}
  BY DEF AfterLoop
<1>7. /\ GroupResults \in Seq(Outcomes) /\ Len(GroupResults) = n
      /\ \A i \in 1..n : GroupResults[i] = group.out[i]
  BY <1>l, GroupResultsType DEF LayoutInv
<1>8. /\ tail \in Seq(Outcomes) /\ Len(tail) \in {0, 1} /\ (invalid => Len(tail) = 1)
      /\ \A i \in 1..Len(tail) : tail[i] = "failed"
  <2>1. CASE invalid
    <3>1. tail = <<"failed">> BY <2>1
    <3> QED BY <3>1, <2>1 DEF Outcomes
  <2>2. CASE ~invalid
    <3>1. tail = <<>> BY <2>2
    <3> HIDE DEF tail
    <3> QED BY <3>1, <2>2
  <2> QED BY <2>1, <2>2
<1>x. GroupResults \in Seq(Outcomes) /\ tail \in Seq(Outcomes) /\ results \in Seq(Outcomes)
  BY <1>4, <1>7, <1>8
<1>9. results' = results \o extra
  <2> HIDE DEF tail
  <2>1. results' = (results \o GroupResults) \o tail BY DEF tail
  <2> DEFINE g == GroupResults
  <2>2. g \in Seq(Outcomes) BY <1>x
  <2>3. results' = (results \o g) \o tail /\ extra = g \o tail BY <2>1
  <2> HIDE DEF g, extra
  <2>4. (results \o g) \o tail = results \o (g \o tail) BY <2>2, <1>x, JoinThree
  <2> QED BY <2>3, <2>4, Zenon
<1> HIDE DEF tail
<1>t. Len(tail) \in Nat
  BY <1>8
<1>10. /\ extra \in Seq(Outcomes) /\ Len(extra) = n + Len(tail)
       /\ \A i \in 1..(n + Len(tail)) : extra[i] = IF i <= n THEN GroupResults[i] ELSE tail[i - n]
  <2> DEFINE g == GroupResults
  <2>1. g \in Seq(Outcomes) /\ tail \in Seq(Outcomes) /\ Len(g) = n /\ extra = g \o tail
    BY <1>x, <1>7
  <2> HIDE DEF g, n, extra
  <2>2. /\ extra \in Seq(Outcomes) /\ Len(extra) = n + Len(tail)
        /\ \A i \in 1..(n + Len(tail)) : extra[i] = IF i <= n THEN g[i] ELSE tail[i - n]
    BY <2>1, ConcatProperties
  <2> QED BY <2>2 DEF g
<1> HIDE DEF extra
<1>e. \A i \in 1..n : extra[i] = group.out[i] /\ i \in 1..Len(extra)
  <2> SUFFICES ASSUME NEW i \in 1..n PROVE extra[i] = group.out[i] /\ i \in 1..Len(extra)
    OBVIOUS
  <2> HIDE DEF n
  <2>1. i \in 1..(n + Len(tail)) /\ i <= n BY <1>2, <1>t
  <2>2. extra[i] = GroupResults[i] BY <2>1, <1>10
  <2> QED BY <2>1, <2>2, <1>7, <1>10
<1>11. \A i \in 1..Len(extra) : i > n => extra[i] # "ok"
  <2> SUFFICES ASSUME NEW i \in 1..Len(extra), i > n PROVE extra[i] # "ok"
    OBVIOUS
  <2> HIDE DEF n
  <2>1. i \in 1..(n + Len(tail)) /\ ~(i <= n) BY <1>2, <1>10
  <2>2. extra[i] = tail[i - n] BY <2>1, <1>10
  <2>3. i - n \in 1..Len(tail) BY <2>1, <1>2, <1>t
  <2> QED BY <2>2, <2>3, <1>8
<1>12. \A i \in 1..n :
           /\ steps[flatIndex + i] \notin {"running"}
           /\ steps[flatIndex + i] = "failed" => extra[i] # "ok"
           /\ extra[i] = "ok" =>
                steps[flatIndex + i] = "complete" \/ (steps[flatIndex + i] = "paused" /\ interrupted)
  <2> SUFFICES ASSUME NEW i \in 1..n
               PROVE  /\ steps[flatIndex + i] \notin {"running"}
                      /\ steps[flatIndex + i] = "failed" => extra[i] # "ok"
                      /\ extra[i] = "ok" =>
                           \/ steps[flatIndex + i] = "complete"
                           \/ steps[flatIndex + i] = "paused" /\ interrupted
    OBVIOUS
  <2>1. extra[i] = group.out[i] /\ flatIndex + i \in 1..Len(steps)
    <3>1. extra[i] = group.out[i] BY <1>e
    <3> HIDE DEF n
    <3>2. flatIndex + i \in 1..Len(steps) BY <1>2, <1>4, <1>5
    <3> QED BY <3>1, <3>2
  <2>2. steps[flatIndex + i] # "running"
    <3>1. \A j \in Slots : child[j] = NoChild BY <1>3 DEF Busy
    <3> QED BY <3>1, <2>1, <1>1, <1>4, <1>l DEF EntryInv
  <2>3. /\ steps[flatIndex + i] = "failed" => group.out[i] \in {"failed", "skipped"}
        /\ group.out[i] = "ok" =>
             steps[flatIndex + i] = "complete" \/ (steps[flatIndex + i] = "paused" /\ interrupted)
    BY <1>1, <1>l DEF OutcomeInv, Entry
  <2> QED BY <2>1, <2>2, <2>3
<1>13. \A k \in 1..Len(steps) : k > flatIndex + n => steps[k] = "pending"
  BY <1>1, <1>4, <1>l DEF EntryInv
<1>14. pc' # "top" => \E i \in 1..Len(extra) : extra[i] # "ok"
  <2>1. CASE invalid
    <3>0. Len(tail) = 1 BY <2>1, <1>8
    <3> HIDE DEF n
    <3>1. n + 1 \in 1..Len(extra) /\ n + 1 > n BY <3>0, <1>2, <1>10
    <3> QED BY <3>1, <1>11
  <2>2. CASE GroupFailed
    <3>1. "failed" \in {GroupResults[j] : j \in DOMAIN GroupResults}
      BY <2>2 DEF GroupFailed, Range
    <3>2. PICK j \in 1..n : GroupResults[j] = "failed"
      BY <3>1, <1>7, LenProperties
    <3>3. j \in 1..Len(extra) /\ extra[j] = "failed" BY <3>2, <1>7, <1>e
    <3> QED BY <3>3
  <2> QED BY <2>1, <2>2
<1>15. n <= Len(extra) /\ flatIndex + n <= Len(steps)
  <2> HIDE DEF n
  <2> QED BY <1>2, <1>4, <1>5, <1>t, <1>10
<1>16. pc' \in {"top", "share", "finish"}
  BY <1>a
<1>17. flatIndex' \in Nat /\ stepIndex' \in 1..(Len(plan.steps) + 1) /\ group' \in GroupType
  BY <1>1, <1>2, <1>4, <1>5, <1>6
<1>18. /\ pc \in {"top", "tasks"} /\ steps' \in Seq(EntryStates) /\ Len(steps') = Len(steps)
       /\ UNCHANGED <<plan, interrupted, child, resultFile>> /\ steps' = steps
  BY <1>1, <1>4
<1>19. pc' = "top" => /\ flatIndex' = flatIndex + n /\ group' = NoGroup
                      /\ stepIndex' = stepIndex + 1
                      /\ Len(steps) = flatIndex + n + Cardinality(Ahead(stepIndex + 1))
  BY <1>1, <1>5
<1> HIDE DEF n
<1> QED BY <1>2, <1>3, <1>9, <1>10, <1>11, <1>12, <1>13, <1>14, <1>15, <1>16, <1>17, <1>18, <1>19,
           GroupSettles

\* Whether a child was told to stop is changed by no handler but InterruptChild.
LEMMA HandlersKeepStop ==
  ASSUME NEW c \in ChildType
  PROVE  /\ AssistantFails(c).interrupted = c.interrupted
         /\ \A failed, hasText \in BOOLEAN :
              AssistantStops(c, failed, hasText).interrupted = c.interrupted
         /\ FinalDrainFires(c).interrupted = c.interrupted
         /\ HardKillFires(c).interrupted = c.interrupted
         /\ TimeoutFires(c).interrupted = c.interrupted
         /\ TimeoutKillFires(c).interrupted = c.interrupted
         /\ InterruptTermFires(c).interrupted = c.interrupted
         /\ \A code \in Codes : Exits(c, code).interrupted = c.interrupted
         /\ Closes(c).interrupted = c.interrupted
         /\ FailsToSpawn(c).interrupted = c.interrupted
BY DEF AssistantFails, AssistantStops, StartFinalDrain, FinalDrainFires, HardKillFires,
   TimeoutFires, TimeoutKillFires, InterruptTermFires, Exits, Closes, FailsToSpawn, Signal,
   ChildType

LEMMA ChildKeepsEntries ==
  ASSUME StatusInv, ChildInv, EntriesInv, NEW i \in Slots, ChildEvents(i)
  PROVE  EntriesInv'
<1>0. OfChild(i)
  BY DEF ChildEvents, Timers, ChildWrites, FinalDrainTimer, TimeoutTimer,
     InterruptTimer, ChildExits, ChildCloses, SpawnFails
<1>1. child[i] \in ChildType /\ child[i] # NoChild
  BY <1>0, LiveChild DEF OfChild, Live, Procs
<1>2. \A j \in Slots : child[j] # NoChild /\ child[j].interrupted => interrupted
  BY DEF EntriesInv, EntryInv
<1>3. child \in [Slots -> ChildType \cup {NoChild}]
  BY DEF ChildInv
<1>p. ASSUME NEW c \in ChildType, child' = [child EXCEPT ![i] = c],
             c.interrupted = child[i].interrupted
      PROVE  EntriesInv'
  <2>1. c # NoChild BY DEF ChildType, NoChild, Procs
  <2>2. child'[i] = c /\ \A j \in Slots : j # i => child'[j] = child[j]
    BY <1>p, <1>3
  <2>3. /\ \A j \in Slots : child[j] # NoChild <=> child'[j] # NoChild
        /\ \A j \in Slots : child'[j] # NoChild /\ child'[j].interrupted => interrupted
    BY <2>1, <2>2, <1>1, <1>2, <1>p
  <2> QED BY <2>3, <1>0, EntriesQuiet DEF OfChild
<1>4. CASE ChildWrites(i)
  <2>1. CASE Becomes(i, AssistantFails(child[i]))
    BY <2>1, <1>1, <1>p, ChildHandlers, HandlersKeepStop DEF Becomes
  <2>2. ASSUME NEW failed \in BOOLEAN, NEW hasText \in BOOLEAN,
               Becomes(i, AssistantStops(child[i], failed, hasText))
        PROVE  EntriesInv'
    BY <2>2, <1>1, <1>p, ChildHandlers, HandlersKeepStop DEF Becomes
  <2> QED BY <1>4, <2>1, <2>2 DEF ChildWrites
<1>5. CASE FinalDrainTimer(i)
  BY <1>5, <1>1, <1>p, ChildHandlers, HandlersKeepStop DEF FinalDrainTimer, Becomes
<1>6. CASE TimeoutTimer(i)
  BY <1>6, <1>1, <1>p, ChildHandlers, HandlersKeepStop DEF TimeoutTimer, Becomes
<1>7. CASE InterruptTimer(i)
  BY <1>7, <1>1, <1>p, ChildHandlers, HandlersKeepStop DEF InterruptTimer, Becomes
<1>8. CASE ChildExits(i)
  <2>1. PICK code \in Codes : Becomes(i, Exits(child[i], code))
    BY <1>8 DEF ChildExits, Codes
  <2> QED BY <2>1, <1>1, <1>p, ChildHandlers, HandlersKeepStop DEF Becomes
<1>9. CASE ChildCloses(i)
  BY <1>9, <1>1, <1>p, ChildHandlers, HandlersKeepStop DEF ChildCloses, Withdraw
<1>10. CASE SpawnFails(i)
  BY <1>10, <1>1, <1>p, ChildHandlers, HandlersKeepStop DEF SpawnFails, Withdraw
<1> QED BY <1>4, <1>5, <1>6, <1>7, <1>8, <1>9, <1>10 DEF ChildEvents, Timers

\* A stop makes the running entries paused and tells one child.
LEMMA StopKeepsEntries ==
  ASSUME StatusInv, ChildInv, EntriesInv, InterruptRunner
  PROVE  EntriesInv'
<1>1. /\ interrupted' = TRUE /\ ~interrupted
      /\ steps' = [k \in DOMAIN steps |-> IF steps[k] = "running" THEN "paused" ELSE steps[k]]
      /\ UNCHANGED <<plan, pc, stepIndex, flatIndex, results, group, resultFile>>
      /\ pc \in {"tasks", "share"}
  BY DEF InterruptRunner, Idle
<1>2. /\ steps \in Seq(EntryStates) /\ Len(steps) \in Nat /\ DOMAIN steps = 1..Len(steps)
  BY LenProperties DEF EntriesInv, LayoutInv
<1>3. /\ steps' \in Seq(EntryStates) /\ Len(steps') = Len(steps) /\ DOMAIN steps' = DOMAIN steps
      /\ \A k \in DOMAIN steps : steps'[k] = IF steps[k] = "running" THEN "paused" ELSE steps[k]
  <2>1. \A k \in 1..Len(steps) : steps[k] \in EntryStates BY <1>2, ElementOfSeq
  <2>2. steps' \in [1..Len(steps) -> EntryStates]
    BY <1>1, <1>2, <2>1 DEF EntryStates
  <2> QED BY <1>1, <1>2, <2>2, SeqOfFunction
<1>4. \A j \in Slots : child'[j] # NoChild => child[j] # NoChild
  <2>1. CASE active = NoTask BY <2>1 DEF InterruptRunner
  <2>2. CASE active # NoTask
    <3>1. active \in Slots /\ child[active].proc \in {"running", "exited"}
      BY <2>2 DEF ChildInv, Live
    <3>2. child[active] # NoChild BY <3>1, LiveChild DEF Procs
    <3>3. child' = [child EXCEPT ![active] = InterruptChild(child[active])]
      BY <2>2 DEF InterruptRunner
    <3>4. child \in [Slots -> ChildType \cup {NoChild}] BY DEF ChildInv
    <3>5. \A j \in Slots : j # active => child'[j] = child[j] BY <3>1, <3>3, <3>4
    <3> QED BY <3>2, <3>5
  <2> QED BY <2>1, <2>2
<1>5. LayoutInv'
  <2>1. Ahead(stepIndex)' = Ahead(stepIndex) /\ Ahead(stepIndex + 1)' = Ahead(stepIndex + 1)
    BY <1>1 DEF Ahead, Entries
  <2> QED BY <1>1, <1>3, <2>1 DEF EntriesInv, LayoutInv
<1>6. EntryInv'
  BY <1>1, <1>3 DEF EntriesInv, EntryInv
<1>7. OutcomeInv'
  <2>1. CASE pc = "tasks"
    <3>1. \A i \in 1..group.n : Entry(i) \in DOMAIN steps
      <4>1. group.n \in Nat /\ flatIndex \in Nat /\ Cardinality(Ahead(stepIndex + 1)) \in Nat
            /\ Len(steps) = flatIndex + group.n + Cardinality(Ahead(stepIndex + 1))
        BY <2>1, StepFacts DEF EntriesInv, LayoutInv, GroupType
      <4> QED BY <4>1, <1>2 DEF Entry
    <3>2. \A i \in 1..group.n : Entry(i)' = Entry(i) BY <1>1 DEF Entry
    <3> QED BY <2>1, <3>1, <3>2, <1>1, <1>3, <1>4 DEF EntriesInv, OutcomeInv
  <2>2. CASE pc # "tasks" BY <2>2, <1>1 DEF OutcomeInv
  <2> QED BY <2>1, <2>2
<1>8. Succeeded' = Succeeded
  BY <1>1 DEF Succeeded
<1>9. CountInv'
  <2> DEFINE F == {k \in Settled : steps[k] = "failed"}
             D == {k \in Settled : steps[k] \in {"complete", "paused"}}
             E == {k \in Settled : steps'[k] \in {"complete", "paused"}}
  <2>1. Settled' = Settled BY <1>1, <1>3 DEF Settled
  <2>2. Settled \subseteq DOMAIN steps
    <3>1. CASE pc = "tasks"
      <4>1. group.n \in Nat /\ flatIndex \in Nat /\ Cardinality(Ahead(stepIndex + 1)) \in Nat
            /\ Len(steps) = flatIndex + group.n + Cardinality(Ahead(stepIndex + 1))
        BY <3>1, StepFacts DEF EntriesInv, LayoutInv, GroupType
      <4> QED BY <4>1, <1>2, <3>1 DEF Settled
    <3>2. CASE pc # "tasks" BY <3>2 DEF Settled
    <3> QED BY <3>1, <3>2
  <2>3. {k \in Settled : steps'[k] = "failed"} = F BY <2>2, <1>3
  <2>4. D \subseteq E BY <2>2, <1>3
  <2>5. IsFiniteSet(E)
    <3>1. E \in SUBSET (1..Len(steps)) BY <2>2, <1>2
    <3>2. IsFiniteSet(1..Len(steps)) BY <1>2, FS_Interval
    <3> HIDE DEF E
    <3> QED BY <3>1, <3>2, FS_Subset
  <2>6. /\ Cardinality(F) <= Cardinality(DOMAIN results \ Succeeded)
        /\ Cardinality(Succeeded) <= Cardinality(D)
    BY <1>1 DEF EntriesInv, CountInv
  <2>7. Cardinality(Succeeded) \in Nat
    <3>1. Succeeded \in SUBSET (1..Len(results)) /\ Len(results) \in Nat
      BY LenProperties DEF Succeeded, EntriesInv, LayoutInv
    <3>2. IsFiniteSet(1..Len(results)) BY <3>1, FS_Interval
    <3> QED BY <3>1, <3>2, FS_Subset, FS_CardinalityType
  <2> HIDE DEF D, E, F
  <2>8. Cardinality(D) <= Cardinality(E) /\ Cardinality(D) \in Nat /\ Cardinality(E) \in Nat
    BY <2>4, <2>5, FS_Subset, FS_CardinalityType
  <2>9. Cardinality(Succeeded) <= Cardinality(E) BY <2>6, <2>7, <2>8
  <2> QED BY <2>1, <2>3, <2>6, <2>9, <1>1, <1>8 DEF CountInv, E
<1>10. DoneInv'
  <2>1. resultFile' = "none" BY <1>1 DEF StatusInv
  <2> QED BY <1>1, <2>1 DEF DoneInv
<1> QED BY <1>5, <1>6, <1>7, <1>9, <1>10 DEF EntriesInv

LEMMA EntriesStep ==
  ASSUME StatusInv, ChildInv, EntriesInv, [Next]_vars
  PROVE  EntriesInv'
<1>c. \A i \in Slots : child[i] # NoChild /\ child[i].interrupted => interrupted
  BY DEF EntriesInv, EntryInv
<1>q. ASSUME UNCHANGED <<plan, stepIndex, flatIndex, steps, results, interrupted, group, child>>,
             resultFile' \in {resultFile, FinalState},
             \/ pc' = pc \/ pc' = "dead"
             \/ pc \in {"share", "finish", "result"} /\ pc' \in {"finish", "result", "exited"}
      PROVE  EntriesInv'
  <2>1. \A i \in Slots : child[i] # NoChild <=> child'[i] # NoChild
    BY <1>q
  <2>2. \A i \in Slots : child'[i] # NoChild /\ child'[i].interrupted => interrupted
    BY <1>q, <1>c
  <2> QED BY <1>q, <2>1, <2>2, EntriesQuiet
<1>1. CASE Loop
  BY <1>1, LoopKeepsEntries
<1>2. CASE Tasks
  <2>1. CASE SequentialStepStarts \/ SequentialAttemptEnds
    BY <2>1, TaskKeepsEntries, SlotsNat DEF SequentialStepStarts, SequentialAttemptEnds, TaskOf
  <2>2. ASSUME NEW i \in Slots,
               \/ ParallelTaskStarts(i) \/ ParallelAttemptEnds(i)
               \/ DynamicTaskStarts(i) \/ DynamicAttemptEnds(i)
        PROVE  EntriesInv'
    BY <2>2, TaskKeepsEntries DEF ParallelTaskStarts, ParallelAttemptEnds, DynamicTaskStarts,
       DynamicAttemptEnds, TaskOf
  <2>e. ASSUME NEW kind, Collect(kind), results' = results \o GroupResults,
               pc' = IF GroupFailed THEN AfterLoop ELSE "top"
        PROVE  EntriesInv'
    <3> DEFINE tail == IF FALSE THEN <<"failed">> ELSE <<>>
    <3>1. GroupResults \in Seq(Outcomes) /\ results \in Seq(Outcomes)
      BY <2>e, GroupResultsType DEF EntriesInv, Collect, LayoutInv
    <3> DEFINE g == results \o GroupResults
    <3>2. g \in Seq(Outcomes) BY <3>1, ConcatProperties
    <3> HIDE DEF g
    <3>3. g \o <<>> = g BY <3>2, ConcatEmptySeq
    <3>4. results' = results \o GroupResults \o tail BY <2>e, <3>3 DEF g
    <3> HIDE DEF tail
    <3>5. (GroupFailed \/ FALSE) = GroupFailed BY DEF GroupFailed
    <3>6. pc' = IF GroupFailed \/ FALSE THEN AfterLoop ELSE "top" BY <2>e
    <3> QED BY <2>e, <3>4, <3>6, CollectKeepsEntries DEF tail
  <2>3. CASE SequentialStepEnds
    BY <2>3, <2>e DEF SequentialStepEnds
  <2>4. CASE ParallelGroupEnds
    BY <2>4, <2>e DEF ParallelGroupEnds
  <2>5. CASE DynamicGroupEnds
    <3>1. PICK invalid \in BOOLEAN :
            /\ results' = results \o GroupResults \o (IF invalid THEN <<"failed">> ELSE <<>>)
            /\ pc' = IF GroupFailed \/ invalid THEN AfterLoop ELSE "top"
      BY <2>5 DEF DynamicGroupEnds
    <3>2. Collect("dyn") BY <2>5 DEF DynamicGroupEnds
    <3> QED BY <3>1, <3>2, CollectKeepsEntries
  <2> QED BY <1>2, <2>1, <2>2, <2>3, <2>4, <2>5 DEF Tasks
<1>3. CASE Ending
  <2>1. CASE ShareEnds BY <2>1, <1>q DEF ShareEnds
  <2>2. CASE RunEnds BY <2>2, <1>q DEF RunEnds
  <2>3. CASE WriteResultFile
    <3>1. resultFile = "none" BY <2>3 DEF WriteResultFile, StatusInv
    <3> QED BY <2>3, <3>1, <1>q DEF WriteResultFile
  <2> QED BY <1>3, <2>1, <2>2, <2>3 DEF Ending
<1>4. CASE InterruptRunner
  BY <1>4, StopKeepsEntries
<1>5. CASE Crash
  BY <1>5, <1>q DEF Crash
<1>6. ASSUME NEW i \in Slots, ChildEvents(i) PROVE EntriesInv'
  BY <1>6, ChildKeepsEntries
<1>7. CASE UNCHANGED vars
  BY <1>7, <1>q DEF vars
<1> QED BY <1>1, <1>2, <1>3, <1>4, <1>5, <1>6, <1>7 DEF Next

LEMMA EntriesAlways == Spec => []EntriesInv
<1>1. Init => EntriesInv BY EntriesInit
<1>2. StatusInv /\ ChildInv /\ EntriesInv /\ [Next]_vars => EntriesInv'
  BY EntriesStep
<1> QED BY <1>1, <1>2, StatusAlways, ChildAlways, PTL DEF Spec

\* A result that says complete is the result of work that is done: of every
\* entry, or of some task at least when the run only reads.
THEOREM CompleteRunsAreDone == Spec => []CompleteMeansDone
<1>1. StatusInv /\ EntriesInv => CompleteMeansDone
  <2> SUFFICES ASSUME StatusInv, EntriesInv, resultFile = "complete"
               PROVE  IF plan.readOnly THEN Succeeded # {}
                      ELSE \A k \in DOMAIN steps : steps[k] = "complete"
    BY DEF CompleteMeansDone
  <2>1. FinalState = "complete" /\ pc = "exited"
    BY DEF EntriesInv, DoneInv, StatusInv
  <2>2. ~interrupted /\ AggregateOutcome \in {"partial", "complete"}
    BY <2>1 DEF FinalState
  <2>3. CASE plan.readOnly
    BY <2>2, <2>3 DEF AggregateOutcome
  <2>4. CASE ~plan.readOnly
    <3>1. Succeeded = DOMAIN results BY <2>2, <2>4 DEF AggregateOutcome
    <3>2. flatIndex = Len(steps) /\ \A k \in 1..flatIndex : steps[k] = "complete"
      BY <2>1, <2>2, <3>1 DEF EntriesInv, DoneInv
    <3>3. DOMAIN steps = 1..Len(steps)
      BY LenProperties DEF EntriesInv, LayoutInv
    <3> QED BY <2>4, <3>2, <3>3
  <2> QED BY <2>3, <2>4
<1> QED BY <1>1, StatusAlways, EntriesAlways, PTL

\* Nothing is lost between the status and the results: what failed counts as a
\* result that is no success, and no success is without an entry that says so.
THEOREM OutcomesAreCounted == Spec => []EveryOutcomeCounts
<1>1. EntriesInv => EveryOutcomeCounts
  <2> SUFFICES ASSUME EntriesInv, pc = "exited"
               PROVE  /\ Cardinality({k \in DOMAIN steps : steps[k] = "failed"})
                           <= Cardinality(DOMAIN results \ Succeeded)
                      /\ Cardinality(Succeeded)
                           <= Cardinality({k \in DOMAIN steps : steps[k] \in {"complete", "paused"}})
                      /\ "running" \notin Range(steps)
    BY DEF EveryOutcomeCounts
  <2>1. Settled = DOMAIN steps BY DEF Settled
  <2>2. "running" \notin Range(steps)
    BY DEF EntriesInv, EntryInv, Range
  <2> QED BY <2>1, <2>2, Zenon DEF EntriesInv, CountInv
<1> QED BY <1>1, EntriesAlways, PTL
=============================================================================
