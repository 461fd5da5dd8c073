------------------------ MODULE ForegroundRun_proofs ------------------------
(***************************************************************************)
(* A call that is moved to the background leaves no child at its work, and *)
(* a child that is let go tells one story: proved for calls of any length, *)
(* width and number of models.                                             *)
(***************************************************************************)
EXTENDS ForegroundRun, TLAPS

(***************************************************************************)
(* What becomes of a child: d may follow c.  It is awaited only if c was,  *)
(* and an interrupt is not forgotten.                                      *)
(***************************************************************************)
Follows(c, d) ==
  /\ d \in ChildType
  /\ Awaited(d) => Awaited(c) /\ (c.interrupted => d.interrupted)

LEMMA FollowsItself == ASSUME NEW c \in ChildType PROVE Follows(c, c)
BY DEF Follows

LEMMA SpawnedType == Spawned \in ChildType /\ ~Awaited(NoChild)
BY DEF Spawned, ChildType, ChildErrors, NoChild, Awaited, Live

LEMMA WritesFollow ==
  ASSUME NEW c \in ChildType
  PROVE  /\ Follows(c, AssistantFails(c)) /\ Follows(c, IntercomStarts(c))
         /\ \A failed, hasText \in BOOLEAN :
              Follows(c, AssistantStops(c, failed, hasText))
<1>1. Follows(c, AssistantFails(c)) /\ Follows(c, IntercomStarts(c))
  BY DEF AssistantFails, IntercomStarts, Follows, Awaited, Live, ChildType
<1>2. ASSUME NEW failed \in BOOLEAN, NEW hasText \in BOOLEAN
      PROVE  Follows(c, AssistantStops(c, failed, hasText))
  BY DEF AssistantStops, StartFinalDrain, Follows, Awaited, Live, ChildType
<1> QED BY <1>1, <1>2

LEMMA TimersFollow ==
  ASSUME NEW c \in ChildType
  PROVE  /\ Follows(c, FinalDrainFires(c)) /\ Follows(c, HardKillFires(c))
         /\ Follows(c, TimeoutFires(c)) /\ Follows(c, TimeoutKillFires(c))
<1>1. Follows(c, HardKillFires(c)) /\ Follows(c, TimeoutKillFires(c))
  BY DEF HardKillFires, TimeoutKillFires, Follows, Awaited, Live, ChildType
<1>2. Follows(c, FinalDrainFires(c))
  BY DEF FinalDrainFires, Follows, Awaited, Live, ChildType, ChildErrors
<1>3. Follows(c, TimeoutFires(c))
  BY DEF TimeoutFires, Follows, Awaited, Live, ChildType, ChildErrors
<1> QED BY <1>1, <1>2, <1>3

LEMMA RequestsFollow ==
  ASSUME NEW c \in ChildType
  PROVE  /\ Follows(c, InterruptChild(c))
         /\ Awaited(InterruptChild(c)) => InterruptChild(c).interrupted
         /\ Follows(c, DetachForIntercom(c))
         /\ Follows(c, Detach(c, "background"))
<1>1. /\ Follows(c, InterruptChild(c))
      /\ Awaited(InterruptChild(c)) => InterruptChild(c).interrupted
  <2>1. CASE Awaited(c)
    <3>1. InterruptChild(c) = [c EXCEPT !.interrupted = TRUE]
      BY <2>1 DEF InterruptChild
    <3>2. [c EXCEPT !.interrupted = TRUE] \in ChildType
      BY DEF ChildType
    <3>3. [c EXCEPT !.interrupted = TRUE].interrupted
      BY DEF ChildType
    <3> QED BY <2>1, <3>1, <3>2, <3>3 DEF Follows
  <2>2. CASE ~Awaited(c)
    BY <2>2, FollowsItself DEF InterruptChild
  <2> QED BY <2>1, <2>2
<1>2. ASSUME NEW how \in {"background", "intercom"}
      PROVE  Follows(c, Detach(c, how))
  BY DEF Detach, Follows, Awaited, Live, ChildType
<1>3. Follows(c, DetachForIntercom(c))
  BY <1>2, FollowsItself DEF DetachForIntercom
<1> QED BY <1>1, <1>2, <1>3

LEMMA EndsFollow ==
  ASSUME NEW c \in ChildType
  PROVE  /\ \A code \in {"zero", "nonzero"} :
              Live(c) => Follows(c, Exits(c, code))
         /\ \A stderr \in BOOLEAN : Follows(c, Closes(c, stderr))
         /\ Follows(c, FailsToSpawn(c))
         /\ Ended(c) \in ChildType /\ ~Awaited(Ended(c))
<1>1. ASSUME NEW code \in {"zero", "nonzero"}, Live(c)
      PROVE  Follows(c, Exits(c, code))
  <2>1. Exits(c, code) \in ChildType
    BY DEF Exits, ChildType
  <2>2. /\ Exits(c, code).detached = c.detached
        /\ Exits(c, code).interrupted = c.interrupted
    BY DEF Exits, ChildType
  <2> QED BY <1>1, <2>1, <2>2 DEF Follows, Awaited
<1>2. ASSUME NEW stderr \in BOOLEAN PROVE Follows(c, Closes(c, stderr))
  BY DEF Closes, Follows, Awaited, Live, ChildType, ChildErrors
<1>3. Follows(c, FailsToSpawn(c))
  BY DEF FailsToSpawn, Follows, Awaited, Live, ChildType, ChildErrors
<1>4. Ended(c) \in ChildType /\ ~Awaited(Ended(c))
  BY SpawnedType DEF Ended, Spawned, Awaited, Live, ChildType
<1> QED BY <1>1, <1>2, <1>3, <1>4
-----------------------------------------------------------------------------
(***************************************************************************)
(* All the children.  A task has at most one that the call awaits, that of *)
(* its current attempt; Told: every awaited one was asked to stop.         *)
(***************************************************************************)
Children == [Tasks -> [Attempts -> ChildType \cup {NoChild}]]

OnePerTask(ch, tr) ==
  \A t \in Tasks, a \in Attempts : Awaited(ch[t][a]) => tr[t] = a

Told(ch) ==
  \A t \in Tasks, a \in Attempts : Awaited(ch[t][a]) => ch[t][a].interrupted

LEMMA ChildrenFollow ==
  ASSUME NEW ch \in Children, NEW ch2, NEW tr, OnePerTask(ch, tr),
         \A t \in Tasks, a \in Attempts :
           ch2[t][a] = ch[t][a] \/ Follows(ch[t][a], ch2[t][a])
  PROVE  OnePerTask(ch2, tr) /\ (Told(ch) => Told(ch2))
<1>1. ASSUME NEW t \in Tasks, NEW a \in Attempts, Awaited(ch2[t][a])
      PROVE  /\ Awaited(ch[t][a])
             /\ ch[t][a].interrupted => ch2[t][a].interrupted
  BY <1>1 DEF Follows
<1> QED BY <1>1 DEF OnePerTask, Told

LEMMA OneChildFollows ==
  ASSUME NEW ch \in Children, NEW tr, OnePerTask(ch, tr),
         NEW t \in Tasks, NEW a \in Attempts, NEW d,
         Follows(ch[t][a], d) \/ (d \in ChildType \cup {NoChild} /\ ~Awaited(d))
  PROVE  /\ [ch EXCEPT ![t][a] = d] \in Children
         /\ OnePerTask([ch EXCEPT ![t][a] = d], tr)
         /\ Told(ch) => Told([ch EXCEPT ![t][a] = d])
<1> DEFINE ch2 == [ch EXCEPT ![t][a] = d]
<1>1. d \in ChildType \cup {NoChild}
  BY DEF Follows
<1>2. ch2 \in Children
  BY <1>1 DEF Children
<1>3. ASSUME NEW u \in Tasks, NEW b \in Attempts
      PROVE  ch2[u][b] = IF u = t /\ b = a THEN d ELSE ch[u][b]
  BY DEF Children
<1> HIDE DEF ch2
<1>4. ASSUME NEW u \in Tasks, NEW b \in Attempts, Awaited(ch2[u][b])
      PROVE  /\ Awaited(ch[u][b])
             /\ ch[u][b].interrupted => ch2[u][b].interrupted
  BY <1>3, <1>4 DEF Follows
<1>5. OnePerTask(ch2, tr) /\ (Told(ch) => Told(ch2))
  BY <1>4 DEF OnePerTask, Told
<1> QED BY <1>2, <1>5 DEF ch2
-----------------------------------------------------------------------------
(***************************************************************************)
(* The invariant.  Only tasks of the step that is awaited run, and after   *)
(* the call was moved to the background every running task was told; a     *)
(* task that runs has been taken, which is why a new one has no child yet. *)
(***************************************************************************)
GroupType == [n : 0..MaxWidth, next : 1..(MaxWidth + 1), aborted : BOOLEAN,
              out : [Slots -> Kinds \cup {"none"}]]

ShapeInv ==
  /\ plan \in Plans
  /\ stepIndex \in 1..(Len(plan.steps) + 1) /\ flatIndex \in Nat
  /\ group \in GroupType
  /\ child \in Children
  /\ tries \in [Tasks -> 0..MaxAttempts]

PlaceInv ==
  /\ flatIndex <= (stepIndex - 1) * MaxWidth
  /\ pc = "tasks" => stepIndex <= Len(plan.steps)
  /\ \A t \in Running : pc = "tasks" /\ t < flatIndex + group.next

ToldInv == rootDetached => Running \subseteq stop /\ Told(child)

Inv == ShapeInv /\ PlaceInv /\ OnePerTask(child, tries) /\ ToldInv

LEMMA PlanFacts ==
  ASSUME NEW p \in Plans
  PROVE  /\ Len(p.steps) \in Nat /\ Len(p.steps) >= 1
         /\ Len(p.steps) <= MaxSteps
         /\ p.models \in Attempts
         /\ \A k \in 1..Len(p.steps) : p.steps[k].n \in Slots
         /\ MaxSteps \in Nat /\ MaxWidth \in Nat /\ MaxAttempts \in Nat
         /\ MaxWidth >= 1 /\ MaxAttempts >= 1
<1>1. /\ p.steps \in Seq(StepType) /\ Len(p.steps) \in 1..MaxSteps
      /\ p.models \in 1..MaxAttempts
  BY PlansAssumption
<1>2. ASSUME NEW k \in 1..Len(p.steps) PROVE p.steps[k].n \in 1..MaxWidth
  <2>1. p.steps[k] \in StepType
    BY <1>1
  <2> QED BY <2>1 DEF StepType
<1> QED BY <1>1, <1>2, BoundsAssumption DEF Slots, Attempts

LEMMA Groups ==
  /\ NoGroup \in GroupType
  /\ \A g \in GroupType, n \in 0..MaxWidth : [g EXCEPT !.n = n] \in GroupType
<1>1. NoGroup \in GroupType
  BY BoundsAssumption DEF NoGroup, GroupType
<1>2. ASSUME NEW g \in GroupType, NEW n \in 0..MaxWidth
      PROVE  [g EXCEPT !.n = n] \in GroupType
  BY DEF GroupType
<1> QED BY <1>1, <1>2

LEMMA InitInv == Init => Inv
<1> SUFFICES ASSUME Init PROVE Inv OBVIOUS
<1>1. plan \in Plans
  BY DEF Init
<1>2. Len(plan.steps) \in Nat /\ Len(plan.steps) >= 1 /\ MaxWidth \in Nat
      /\ MaxAttempts \in Nat
  BY <1>1, PlanFacts
<1>3. stepIndex \in 1..(Len(plan.steps) + 1) /\ flatIndex \in Nat
  BY <1>2 DEF Init
<1>4. group \in GroupType
  BY Groups DEF Init
<1>5. child \in Children /\ tries \in [Tasks -> 0..MaxAttempts]
  BY <1>2 DEF Init, Children
<1>6. PlaceInv
  BY <1>2 DEF Init, PlaceInv, Running
<1>7. OnePerTask(child, tries) /\ ToldInv
  BY SpawnedType DEF Init, OnePerTask, ToldInv
<1> QED BY <1>1, <1>3, <1>4, <1>5, <1>6, <1>7 DEF Inv, ShapeInv

(***************************************************************************)
(* The number of a task of the step that is awaited.                       *)
(***************************************************************************)
LEMMA TaskNumbers ==
  ASSUME ShapeInv, PlaceInv, pc = "tasks", NEW i \in Slots
  PROVE  Task(i) \in Tasks /\ Task(i) \in Nat
<1>1. Len(plan.steps) <= MaxSteps /\ MaxSteps \in Nat /\ MaxWidth \in Nat
  BY PlanFacts DEF ShapeInv
<1>2. stepIndex \in Nat /\ stepIndex <= MaxSteps
  BY <1>1, PlanFacts DEF ShapeInv, PlaceInv
<1>3. stepIndex * MaxWidth <= MaxSteps * MaxWidth
  BY <1>1, <1>2
<1>4. (stepIndex - 1) * MaxWidth = stepIndex * MaxWidth - MaxWidth
  BY <1>1, <1>2
<1>5. flatIndex \in Nat /\ flatIndex <= (stepIndex - 1) * MaxWidth
  BY <1>1 DEF ShapeInv, PlaceInv
<1>6. i \in Nat /\ 1 <= i /\ i <= MaxWidth
  BY <1>1 DEF Slots
<1>7. stepIndex * MaxWidth \in Nat /\ MaxSteps * MaxWidth \in Nat
  BY <1>1, <1>2
<1> QED BY <1>3, <1>4, <1>5, <1>6, <1>7, <1>1 DEF Task, Tasks
-----------------------------------------------------------------------------
(***************************************************************************)
(* The loop over the steps: nothing runs, no child changes.                *)
(***************************************************************************)
LEMMA LoopKeepsInv ==
  ASSUME Inv, \/ StepBegins \/ StepCannotBegin \/ DynamicStepIsEmpty
              \/ ChainEnds \/ SingleEnds \/ ParallelEnds \/ ChainStops
              \/ ChainGoesOn
  PROVE  Inv'
<1> USE DEF Inv
<1>1. /\ UNCHANGED <<plan, child, tries, stop, rootDetached>>
      /\ Running = {}
  <2>1. pc = "top" => Running = {}
    BY DEF PlaceInv
  <2> QED BY <2>1 DEF StepBegins, StepCannotBegin, DynamicStepIsEmpty,
          ChainEnds, AtTop, SingleEnds, ParallelEnds, ChainStops, ChainGoesOn,
          StepEnds, GroupDone
<1>2. Running' = {}
  BY <1>1 DEF Running
<1>3. OnePerTask(child, tries)' /\ ToldInv'
  BY <1>1, <1>2 DEF ToldInv
<1>4. /\ Len(plan.steps) \in Nat /\ MaxWidth \in Nat /\ MaxWidth >= 1
      /\ \A k \in 1..Len(plan.steps) : plan.steps[k].n \in Slots
  BY PlanFacts DEF ShapeInv
<1>5. CASE StepBegins
  <2>1. stepIndex <= Len(plan.steps) /\ UNCHANGED <<stepIndex, flatIndex>>
    BY <1>5 DEF StepBegins, AtTop
  <2>2. Step.n \in 1..MaxWidth
    BY <1>4, <2>1 DEF Step, Slots, ShapeInv
  <2>3. PICK n \in 1..MaxWidth : group' = [NoGroup EXCEPT !.n = n]
    BY <1>4, <1>5, <2>2 DEF StepBegins
  <2>4. group' \in GroupType
    BY <1>4, <2>3, Groups
  <2>5. ShapeInv'
    BY <1>1, <2>1, <2>4 DEF ShapeInv
  <2>6. PlaceInv'
    BY <1>1, <1>2, <2>1 DEF PlaceInv
  <2> QED BY <1>3, <2>5, <2>6
<1>6. CASE DynamicStepIsEmpty
  <2>1. /\ pc = "top" /\ pc' = pc /\ UNCHANGED <<flatIndex, group>>
        /\ stepIndex <= Len(plan.steps) /\ stepIndex' = stepIndex + 1
    BY <1>6 DEF DynamicStepIsEmpty, AtTop
  <2>2. ShapeInv'
    BY <1>1, <1>4, <2>1 DEF ShapeInv
  <2>3. flatIndex <= ((stepIndex + 1) - 1) * MaxWidth
    <3>1. stepIndex \in Nat /\ flatIndex \in Nat
      BY <1>4 DEF ShapeInv
    <3>2. (stepIndex - 1) * MaxWidth + MaxWidth = stepIndex * MaxWidth
      BY <1>4, <3>1
    <3>3. /\ flatIndex <= (stepIndex - 1) * MaxWidth
          /\ (stepIndex - 1) * MaxWidth \in Int /\ stepIndex * MaxWidth \in Int
      BY <1>4, <3>1 DEF PlaceInv
    <3>4. flatIndex <= stepIndex * MaxWidth
      BY <1>4, <3>1, <3>2, <3>3
    <3> QED BY <3>1, <3>4
  <2>4. PlaceInv'
    BY <1>1, <1>2, <2>1, <2>3 DEF PlaceInv
  <2> QED BY <1>3, <2>2, <2>4
<1>7. CASE ChainGoesOn
  <2>1. /\ pc = "tasks" /\ pc' = "top" /\ group' = NoGroup
        /\ stepIndex' = stepIndex + 1 /\ flatIndex' = flatIndex + group.n
    BY <1>7 DEF ChainGoesOn, StepEnds
  <2>2. stepIndex <= Len(plan.steps) /\ stepIndex \in Nat /\ flatIndex \in Nat
        /\ group.n \in Nat /\ group.n <= MaxWidth
    BY <1>4, <2>1 DEF ShapeInv, PlaceInv, GroupType
  <2>3. group' \in GroupType
    BY <2>1, Groups
  <2>4. ShapeInv'
    BY <1>1, <1>4, <2>1, <2>2, <2>3 DEF ShapeInv
  <2>5. flatIndex' <= (stepIndex' - 1) * MaxWidth
    <3>1. (stepIndex - 1) * MaxWidth + MaxWidth = stepIndex * MaxWidth
      BY <1>4, <2>2
    <3>2. /\ flatIndex <= (stepIndex - 1) * MaxWidth
          /\ (stepIndex - 1) * MaxWidth \in Int /\ stepIndex * MaxWidth \in Int
      BY <1>4, <2>2 DEF PlaceInv
    <3>3. flatIndex + group.n <= stepIndex * MaxWidth
      BY <1>4, <2>2, <3>1, <3>2
    <3>4. (stepIndex + 1) - 1 = stepIndex
      BY <2>2
    <3> QED BY <2>1, <3>3, <3>4
  <2>6. PlaceInv'
    BY <1>1, <1>2, <2>1, <2>5 DEF PlaceInv
  <2> QED BY <1>3, <2>4, <2>6
<1>8. CASE \/ StepCannotBegin \/ ChainEnds \/ SingleEnds \/ ParallelEnds
           \/ ChainStops
  <2>1. pc' = "returned" /\ UNCHANGED <<stepIndex, flatIndex, group>>
    BY <1>8 DEF StepCannotBegin, ChainEnds, SingleEnds, ParallelEnds,
       ChainStops, Return
  <2>2. ShapeInv'
    BY <1>1, <2>1 DEF ShapeInv
  <2>3. PlaceInv'
    BY <1>1, <1>2, <2>1 DEF PlaceInv
  <2> QED BY <1>3, <2>2, <2>3
<1> QED BY <1>5, <1>6, <1>7, <1>8
-----------------------------------------------------------------------------
(***************************************************************************)
(* The tasks.  A task that is taken is not running and so has no awaited   *)
(* child; its first attempt is interrupted if the call was moved.          *)
(***************************************************************************)
LEMMA AttemptFacts ==
  ASSUME NEW t, NEW stopped
  PROVE  /\ Attempt(t, stopped) \in ChildType
         /\ t \in stopped => Attempt(t, stopped).interrupted
<1>1. Spawned \in ChildType /\ Awaited(Spawned)
  BY SpawnedType DEF Spawned, Awaited, Live
<1>2. /\ InterruptChild(Spawned) \in ChildType
      /\ Awaited(InterruptChild(Spawned)) => InterruptChild(Spawned).interrupted
  BY <1>1, RequestsFollow DEF Follows
<1>3. Awaited(InterruptChild(Spawned))
  BY <1>1 DEF InterruptChild, Spawned, Awaited, Live
<1> QED BY <1>1, <1>2, <1>3 DEF Attempt

LEMMA NewAttempt ==
  ASSUME NEW ch \in Children, NEW tr \in [Tasks -> 0..MaxAttempts],
         OnePerTask(ch, tr), NEW t \in Tasks, NEW a \in Attempts,
         \A b \in Attempts : ~Awaited(ch[t][b]), NEW st
  PROVE  LET ch2 == [ch EXCEPT ![t][a] = Attempt(t, st)]
             tr2 == [tr EXCEPT ![t] = a]
         IN /\ ch2 \in Children /\ tr2 \in [Tasks -> 0..MaxAttempts]
            /\ OnePerTask(ch2, tr2)
            /\ t \in st /\ Told(ch) => Told(ch2)
<1> DEFINE d == Attempt(t, st)
           ch2 == [ch EXCEPT ![t][a] = d]
           tr2 == [tr EXCEPT ![t] = a]
<1>1. d \in ChildType /\ (t \in st => d.interrupted)
  BY AttemptFacts
<1> HIDE DEF d
<1>2. ch2 \in Children
  BY <1>1 DEF Children
<1>3. tr2 \in [Tasks -> 0..MaxAttempts]
  BY BoundsAssumption DEF Attempts
<1>4. \A u \in Tasks, b \in Attempts :
        ch2[u][b] = IF u = t /\ b = a THEN d ELSE ch[u][b]
  BY DEF Children
<1>5. \A u \in Tasks : tr2[u] = IF u = t THEN a ELSE tr[u]
  OBVIOUS
<1> HIDE DEF ch2, tr2
<1>6. OnePerTask(ch2, tr2)
  BY <1>4, <1>5 DEF OnePerTask
<1>7. t \in st /\ Told(ch) => Told(ch2)
  BY <1>1, <1>4 DEF Told
<1> QED BY <1>2, <1>3, <1>6, <1>7 DEF d, ch2, tr2

LEMMA TaskBeginsKeepsInv ==
  ASSUME Inv, NEW i \in Slots, TaskBegins(i)
  PROVE  Inv'
<1> USE DEF Inv
<1>1. /\ pc = "tasks" /\ i = group.next
      /\ UNCHANGED <<plan, pc, stepIndex, flatIndex, rootDetached>>
      /\ group.next <= group.n /\ group.next' = group.next + 1
      /\ group' \in GroupType
  <2>1. /\ pc = "tasks" /\ i = group.next /\ group.next <= group.n
        /\ UNCHANGED <<plan, pc, stepIndex, flatIndex, rootDetached>>
    BY DEF TaskBegins, OfTasks, StartTask, SkipTask, WorkerFree
  <2>2. /\ group \in GroupType /\ MaxWidth \in Nat /\ group.next \in Nat
        /\ group.next >= 1 /\ group.next <= MaxWidth
    BY <2>1, BoundsAssumption DEF ShapeInv, GroupType, Slots
  <2>3. \/ group' = [group EXCEPT !.next = @ + 1]
        \/ group' = [group EXCEPT !.next = @ + 1, !.out[i] = "skipped"]
    BY DEF TaskBegins, StartTask, SkipTask
  <2>4. [group EXCEPT !.next = @ + 1] \in GroupType
        /\ [group EXCEPT !.next = @ + 1].next = group.next + 1
    BY <2>2 DEF GroupType
  <2>5. /\ [group EXCEPT !.next = @ + 1, !.out[i] = "skipped"] \in GroupType
        /\ [group EXCEPT !.next = @ + 1, !.out[i] = "skipped"].next
             = group.next + 1
    <3> DEFINE o == [group.out EXCEPT ![i] = "skipped"]
    <3>1. o \in [Slots -> Kinds \cup {"none"}]
      BY <2>2 DEF GroupType, Kinds
    <3>2. [group EXCEPT !.next = @ + 1, !.out[i] = "skipped"]
            = [group EXCEPT !.next = @ + 1, !.out = o]
      BY <2>2 DEF GroupType
    <3> DEFINE m == group.next + 1
    <3>3. m \in 1..(MaxWidth + 1)
      BY <2>2
    <3> HIDE DEF o, m
    <3>4. /\ [group EXCEPT !.next = m, !.out = o] \in GroupType
          /\ [group EXCEPT !.next = m, !.out = o].next = m
      BY <2>2, <3>1, <3>3 DEF GroupType
    <3> QED BY <3>2, <3>4 DEF m
  <2> QED BY <2>1, <2>2, <2>3, <2>4, <2>5
<1>2. Task(i) \in Tasks /\ Task(i) \in Nat
  BY <1>1, TaskNumbers
<1>3. Task(i) \notin Running /\ Task(i) < (flatIndex + group.next) + 1
  BY <1>1, <1>2 DEF PlaceInv, Task
<1>4. CASE StartTask(i)
  <2>1. /\ child' = [child EXCEPT ![Task(i)][1] = Attempt(Task(i), stop')]
        /\ tries' = [tries EXCEPT ![Task(i)] = 1]
        /\ stop' = IF rootDetached THEN stop \cup {Task(i)} ELSE stop
    BY <1>4 DEF StartTask
  <2>2. \A b \in Attempts : ~Awaited(child[Task(i)][b])
    BY <1>2, <1>3 DEF Running, OnePerTask, Attempts, ShapeInv
  <2>3. 1 \in Attempts
    BY BoundsAssumption DEF Attempts
  <2>4. /\ child' \in Children /\ tries' \in [Tasks -> 0..MaxAttempts]
        /\ OnePerTask(child', tries')
        /\ Task(i) \in stop' /\ Told(child) => Told(child')
    BY <1>2, <2>1, <2>2, <2>3, NewAttempt DEF ShapeInv
  <2>5. Running' = Running \cup {Task(i)}
    BY <1>2, <2>1 DEF Running, ShapeInv
  <2>6. ShapeInv'
    BY <1>1, <2>4 DEF ShapeInv
  <2>7. PlaceInv'
    <3>1. ASSUME NEW t \in Running' PROVE t < flatIndex + (group.next + 1)
      <4>1. flatIndex \in Nat /\ group.next \in Nat
        BY BoundsAssumption DEF ShapeInv, GroupType
      <4>2. CASE t = Task(i)
        BY <1>3, <4>1, <4>2 DEF Task
      <4>3. CASE t \in Running
        <5>1. t < flatIndex + group.next /\ t \in Nat
          BY <4>3, BoundsAssumption DEF PlaceInv, Running, Tasks
        <5> QED BY <4>1, <5>1
      <4> QED BY <2>5, <4>2, <4>3
    <3> QED BY <1>1, <3>1 DEF PlaceInv
  <2>8. ToldInv'
    BY <1>1, <2>1, <2>4, <2>5 DEF ToldInv
  <2> QED BY <2>4, <2>6, <2>7, <2>8
<1>5. CASE SkipTask(i)
  <2>1. UNCHANGED <<child, tries, stop>>
    BY <1>5 DEF SkipTask
  <2>2. Running' = Running
    BY <2>1 DEF Running
  <2>3. ShapeInv' /\ OnePerTask(child, tries)' /\ ToldInv'
    BY <1>1, <2>1, <2>2 DEF ShapeInv, ToldInv
  <2>4. ASSUME NEW t \in Running PROVE t < flatIndex + (group.next + 1)
    <3>1. /\ t < flatIndex + group.next /\ t \in Nat
          /\ flatIndex \in Nat /\ group.next \in Nat
      BY BoundsAssumption DEF PlaceInv, Running, Tasks, ShapeInv, GroupType
    <3> QED BY <3>1
  <2>5. PlaceInv'
    BY <1>1, <2>2, <2>4 DEF PlaceInv
  <2> QED BY <2>3, <2>5
<1> QED BY <1>4, <1>5 DEF TaskBegins

LEMMA AttemptEndsKeepsInv ==
  ASSUME Inv, NEW t \in Tasks, AttemptEnds(t)
  PROVE  Inv'
<1> USE DEF Inv
<1>1. PICK r \in AttemptResults(t) : NextAttempt(t, r) \/ LastAttempt(t, r)
  BY DEF AttemptEnds
<1>2. /\ t \in Running /\ ~Awaited(child[t][tries[t]])
      /\ UNCHANGED <<plan, pc, stepIndex, flatIndex, rootDetached, stop>>
  BY <1>1 DEF AttemptEnds, OfTasks, Current, NextAttempt, LastAttempt
<1>3. /\ tries[t] \in Attempts /\ child \in Children
      /\ tries \in [Tasks -> 0..MaxAttempts]
  BY <1>2 DEF Running, Attempts, ShapeInv
<1> DEFINE d == Left(child[t][tries[t]])
           ch == [child EXCEPT ![t][tries[t]] = d]
<1>4. d \in ChildType \cup {NoChild} /\ ~Awaited(d)
  BY <1>2, <1>3, SpawnedType DEF Left, Children
<1> HIDE DEF d
<1>5. ch \in Children /\ OnePerTask(ch, tries) /\ (Told(child) => Told(ch))
  BY <1>3, <1>4, OneChildFollows
<1>6. \A b \in Attempts : ~Awaited(ch[t][b])
  BY <1>3, <1>4, <1>5 DEF OnePerTask, Children
<1>7. CASE NextAttempt(t, r)
  <2>1. /\ tries[t] < plan.models /\ group' = group
        /\ tries' = [tries EXCEPT ![t] = @ + 1]
        /\ child' = [child EXCEPT ![t][tries[t]] = Left(@),
                                  ![t][tries[t] + 1] = Attempt(t, stop)]
    BY <1>7 DEF NextAttempt
  <2>2. tries[t] + 1 \in Attempts
    BY <1>3, <2>1, PlanFacts DEF ShapeInv, Attempts
  <2>3. /\ tries' = [tries EXCEPT ![t] = tries[t] + 1]
        /\ child' = [ch EXCEPT ![t][tries[t] + 1] = Attempt(t, stop)]
    BY <1>3, <2>1 DEF d
  <2> HIDE DEF ch
  <2>4. /\ child' \in Children /\ tries' \in [Tasks -> 0..MaxAttempts]
        /\ OnePerTask(child', tries')
        /\ t \in stop /\ Told(ch) => Told(child')
    BY <1>3, <1>5, <1>6, <2>2, <2>3, NewAttempt
  <2>5. Running' = Running
    BY <1>2, <1>3, <2>2, <2>3 DEF Running, Attempts
  <2>6. ShapeInv' /\ PlaceInv'
    BY <1>2, <2>1, <2>4, <2>5 DEF ShapeInv, PlaceInv
  <2>7. ToldInv'
    BY <1>2, <1>5, <2>4, <2>5 DEF ToldInv
  <2> QED BY <2>4, <2>6, <2>7
<1>8. CASE LastAttempt(t, r)
  <2>1. /\ tries' = [tries EXCEPT ![t] = 0] /\ child' = ch
        /\ group' = [group EXCEPT !.out[t - flatIndex] = Kind(r),
                       !.aborted = @ \/ (r.exit # 0 /\ plan.failFast)]
    BY <1>8 DEF LastAttempt, d
  <2> HIDE DEF ch
  <2>2. Running' \subseteq Running /\ tries' \in [Tasks -> 0..MaxAttempts]
    BY <1>3, <2>1, BoundsAssumption DEF Running
  <2>3. OnePerTask(child', tries')
    BY <1>3, <1>5, <1>6, <2>1 DEF OnePerTask
  <2>4. group' \in GroupType /\ group'.next = group.next
    <3> DEFINE o == [group.out EXCEPT ![t - flatIndex] = Kind(r)]
               b == group.aborted \/ (r.exit # 0 /\ plan.failFast)
    <3>1. Kind(r) \in Kinds
      BY DEF Kind, Kinds
    <3>2. group \in GroupType /\ group.out \in [Slots -> Kinds \cup {"none"}]
      BY DEF ShapeInv, GroupType
    <3>3. o \in [Slots -> Kinds \cup {"none"}] /\ b \in BOOLEAN
      BY <3>1, <3>2
    <3>4. group' = [group EXCEPT !.out = o, !.aborted = b]
      BY <2>1, <3>2 DEF GroupType
    <3> HIDE DEF o, b
    <3>5. [group EXCEPT !.out = o, !.aborted = b] \in GroupType
          /\ [group EXCEPT !.out = o, !.aborted = b].next = group.next
      BY <3>2, <3>3 DEF GroupType
    <3> QED BY <3>4, <3>5
  <2>5. ShapeInv' /\ PlaceInv'
    BY <1>2, <1>5, <2>1, <2>2, <2>4 DEF ShapeInv, PlaceInv
  <2>6. ToldInv'
    BY <1>2, <1>5, <2>1, <2>2 DEF ToldInv
  <2> QED BY <2>3, <2>5, <2>6
<1> QED BY <1>1, <1>7, <1>8
-----------------------------------------------------------------------------
(***************************************************************************)
(* Requests.  Each process is told what follows from what it was; the      *)
(* request that moves the call tells all that are awaited.                 *)
(***************************************************************************)
LEMMA RequestsKeepInv ==
  ASSUME Inv, Requests
  PROVE  Inv'
<1> USE DEF Inv
<1>1. /\ UNCHANGED <<plan, pc, stepIndex, flatIndex, group, tries>>
      /\ Running' = Running
  BY DEF Requests, Request, Interrupt, Abort, IntercomDetach, DetachRun,
     DetachChild, Running
<1>2. \A t \in Running : tries[t] \in Attempts
  BY DEF Running, Attempts, ShapeInv
<1>3. ASSUME NEW c \in ChildType \cup {NoChild}
      PROVE  /\ InterruptChild(c) = c \/ Follows(c, InterruptChild(c))
             /\ DetachForIntercom(c) = c \/ Follows(c, DetachForIntercom(c))
             /\ Awaited(InterruptChild(c)) => InterruptChild(c).interrupted
             /\ InterruptChild(c) \in ChildType \cup {NoChild}
             /\ DetachForIntercom(c) \in ChildType \cup {NoChild}
  <2>1. CASE c \in ChildType
    BY <2>1, RequestsFollow DEF Follows
  <2>2. CASE c = NoChild
    BY <2>2, SpawnedType DEF InterruptChild, DetachForIntercom
  <2> QED BY <2>1, <2>2
<1>4. ShapeInv /\ child' \in Children => ShapeInv'
  BY <1>1 DEF ShapeInv
<1>5. PlaceInv'
  BY <1>1 DEF PlaceInv
<1>6. \A t \in Tasks, a \in Attempts : child[t][a] \in ChildType \cup {NoChild}
  BY DEF ShapeInv, Children
<1>7. CASE Interrupt
  <2>1. /\ child' = [t \in Tasks |->
              IF t \in Running
              THEN [child[t] EXCEPT ![tries[t]] =
                      IF t = control.interrupt THEN InterruptChild(@) ELSE @]
              ELSE child[t]]
        /\ stop' = stop \cup {control.interrupt} /\ UNCHANGED rootDetached
    BY <1>7 DEF Interrupt, Tell
  <2>2. \A t \in Tasks, a \in Attempts :
          child'[t][a] = child[t][a]
          \/ child'[t][a] = InterruptChild(child[t][a])
    BY <1>2, <2>1 DEF ShapeInv, Children
  <2>3. child' \in Children
    BY <1>2, <1>3, <1>6, <2>1 DEF ShapeInv, Children
  <2>4. OnePerTask(child', tries) /\ (Told(child) => Told(child'))
    BY <1>3, <1>6, <2>2, ChildrenFollow DEF ShapeInv
  <2> QED BY <1>1, <1>4, <1>5, <2>1, <2>3, <2>4 DEF ToldInv
<1>8. CASE Abort \/ IntercomDetach
  <2>1. /\ child' = [t \in Tasks |->
              IF t \in Running
              THEN [child[t] EXCEPT ![tries[t]] = DetachForIntercom(@)]
              ELSE child[t]]
        /\ UNCHANGED <<stop, rootDetached>>
    BY <1>8 DEF Abort, IntercomDetach, Tell
  <2>2. \A t \in Tasks, a \in Attempts :
          child'[t][a] = child[t][a]
          \/ child'[t][a] = DetachForIntercom(child[t][a])
    BY <1>2, <2>1 DEF ShapeInv, Children
  <2>3. child' \in Children
    BY <1>2, <1>3, <1>6, <2>1 DEF ShapeInv, Children
  <2>4. OnePerTask(child', tries) /\ (Told(child) => Told(child'))
    BY <1>3, <1>6, <2>2, ChildrenFollow DEF ShapeInv
  <2> QED BY <1>1, <1>4, <1>5, <2>1, <2>3, <2>4 DEF ToldInv
<1>9. CASE DetachRun
  <2>1. /\ child' = [t \in Tasks |->
              IF t \in Running
              THEN [child[t] EXCEPT ![tries[t]] = InterruptChild(@)]
              ELSE child[t]]
        /\ stop' = stop \cup Running
    BY <1>9 DEF DetachRun, Tell
  <2>2. \A t \in Tasks, a \in Attempts :
          child'[t][a] = IF t \in Running /\ a = tries[t]
                         THEN InterruptChild(child[t][a]) ELSE child[t][a]
    BY <1>2, <2>1 DEF ShapeInv, Children
  <2>3. child' \in Children
    BY <1>2, <1>3, <1>6, <2>1 DEF ShapeInv, Children
  <2>4. OnePerTask(child', tries)
    BY <1>3, <1>6, <2>2, ChildrenFollow DEF ShapeInv
  <2>5. \A t \in Tasks, a \in Attempts :
          Awaited(child[t][a]) => t \in Running /\ a = tries[t]
    BY DEF OnePerTask, Running, Attempts
  <2>6. Told(child')
    BY <1>3, <1>6, <2>2, <2>5 DEF Told
  <2> QED BY <1>1, <1>4, <1>5, <2>1, <2>3, <2>4, <2>6 DEF ToldInv
<1>10. ASSUME NEW t \in Tasks, DetachChild(t) PROVE Inv'
  <2>1. /\ t \in Running /\ UNCHANGED <<stop, rootDetached>>
        /\ child' = [child EXCEPT ![t][tries[t]] = Detach(@, "background")]
    BY <1>10 DEF DetachChild
  <2>2. Awaited(child[t][tries[t]])
    BY <1>10, <2>1 DEF DetachChild, Request, Idle, Current
  <2>3. child[t][tries[t]] \in ChildType
    BY <1>2, <1>6, <2>1, <2>2, SpawnedType
  <2> DEFINE a == tries[t]
             d == Detach(child[t][a], "background")
  <2>4. Follows(child[t][a], d)
    BY <2>3, RequestsFollow
  <2>5. child' = [child EXCEPT ![t][a] = d]
    BY <1>2, <2>1 DEF ShapeInv, Children
  <2>6. a \in Attempts
    BY <1>2, <2>1
  <2> HIDE DEF a, d
  <2>7. child' \in Children /\ OnePerTask(child', tries)
        /\ (Told(child) => Told(child'))
    BY <2>4, <2>5, <2>6, OneChildFollows DEF ShapeInv
  <2> QED BY <1>1, <1>4, <1>5, <2>1, <2>7 DEF ToldInv
<1> QED BY <1>7, <1>8, <1>9, <1>10 DEF Requests
-----------------------------------------------------------------------------
(***************************************************************************)
(* The processes and their timers: one child changes, to what follows it.  *)
(***************************************************************************)
LEMMA ProcessesKeepInv ==
  ASSUME Inv, Processes
  PROVE  Inv'
<1> USE DEF Inv
<1>1. PICK t \in Tasks, a \in Attempts :
        \/ ChildWrites(t, a) \/ Heartbeat(t, a)
        \/ FinalDrainTimer(t, a) \/ TimeoutTimer(t, a)
        \/ ChildExits(t, a) \/ AwaitedCloses(t, a) \/ DetachedCloses(t, a)
        \/ SpawnFails(t, a)
  BY DEF Processes
<1> DEFINE c == child[t][a]
<1>2. OfChild(t, a)
  BY <1>1 DEF ChildWrites, Heartbeat, FinalDrainTimer, TimeoutTimer,
     ChildExits, AwaitedCloses, DetachedCloses, SpawnFails
<1>3. /\ UNCHANGED <<plan, pc, stepIndex, flatIndex, group, tries, stop,
                     rootDetached>>
      /\ Running' = Running /\ Live(c)
  BY <1>2 DEF OfChild, Running
<1>4. c \in ChildType
  <2>1. c \in ChildType \cup {NoChild}
    BY DEF ShapeInv, Children
  <2> QED BY <1>3, <2>1 DEF Live, NoChild
<1>5. \E d : /\ child' = [child EXCEPT ![t][a] = d]
             /\ Follows(c, d) \/ (d \in ChildType /\ ~Awaited(d))
  <2>1. CASE ChildWrites(t, a)
    BY <1>4, <2>1, WritesFollow DEF ChildWrites, Writes
  <2>2. CASE Heartbeat(t, a)
    BY <1>4, <2>2, FollowsItself DEF Heartbeat, Writes
  <2>3. CASE FinalDrainTimer(t, a) \/ TimeoutTimer(t, a)
    BY <1>4, <2>3, TimersFollow DEF FinalDrainTimer, TimeoutTimer, Becomes
  <2>4. CASE ChildExits(t, a)
    BY <1>3, <1>4, <2>4, EndsFollow DEF ChildExits, Becomes
  <2>5. CASE AwaitedCloses(t, a)
    BY <1>4, <2>5, EndsFollow DEF AwaitedCloses, Becomes
  <2>6. CASE DetachedCloses(t, a)
    <3>1. child' = [child EXCEPT ![t][a] = Ended(c)]
      BY <2>6 DEF DetachedCloses, ShapeInv, Children
    <3> QED BY <1>4, <3>1, EndsFollow
  <2>7. CASE SpawnFails(t, a)
    BY <1>4, <2>7, EndsFollow DEF SpawnFails, Becomes
  <2> QED BY <1>1, <2>1, <2>2, <2>3, <2>4, <2>5, <2>6, <2>7
<1>6. PICK d : /\ child' = [child EXCEPT ![t][a] = d]
               /\ Follows(c, d) \/ (d \in ChildType /\ ~Awaited(d))
  BY <1>5
<1>7. child' \in Children /\ OnePerTask(child', tries)
      /\ (Told(child) => Told(child'))
  BY <1>6, OneChildFollows DEF ShapeInv
<1>8. ShapeInv' /\ PlaceInv' /\ ToldInv'
  BY <1>3, <1>7 DEF ShapeInv, PlaceInv, ToldInv
<1> QED BY <1>3, <1>7, <1>8
-----------------------------------------------------------------------------
LEMMA StepKeepsInv == Inv /\ [Next]_vars => Inv'
<1> SUFFICES ASSUME Inv, [Next]_vars PROVE Inv' OBVIOUS
<1>1. CASE Continue
  <2>1. ASSUME NEW i \in Slots, TaskBegins(i) PROVE Inv'
    BY <2>1, TaskBeginsKeepsInv
  <2>2. ASSUME NEW t \in Tasks, AttemptEnds(t) PROVE Inv'
    BY <2>2, AttemptEndsKeepsInv
  <2> QED BY <1>1, <2>1, <2>2, LoopKeepsInv DEF Continue
<1>2. CASE UNCHANGED vars
  BY <1>2 DEF vars, Inv, ShapeInv, PlaceInv, ToldInv, Running
<1> QED BY <1>1, <1>2, RequestsKeepInv, ProcessesKeepInv DEF Next

\* Whatever the length of a call, the width of its groups and the number of
\* models it may try: once the call was started again in the background, every
\* child it still awaits was asked to stop (execution.ts, requestInterrupt).
THEOREM NoDoubleWork == Spec => []DetachLeavesNoDoubleWork
<1>1. Inv => DetachLeavesNoDoubleWork
  BY DEF Inv, ToldInv, Told, DetachLeavesNoDoubleWork
<1> QED BY <1>1, InitInv, StepKeepsInv, PTL DEF Spec

-----------------------------------------------------------------------------
(***************************************************************************)
(* The files of detached children.  Once a task has a result, either two   *)
(* of its attempts were let go to the background, or one was, which has    *)
(* closed, and the files agree.                                            *)
(***************************************************************************)
InBackground(c) == c # NoChild /\ c.detached = "background"

Agree(f) ==
  /\ f.status # "running"
  /\ f.status = "paused" <=> f.result = "paused"
  /\ f.result = "complete" => f.status = "complete"

Story(ch, f) ==
  f.result # "none" =>
    \E a \in Attempts :
      /\ InBackground(ch[a])
      /\ \/ \E b \in Attempts \ {a} : InBackground(ch[b])
         \/ ch[a].proc = "closed" /\ Agree(f)

FileType ==
  [status : {"none", "running", "complete", "failed", "paused"},
   result : {"none", "complete", "failed", "paused"}]

StoryInv ==
  /\ files \in [Tasks -> FileType]
  /\ \A t \in Tasks : Story(child[t], files[t])

\* What has not begun has no child: tasks not taken, attempts not made.
FreshInv ==
  /\ pc = "top" => group.next = 1
  /\ group.next <= group.n + 1
  /\ \A t \in Tasks : flatIndex + group.next <= t =>
       \A a \in Attempts : child[t][a] = NoChild
  /\ \A t \in Tasks, a \in Attempts :
       0 < tries[t] /\ tries[t] < a => child[t][a] = NoChild

\* A child in the background stays there, and stays closed.
Stays(c, d) ==
  InBackground(c) => InBackground(d) /\ (c.proc = "closed" => d.proc = "closed")

LEMMA StoryGoesOn ==
  ASSUME NEW ch, NEW ch2, NEW f, Story(ch, f), \A a \in Attempts : Stays(ch[a], ch2[a])
  PROVE  Story(ch2, f)
BY DEF Story, Stays

\* Another child joins the one in the background, or the one that is there goes
\* on while yet another is.
LEMMA StoryJoins ==
  ASSUME NEW ch, NEW ch2, NEW f, NEW f2, Story(ch, f), f2.result = f.result,
         \A a \in Attempts : Stays(ch[a], ch2[a]),
         NEW a \in Attempts, InBackground(ch2[a]), ch[a].proc # "closed"
  PROVE  Story(ch2, f2)
<1> SUFFICES ASSUME f.result # "none"
             PROVE  \E b \in Attempts : /\ InBackground(ch2[b])
                                        /\ \E e \in Attempts \ {b} : InBackground(ch2[e])
  BY DEF Story
<1>1. PICK b \in Attempts :
        /\ InBackground(ch[b])
        /\ (\E e \in Attempts \ {b} : InBackground(ch[e])) \/ ch[b].proc = "closed"
  BY DEF Story
<1>2. CASE a = b
  BY <1>1, <1>2 DEF Stays
<1>3. CASE a # b
  BY <1>1, <1>3 DEF Stays
<1> QED BY <1>2, <1>3

LEMMA ChildFacts ==
  \A c \in ChildType : c # NoChild /\ (InBackground(c) <=> c.detached = "background")
<1>1. \A c \in ChildType : c.proc # "none"
  BY DEF ChildType
<1>2. NoChild.proc = "none"
  BY DEF NoChild
<1> QED BY <1>1, <1>2 DEF InBackground

LEMMA ClosedFilesAgree ==
  ASSUME NEW c \in ChildType
  PROVE  LET f == [status |-> BackgroundStatus(c), result |-> BackgroundResult(c)]
         IN  f \in FileType /\ Agree(f)
BY DEF BackgroundStatus, BackgroundResult, BackgroundExit, FileType, Agree

\* The streams, timers and the end of a process do not detach it.
LEMMA HandlersDetachNobody ==
  ASSUME NEW c \in ChildType
  PROVE  /\ AssistantFails(c).detached = c.detached
         /\ IntercomStarts(c).detached = c.detached
         /\ \A failed, hasText \in BOOLEAN :
              AssistantStops(c, failed, hasText).detached = c.detached
         /\ FinalDrainFires(c).detached = c.detached
         /\ HardKillFires(c).detached = c.detached
         /\ TimeoutFires(c).detached = c.detached
         /\ TimeoutKillFires(c).detached = c.detached
         /\ \A code : Exits(c, code).detached = c.detached
         /\ \A stderr : Closes(c, stderr).detached = c.detached
         /\ FailsToSpawn(c).detached = c.detached
         /\ Ended(c).detached = c.detached /\ Ended(c).proc = "closed"
BY DEF ChildType, AssistantFails, IntercomStarts, AssistantStops, StartFinalDrain,
   FinalDrainFires, HardKillFires, TimeoutFires, TimeoutKillFires, Exits, Closes,
   FailsToSpawn, Ended, Spawned
-----------------------------------------------------------------------------
LEMMA InitStory == Init => StoryInv /\ FreshInv
BY BoundsAssumption DEF Init, StoryInv, FreshInv, FileType, Story, NoGroup, Attempts, Tasks

LEMMA LoopKeepsStory ==
  ASSUME Inv, StoryInv, FreshInv,
         \/ StepBegins \/ StepCannotBegin \/ DynamicStepIsEmpty
         \/ ChainEnds \/ SingleEnds \/ ParallelEnds \/ ChainStops
         \/ ChainGoesOn
  PROVE  StoryInv' /\ FreshInv'
<1>1. UNCHANGED <<child, files, tries>>
  BY DEF StepBegins, StepCannotBegin, DynamicStepIsEmpty, ChainEnds, AtTop, SingleEnds,
     ParallelEnds, ChainStops, ChainGoesOn, StepEnds
<1>2. StoryInv'
  BY <1>1 DEF StoryInv
<1>3. /\ flatIndex \in Nat /\ group \in GroupType /\ group.next \in Nat /\ group.n \in Nat
      /\ MaxWidth \in Nat
  BY BoundsAssumption DEF Inv, ShapeInv, GroupType
<1>4. CASE StepBegins
  <2>1. pc = "top" /\ pc' = "tasks" /\ flatIndex' = flatIndex
    BY <1>4 DEF StepBegins, AtTop
  <2>2. \E n \in 1..MaxWidth : group' = [NoGroup EXCEPT !.n = n]
    <3>1. Step.n \in 1..MaxWidth
      <4>1. stepIndex \in 1..Len(plan.steps)
        BY <1>4, PlanFacts DEF StepBegins, AtTop, Inv, ShapeInv
      <4> QED BY <4>1, PlanFacts DEF Step, Slots, Inv, ShapeInv
    <3> QED BY <1>3, <1>4, <3>1 DEF StepBegins
  <2>3. group'.next = 1 /\ group'.n \in Nat
    BY <2>2 DEF NoGroup
  <2> QED BY <1>1, <1>2, <1>3, <2>1, <2>3 DEF FreshInv
<1>5. CASE ChainGoesOn
  <2>1. /\ flatIndex' = flatIndex + group.n /\ group' = NoGroup
        /\ group.next > group.n
    BY <1>5 DEF ChainGoesOn, StepEnds, GroupDone
  <2>2. group.next = group.n + 1
    BY <1>3, <2>1 DEF FreshInv
  <2>3. group'.next = 1 /\ group'.n = 0
    BY <2>1 DEF NoGroup
  <2>4. flatIndex' + group'.next = flatIndex + group.next
    BY <1>3, <2>1, <2>2, <2>3
  <2> QED BY <1>1, <1>2, <2>3, <2>4 DEF FreshInv
<1>6. CASE \/ StepCannotBegin \/ DynamicStepIsEmpty \/ ChainEnds \/ SingleEnds
           \/ ParallelEnds \/ ChainStops
  <2>1. UNCHANGED <<group, flatIndex>> /\ (pc' = "top" => pc = "top")
    BY <1>6 DEF StepCannotBegin, DynamicStepIsEmpty, ChainEnds, AtTop, SingleEnds,
       ParallelEnds, ChainStops, Return
  <2> QED BY <1>1, <1>2, <2>1 DEF FreshInv
<1> QED BY <1>4, <1>5, <1>6

\* One child changes, and the files of its task may.
LEMMA OneChildsStory ==
  ASSUME NEW ch \in Children, NEW fs, \A t \in Tasks : Story(ch[t], fs[t]),
         NEW t \in Tasks, NEW a \in Attempts, NEW d, Stays(ch[t][a], d)
  PROVE  \A u \in Tasks : Story([ch EXCEPT ![t][a] = d][u], fs[u])
<1> DEFINE ch2 == [ch EXCEPT ![t][a] = d]
<1>1. \A u \in Tasks, b \in Attempts :
        ch2[u][b] = IF u = t /\ b = a THEN d ELSE ch[u][b]
  BY DEF Children
<1> HIDE DEF ch2
<1>2. \A u \in Tasks, b \in Attempts : Stays(ch[u][b], ch2[u][b])
  BY <1>1 DEF Stays
<1>3. \A u \in Tasks : Story(ch2[u], fs[u])
  BY <1>2, StoryGoesOn
<1> QED BY <1>3 DEF ch2

LEMMA TaskBeginsKeepsStory ==
  ASSUME Inv, StoryInv, FreshInv, NEW i \in Slots, TaskBegins(i)
  PROVE  StoryInv' /\ FreshInv'
<1>1. /\ pc = "tasks" /\ i = group.next /\ UNCHANGED <<pc, flatIndex, files>>
      /\ group.next <= group.n
  BY DEF TaskBegins, OfTasks, StartTask, SkipTask, WorkerFree
<1>2. /\ group'.next = group.next + 1 /\ group'.n = group.n
      /\ group.next \in Nat /\ group.n \in Nat /\ flatIndex \in Nat
  <2>1. group \in GroupType /\ flatIndex \in Nat
    BY DEF Inv, ShapeInv
  <2>2. group.next \in Nat /\ group.n \in Nat
    BY <2>1, BoundsAssumption DEF GroupType
  <2>3. CASE StartTask(i)
    BY <2>1, <2>2, <2>3 DEF StartTask, GroupType
  <2>4. CASE SkipTask(i)
    <3> DEFINE o == [group.out EXCEPT ![i] = "skipped"]
    <3>1. group' = [group EXCEPT !.next = @ + 1, !.out = o]
      BY <2>1, <2>4 DEF SkipTask, GroupType
    <3> HIDE DEF o
    <3> QED BY <2>1, <3>1 DEF GroupType
  <2> QED BY <2>1, <2>2, <2>3, <2>4 DEF TaskBegins
<1>3. Task(i) \in Tasks /\ Task(i) = flatIndex + group.next /\ 1 \in Attempts
  BY <1>1, TaskNumbers, BoundsAssumption DEF Inv, Task, Attempts
<1>4. \A a \in Attempts : child[Task(i)][a] = NoChild
  BY <1>2, <1>3 DEF FreshInv
<1>5. /\ child \in Children /\ tries \in [Tasks -> 0..MaxAttempts]
  BY DEF Inv, ShapeInv
<1>6. /\ pc' # "top" /\ group'.next <= group'.n + 1
      /\ \A t \in Tasks : flatIndex' + group'.next <= t =>
           flatIndex + group.next <= t /\ t # Task(i)
  BY <1>1, <1>2, <1>3 DEF Tasks
<1>7. CASE SkipTask(i)
  <2>1. UNCHANGED <<child, tries>>
    BY <1>7 DEF SkipTask
  <2> QED BY <1>1, <1>6, <2>1 DEF StoryInv, FreshInv
<1>8. CASE StartTask(i)
  <2> DEFINE d == Attempt(Task(i), stop')
  <2>1. child' = [child EXCEPT ![Task(i)][1] = d] /\ tries' = [tries EXCEPT ![Task(i)] = 1]
    BY <1>8 DEF StartTask
  <2> HIDE DEF d
  <2>2. Stays(child[Task(i)][1], d)
    BY <1>3, <1>4 DEF Stays, InBackground
  <2>3. \A u \in Tasks : Story(child'[u], files[u])
    BY <1>3, <1>5, <2>1, <2>2, OneChildsStory DEF StoryInv
  <2>4. \A u \in Tasks, b \in Attempts :
          child'[u][b] = IF u = Task(i) /\ b = 1 THEN d ELSE child[u][b]
    BY <1>3, <1>5, <2>1 DEF Children
  <2>5. \A u \in Tasks : tries'[u] = IF u = Task(i) THEN 1 ELSE tries[u]
    BY <1>5, <2>1
  <2>6. \A u \in Tasks, b \in Attempts :
          0 < tries'[u] /\ tries'[u] < b => child'[u][b] = NoChild
    BY <1>4, <2>4, <2>5 DEF FreshInv
  <2>7. \A u \in Tasks : flatIndex' + group'.next <= u =>
          \A b \in Attempts : child'[u][b] = NoChild
    BY <1>6, <2>4 DEF FreshInv
  <2> QED BY <1>1, <1>6, <2>3, <2>6, <2>7 DEF StoryInv, FreshInv
<1> QED BY <1>7, <1>8 DEF TaskBegins

LEMMA AttemptEndsKeepsStory ==
  ASSUME Inv, StoryInv, FreshInv, NEW t \in Tasks, AttemptEnds(t)
  PROVE  StoryInv' /\ FreshInv'
<1>1. PICK r \in AttemptResults(t) : NextAttempt(t, r) \/ LastAttempt(t, r)
  BY DEF AttemptEnds
<1>2. t \in Running /\ UNCHANGED <<pc, flatIndex, files>> /\ pc = "tasks"
  BY DEF AttemptEnds, OfTasks
<1>3. /\ tries[t] \in Attempts /\ child \in Children /\ tries \in [Tasks -> 0..MaxAttempts]
      /\ t < flatIndex + group.next /\ flatIndex \in Nat /\ group \in GroupType
      /\ t \in Nat /\ group.next \in Nat /\ plan.models \in Attempts /\ MaxAttempts \in Nat
  <2>1. /\ child \in Children /\ tries \in [Tasks -> 0..MaxAttempts] /\ flatIndex \in Nat
        /\ group \in GroupType /\ plan \in Plans /\ t < flatIndex + group.next
    BY <1>2 DEF Inv, ShapeInv, PlaceInv
  <2>2. tries[t] \in Attempts /\ t \in Nat /\ group.next \in Nat
    BY <1>2, <2>1, BoundsAssumption DEF Running, Attempts, Tasks, GroupType
  <2> QED BY <2>1, <2>2, PlanFacts
<1> DEFINE c == child[t][tries[t]]
           d == Left(c)
           ch == [child EXCEPT ![t][tries[t]] = d]
<1>4. Stays(c, d)
  BY DEF Stays, InBackground, Left
<1>5. d \in ChildType \cup {NoChild}
  BY <1>3, SpawnedType DEF Left, Children
<1> HIDE DEF c, d
<1>6. ch \in Children /\ \A u \in Tasks : Story(ch[u], files[u])
  BY <1>3, <1>4, <1>5, OneChildsStory DEF StoryInv, Children, c
<1>7. \A u \in Tasks, b \in Attempts :
        ch[u][b] = IF u = t /\ b = tries[t] THEN d ELSE child[u][b]
  BY <1>3 DEF Children
<1> HIDE DEF ch
<1>8. CASE NextAttempt(t, r)
  <2> DEFINE e == Attempt(t, stop)
             k == tries[t] + 1
  <2>1. /\ tries[t] < plan.models /\ group' = group
        /\ tries' = [tries EXCEPT ![t] = k]
        /\ child' = [ch EXCEPT ![t][k] = e]
    BY <1>3, <1>8 DEF NextAttempt, ch, d, c
  <2>2. k \in Attempts /\ tries[t] < k
    BY <1>3, <2>1 DEF Attempts
  <2>3. \A b \in Attempts : k <= b => ch[t][b] = NoChild
    BY <1>3, <1>7 DEF FreshInv, Attempts
  <2> HIDE DEF e, k
  <2>4. Stays(ch[t][k], e)
    BY <2>2, <2>3 DEF Stays, InBackground, Attempts
  <2>5. \A u \in Tasks : Story(child'[u], files[u])
    BY <1>6, <2>1, <2>2, <2>4, OneChildsStory
  <2>6. \A u \in Tasks, b \in Attempts :
          child'[u][b] = IF u = t /\ b = k THEN e ELSE ch[u][b]
    BY <1>6, <2>1, <2>2 DEF Children
  <2>7. \A u \in Tasks : tries'[u] = IF u = t THEN k ELSE tries[u]
    BY <1>3, <2>1
  <2>8. \A u \in Tasks, b \in Attempts :
          0 < tries'[u] /\ tries'[u] < b => child'[u][b] = NoChild
    <3> SUFFICES ASSUME NEW u \in Tasks, NEW b \in Attempts, 0 < tries'[u], tries'[u] < b
                 PROVE  child'[u][b] = NoChild
      OBVIOUS
    <3>1. CASE u = t
      BY <2>2, <2>3, <2>6, <2>7, <3>1 DEF Attempts
    <3>2. CASE u # t
      BY <1>7, <2>6, <2>7, <3>2 DEF FreshInv
    <3> QED BY <3>1, <3>2
  <2>9. \A u \in Tasks : flatIndex + group.next <= u =>
          \A b \in Attempts : child'[u][b] = NoChild
    BY <1>3, <1>7, <2>6 DEF FreshInv, Tasks
  <2> QED BY <1>2, <2>1, <2>5, <2>8, <2>9 DEF StoryInv, FreshInv
<1>9. CASE LastAttempt(t, r)
  <2>1. tries' = [tries EXCEPT ![t] = 0] /\ child' = ch
    BY <1>9 DEF LastAttempt, ch, d, c
  <2>2. group'.next = group.next /\ group'.n = group.n
    <3> DEFINE o == [group.out EXCEPT ![t - flatIndex] = Kind(r)]
               b == group.aborted \/ (r.exit # 0 /\ plan.failFast)
    <3>1. group' = [group EXCEPT !.out = o, !.aborted = b]
      BY <1>3, <1>9 DEF LastAttempt, GroupType
    <3> HIDE DEF o, b
    <3> QED BY <1>3, <3>1 DEF GroupType
  <2>3. \A u \in Tasks : tries'[u] = IF u = t THEN 0 ELSE tries[u]
    BY <1>3, <2>1
  <2>4. \A u \in Tasks, b \in Attempts :
          0 < tries'[u] /\ tries'[u] < b => child'[u][b] = NoChild
    BY <1>7, <2>1, <2>3 DEF FreshInv
  <2>5. \A u \in Tasks : flatIndex + group.next <= u =>
          \A b \in Attempts : child'[u][b] = NoChild
    BY <1>3, <1>7, <2>1 DEF FreshInv, Tasks
  <2> QED BY <1>2, <1>6, <2>1, <2>2, <2>4, <2>5 DEF StoryInv, FreshInv
<1> QED BY <1>1, <1>8, <1>9

\* What has no child gets none from a request or a process.
LEMMA FreshGoesOn ==
  ASSUME FreshInv, UNCHANGED <<pc, flatIndex, group, tries>>,
         \A t \in Tasks, a \in Attempts : child[t][a] = NoChild => child'[t][a] = NoChild
  PROVE  FreshInv'
BY DEF FreshInv

\* A child of task t is told, writes or ends.
LEMMA ChildMoves ==
  ASSUME Inv, StoryInv, FreshInv, UNCHANGED <<pc, flatIndex, group, tries>>,
         NEW t \in Tasks, NEW a \in Attempts, Live(child[t][a]), NEW d \in ChildType,
         child' = [child EXCEPT ![t][a] = d], Stays(child[t][a], d),
         \/ files' = files
         \/ files' = [files EXCEPT ![t].status = "running"] /\ InBackground(d)
         \/ \E f \in FileType : files' = [files EXCEPT ![t] = f] /\ Agree(f)
                                /\ InBackground(d) /\ d.proc = "closed"
  PROVE  StoryInv' /\ FreshInv'
<1>1. child \in Children /\ files \in [Tasks -> FileType]
  BY DEF Inv, ShapeInv, StoryInv
<1>2. \A u \in Tasks, b \in Attempts :
        child'[u][b] = IF u = t /\ b = a THEN d ELSE child[u][b]
  BY <1>1 DEF Children
<1>3. FreshInv'
  <2>1. child[t][a] # NoChild
    BY DEF Live, NoChild
  <2> QED BY <1>2, <2>1, FreshGoesOn
<1>4. CASE files' = files
  <2>1. \A u \in Tasks : Story(child'[u], files[u])
    BY <1>1, OneChildsStory DEF StoryInv
  <2> QED BY <1>1, <1>3, <1>4, <2>1 DEF StoryInv
<1>5. CASE files' = [files EXCEPT ![t].status = "running"] /\ InBackground(d)
  <2>1. /\ files' \in [Tasks -> FileType]
        /\ files'[t].result = files[t].result
        /\ \A u \in Tasks : u # t => files'[u] = files[u]
    BY <1>1, <1>5 DEF FileType
  <2>2. Story(child'[t], files'[t])
    <3>1. \A b \in Attempts : Stays(child[t][b], child'[t][b])
      BY <1>2 DEF Stays
    <3>2. InBackground(child'[t][a]) /\ child[t][a].proc # "closed"
      BY <1>2, <1>5 DEF Live
    <3>3. Story(child[t], files[t])
      BY DEF StoryInv
    <3> QED BY <2>1, <3>1, <3>2, <3>3, StoryJoins
  <2>3. \A u \in Tasks : Story(child'[u], files[u])
    BY <1>1, OneChildsStory DEF StoryInv
  <2>4. \A u \in Tasks : Story(child'[u], files'[u])
    BY <2>1, <2>2, <2>3
  <2> QED BY <1>3, <2>1, <2>4 DEF StoryInv
<1>6. ASSUME NEW f \in FileType, files' = [files EXCEPT ![t] = f], Agree(f),
             InBackground(d), d.proc = "closed"
      PROVE  StoryInv' /\ FreshInv'
  <2>1. /\ files' \in [Tasks -> FileType]
        /\ \A u \in Tasks : files'[u] = IF u = t THEN f ELSE files[u]
    BY <1>1, <1>6
  <2>2. Story(child'[t], f)
    BY <1>2, <1>6 DEF Story
  <2>3. \A u \in Tasks : Story(child'[u], files[u])
    BY <1>1, OneChildsStory DEF StoryInv
  <2>4. \A u \in Tasks : Story(child'[u], files'[u])
    BY <2>1, <2>2, <2>3
  <2> QED BY <1>3, <2>1, <2>4 DEF StoryInv
<1> QED BY <1>4, <1>5, <1>6

LEMMA RequestsKeepStory ==
  ASSUME Inv, StoryInv, FreshInv, Requests
  PROVE  StoryInv' /\ FreshInv'
<1>1. /\ UNCHANGED <<pc, flatIndex, group, tries>> /\ Running \subseteq Tasks
      /\ \A t \in Running : tries[t] \in Attempts
      /\ child \in Children
  <2>1. UNCHANGED <<pc, flatIndex, group, tries>>
    BY DEF Requests, Request, Interrupt, Abort, IntercomDetach, DetachRun, DetachChild
  <2>2. Running \subseteq Tasks /\ child \in Children /\ \A t \in Running : tries[t] \in Attempts
    BY DEF Running, Attempts, Inv, ShapeInv
  <2> QED BY <2>1, <2>2
<1>2. ASSUME NEW c \in ChildType \cup {NoChild}, NEW d,
             d \in {c, InterruptChild(c), DetachForIntercom(c)}
      PROVE  Stays(c, d) /\ (c = NoChild => d = NoChild)
  BY <1>2, SpawnedType DEF InterruptChild, DetachForIntercom, Stays, InBackground, Awaited
<1>3. ASSUME files' = files,
             \A t \in Tasks, a \in Attempts :
               child'[t][a] \in {child[t][a], InterruptChild(child[t][a]),
                                 DetachForIntercom(child[t][a])}
      PROVE  StoryInv' /\ FreshInv'
  <2>1. \A t \in Tasks, a \in Attempts :
          /\ Stays(child[t][a], child'[t][a])
          /\ child[t][a] = NoChild => child'[t][a] = NoChild
    BY <1>1, <1>2, <1>3 DEF Children
  <2>2. \A t \in Tasks : Story(child'[t], files[t])
    BY <2>1, StoryGoesOn DEF StoryInv
  <2> QED BY <1>1, <1>3, <2>1, <2>2, FreshGoesOn DEF StoryInv
<1>4. CASE Interrupt
  <2>1. child' = [t \in Tasks |->
          IF t \in Running
          THEN [child[t] EXCEPT ![tries[t]] =
                  IF t = control.interrupt THEN InterruptChild(@) ELSE @]
          ELSE child[t]]
    BY <1>4 DEF Interrupt, Tell
  <2> QED BY <1>1, <1>3, <1>4, <2>1 DEF Children, Interrupt
<1>5. CASE Abort \/ IntercomDetach
  <2>1. child' = [t \in Tasks |->
          IF t \in Running THEN [child[t] EXCEPT ![tries[t]] = DetachForIntercom(@)]
          ELSE child[t]]
    BY <1>5 DEF Abort, IntercomDetach, Tell
  <2> QED BY <1>1, <1>3, <1>5, <2>1 DEF Children, Abort, IntercomDetach
<1>6. CASE DetachRun
  <2>1. child' = [t \in Tasks |->
          IF t \in Running THEN [child[t] EXCEPT ![tries[t]] = InterruptChild(@)]
          ELSE child[t]]
    BY <1>6 DEF DetachRun, Tell
  <2> QED BY <1>1, <1>3, <1>6, <2>1 DEF Children, DetachRun
<1>7. ASSUME NEW t \in Tasks, DetachChild(t) PROVE StoryInv' /\ FreshInv'
  <2> DEFINE a == tries[t]
             c == child[t][a]
             d == Detach(c, "background")
  <2>1. t \in Running /\ a \in Attempts /\ Awaited(c) /\ Live(c)
    BY <1>1, <1>7 DEF DetachChild, Request, Idle, Current, Awaited
  <2>2. c \in ChildType
    BY <1>1, <2>1, SpawnedType DEF Children
  <2>3. d \in ChildType
    BY <2>2, RequestsFollow DEF Follows
  <2>4. child' = [child EXCEPT ![t][a] = d] /\ files' = [files EXCEPT ![t].status = "running"]
    BY <1>1, <1>7, <2>1 DEF DetachChild, Children
  <2>5. InBackground(d)
    <3>1. d.detached = "background"
      BY <2>2 DEF Detach, ChildType
    <3> QED BY <2>3, <3>1, ChildFacts
  <2>6. Stays(c, d)
    BY <2>1 DEF Stays, InBackground, Awaited
  <2> HIDE DEF a, c, d
  <2>7. Live(child[t][a]) /\ Stays(child[t][a], d)
    BY <2>1, <2>6 DEF c
  <2> QED BY <1>1, <2>1, <2>3, <2>4, <2>5, <2>7, ChildMoves
<1> QED BY <1>4, <1>5, <1>6, <1>7 DEF Requests

LEMMA ProcessesKeepStory ==
  ASSUME Inv, StoryInv, FreshInv, Processes
  PROVE  StoryInv' /\ FreshInv'
<1>1. PICK t \in Tasks, a \in Attempts :
        \/ ChildWrites(t, a) \/ Heartbeat(t, a)
        \/ FinalDrainTimer(t, a) \/ TimeoutTimer(t, a)
        \/ ChildExits(t, a) \/ AwaitedCloses(t, a) \/ DetachedCloses(t, a)
        \/ SpawnFails(t, a)
  BY DEF Processes
<1>2. OfChild(t, a)
  BY <1>1 DEF ChildWrites, Heartbeat, FinalDrainTimer, TimeoutTimer,
     ChildExits, AwaitedCloses, DetachedCloses, SpawnFails
<1>3. /\ UNCHANGED <<pc, flatIndex, group, tries>> /\ Live(child[t][a]) /\ child \in Children
      /\ files \in [Tasks -> FileType]
  BY <1>2 DEF OfChild, Inv, ShapeInv, StoryInv
<1> DEFINE c == child[t][a]
<1>4. c \in ChildType /\ c.proc # "closed"
  BY <1>3 DEF Live, NoChild, Children
\* A live child that is detached no further: its story goes on.
<1>5. ASSUME NEW d \in ChildType, d.detached = c.detached PROVE Stays(c, d)
  BY <1>4, <1>5, ChildFacts DEF Stays
<1>6. ASSUME NEW d \in ChildType, d.detached = c.detached, Becomes(t, a, d)
      PROVE  StoryInv' /\ FreshInv'
  <2> HIDE DEF c
  <2>1. Stays(c, d) BY <1>5, <1>6
  <2> QED BY <1>3, <1>6, <2>1, ChildMoves DEF Becomes, c
<1>7. ASSUME NEW d \in ChildType, d.detached = c.detached, Writes(t, a, d)
      PROVE  StoryInv' /\ FreshInv'
  <2>1. Stays(c, d) BY <1>5, <1>7
  <2>2. d.detached = "background" => InBackground(d) BY ChildFacts
  <2> HIDE DEF c
  <2> QED BY <1>3, <1>7, <2>1, <2>2, ChildMoves DEF Writes, c
<1>8. CASE ChildWrites(t, a)
  BY <1>4, <1>7, <1>8, WritesFollow, HandlersDetachNobody DEF ChildWrites, Follows
<1>9. CASE Heartbeat(t, a)
  BY <1>4, <1>7, <1>9 DEF Heartbeat
<1>10. CASE FinalDrainTimer(t, a) \/ TimeoutTimer(t, a)
  BY <1>4, <1>6, <1>10, TimersFollow, HandlersDetachNobody
     DEF FinalDrainTimer, TimeoutTimer, Follows
<1>11. CASE ChildExits(t, a)
  BY <1>3, <1>4, <1>6, <1>11, EndsFollow, HandlersDetachNobody DEF ChildExits, Follows
<1>12. CASE AwaitedCloses(t, a)
  BY <1>4, <1>6, <1>12, EndsFollow, HandlersDetachNobody DEF AwaitedCloses, Follows
<1>13. CASE SpawnFails(t, a)
  BY <1>4, <1>6, <1>13, EndsFollow, HandlersDetachNobody DEF SpawnFails, Follows
<1>14. CASE DetachedCloses(t, a)
  <2> DEFINE d == Ended(c)
  <2>1. d \in ChildType /\ d.detached = c.detached /\ d.proc = "closed"
    BY <1>4, EndsFollow, HandlersDetachNobody
  <2>2. child' = [child EXCEPT ![t][a] = d]
    BY <1>3, <1>14 DEF DetachedCloses, Children
  <2>3. Stays(c, d)
    BY <1>5, <2>1
  <2>4. \/ files' = files
        \/ \E f \in FileType : files' = [files EXCEPT ![t] = f] /\ Agree(f)
                               /\ c.detached = "background"
    <3>1. PICK stderr \in BOOLEAN :
            LET e == Closes(c, stderr) IN
            files' = IF e.detached = "background"
                     THEN [files EXCEPT ![t] = [status |-> BackgroundStatus(e),
                                                result |-> BackgroundResult(e)]]
                     ELSE files
      BY <1>14 DEF DetachedCloses
    <3> DEFINE e == Closes(c, stderr)
               f == [status |-> BackgroundStatus(e), result |-> BackgroundResult(e)]
    <3>2. e \in ChildType /\ e.detached = c.detached
      BY <1>4, EndsFollow, HandlersDetachNobody DEF Follows
    <3> HIDE DEF e
    <3>3. f \in FileType /\ Agree(f)
      BY <3>2, ClosedFilesAgree
    <3>4. files' = IF c.detached = "background" THEN [files EXCEPT ![t] = f] ELSE files
      BY <3>1, <3>2 DEF e
    <3> HIDE DEF f
    <3> QED BY <3>3, <3>4
  <2>5. c.detached = "background" => InBackground(d)
    BY <2>1, ChildFacts
  <2> HIDE DEF d, c
  <2>6. Stays(child[t][a], d)
    BY <2>3 DEF c
  <2> QED BY <1>3, <2>1, <2>2, <2>4, <2>5, <2>6, ChildMoves
<1> QED BY <1>1, <1>8, <1>9, <1>10, <1>11, <1>12, <1>13, <1>14
-----------------------------------------------------------------------------
LEMMA StepKeepsStory == Inv /\ StoryInv /\ FreshInv /\ [Next]_vars => StoryInv' /\ FreshInv'
<1> SUFFICES ASSUME Inv, StoryInv, FreshInv, [Next]_vars PROVE StoryInv' /\ FreshInv' OBVIOUS
<1>1. CASE Continue
  <2>1. ASSUME NEW i \in Slots, TaskBegins(i) PROVE StoryInv' /\ FreshInv'
    BY <2>1, TaskBeginsKeepsStory
  <2>2. ASSUME NEW t \in Tasks, AttemptEnds(t) PROVE StoryInv' /\ FreshInv'
    BY <2>2, AttemptEndsKeepsStory
  <2> QED BY <1>1, <2>1, <2>2, LoopKeepsStory DEF Continue
<1>2. CASE UNCHANGED vars
  BY <1>2 DEF vars, StoryInv, FreshInv
<1> QED BY <1>1, <1>2, RequestsKeepStory, ProcessesKeepStory DEF Next

\* Whatever a call goes through: once a child that was let go to the background
\* has a result, its status file says the same (execution.ts), unless two
\* attempts of one task were let go and share the files.
THEOREM FilesTellOneStory == Spec => []DetachedTellsOneStory
<1>1. StoryInv => DetachedTellsOneStory
  <2> SUFFICES ASSUME StoryInv, NEW t \in Tasks, files[t].result # "none",
                      \A a, b \in Attempts :
                        child[t][a] # NoChild /\ child[t][b] # NoChild => a = b
               PROVE  Agree(files[t])
    BY DEF DetachedTellsOneStory, Agree
  <2>1. Story(child[t], files[t])
    BY DEF StoryInv
  <2> QED BY <2>1 DEF Story, InBackground
<1> QED BY <1>1, InitInv, StepKeepsInv, InitStory, StepKeepsStory, PTL DEF Spec
=============================================================================
