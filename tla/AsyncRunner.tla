----------------------------- MODULE AsyncRunner ----------------------------
(***************************************************************************)
(* The process that carries out a background run: runSubagent of           *)
(* runs/background/subagent-runner.ts, from its first status to its result *)
(* file.  A run is a plan of sequential steps, parallel groups and groups  *)
(* whose items come from an earlier output; a task is a child process, and *)
(* again a child process with the next model when a retryable error ended  *)
(* the one before.                                                         *)
(*                                                                         *)
(* The runner is one thread.  The actions guarded by Idle are callbacks of *)
(* its event loop: timers, signals and the events of its children.  The    *)
(* other actions continue a callback to its next await, so that nothing    *)
(* but the death of the process comes between them.  Every change of the   *)
(* status payload is written to the status file by the same callback, and  *)
(* so the payload stands for the file.                                     *)
(***************************************************************************)
EXTENDS Integers, Sequences, FiniteSets, SequencesExt, AsyncChild

CONSTANTS
  Plans,        \* the runs: [steps, readOnly, share]
  MaxWidth,     \* the largest number of tasks in a group
  MaxAttempts   \* the largest number of models a task may try

StepKinds == {"seq", "par", "dyn"}

\* A step: its tasks, how many of them run at once, the models of a task.
StepType ==
  [kind : StepKinds, n : 1..MaxWidth, limit : 1..MaxWidth, models : 1..MaxAttempts,
   failFast : BOOLEAN, worktree : BOOLEAN]

ASSUME PlansAssumption ==
  \A p \in Plans :
    /\ p.steps \in Seq(StepType)
    /\ p.readOnly \in BOOLEAN /\ p.share \in BOOLEAN
    /\ \A k \in DOMAIN p.steps :
         p.steps[k].kind = "seq" => p.steps[k].n = 1 /\ ~p.steps[k].failFast

ASSUME BoundsAssumption == MaxWidth \in Nat \ {0} /\ MaxAttempts \in Nat \ {0}

VARIABLES
  plan,
  pc,           \* top of the loop, tasks, share, finish, result, exited, dead
  stepIndex,    \* the step of the plan
  flatIndex,    \* the first entry of the step in statusPayload.steps
  steps,        \* statusPayload.steps: the status of every task
  state, err,   \* statusPayload.state, and whether .error is set
  results,      \* the outcomes pushed so far: ok, failed, skipped
  interrupted, active,  \* interrupted, and the task activeChildInterrupt stops
  group,        \* the tasks awaited: how many, the next one, aborted, outcomes
  child, tries, \* the child process of each task of the group
  resultFile    \* the state in the result file, "none" before it is written

vars == <<plan, pc, stepIndex, flatIndex, steps, state, err, results,
          interrupted, active, group, child, tries, resultFile>>

Slots == 1..MaxWidth
NoTask == 0
NoOutcome == "none"

NoGroup == [n |-> 0, next |-> 1, aborted |-> FALSE,
            out |-> [i \in Slots |-> NoOutcome]]

Step == plan.steps[stepIndex]

(***************************************************************************)
(* The first status: one entry for a step, one for each task of a parallel *)
(* group, and one placeholder for a group that is not yet materialised.    *)
(***************************************************************************)
Entries(p, k) == IF p.steps[k].kind = "par" THEN p.steps[k].n ELSE 1

InitialEntries(p) ==
  Cardinality({x \in (DOMAIN p.steps) \X Slots : x[2] <= Entries(p, x[1])})

Init ==
  /\ plan \in Plans
  /\ pc = "top" /\ stepIndex = 1 /\ flatIndex = 0
  /\ steps = [k \in 1..InitialEntries(plan) |-> "pending"]
  /\ state = "running" /\ err = FALSE /\ results = <<>>
  /\ interrupted = FALSE /\ active = NoTask
  /\ group = NoGroup
  /\ child = [i \in Slots |-> NoChild] /\ tries = [i \in Slots |-> 0]
  /\ resultFile = "none"

-----------------------------------------------------------------------------
Live(i) == child[i].proc \in {"running", "exited"}
Busy == {i \in Slots : child[i] # NoChild}

\* mapConcurrent: a worker takes the next task when it is free.
WorkerFree == group.next <= group.n /\ Cardinality(Busy) < Step.limit

\* Mutant: the group is over with its first failure.
GroupDoneEarly ==
  group.next > group.n /\ (Busy = {} \/ "failed" \in Range(group.out))

GroupDone == group.next > group.n /\ Busy = {}

\* The event loop waits: every closed child is dealt with, no task can start.
Idle == \/ pc = "share"
        \/ /\ pc = "tasks" /\ ~WorkerFree /\ ~GroupDone
           /\ \A i \in Busy : Live(i)

Entry(i) == flatIndex + i
SetEntry(i, s) == steps' = [steps EXCEPT ![Entry(i)] = s]

\* What follows the loop over the steps: the export of the session, or the end.
AfterLoop == IF plan.share THEN "share" ELSE "finish"

-----------------------------------------------------------------------------
(***************************************************************************)
(* The loop over the steps.                                                *)
(***************************************************************************)
\* An interrupt ends the loop at its top, before the next step.
LoopEnds ==
  /\ pc = "top"
  /\ interrupted \/ stepIndex > Len(plan.steps)
  /\ pc' = AfterLoop
  /\ UNCHANGED <<plan, stepIndex, flatIndex, steps, state, err, results,
                 interrupted, active, group, child, tries, resultFile>>

Begins(kind) ==
  /\ pc = "top" /\ ~interrupted
  /\ stepIndex <= Len(plan.steps)
  /\ Step.kind = kind
  /\ UNCHANGED <<plan, interrupted, active, child, tries, resultFile>>

AwaitTasks(n) == group' = [NoGroup EXCEPT !.n = n] /\ pc' = "tasks"

SequentialStepBegins ==
  /\ Begins("seq")
  /\ AwaitTasks(1)
  /\ UNCHANGED <<stepIndex, flatIndex, steps, state, err, results>>

\* markParallelGroupRunning: every task is pending again.
ParallelGroupBegins ==
  /\ Begins("par")
  /\ AwaitTasks(Step.n)
  /\ steps' = [k \in DOMAIN steps |->
                 IF k \in (flatIndex + 1)..(flatIndex + Step.n)
                 THEN "pending" ELSE steps[k]]
  /\ UNCHANGED <<stepIndex, flatIndex, state, err, results>>

\* markParallelGroupSetupFailure: the worktrees cannot be made, every task of
\* the group fails and the loop ends.
WorktreeSetupFails ==
  /\ Begins("par") /\ Step.worktree
  /\ steps' = [k \in DOMAIN steps |->
                 IF k \in (flatIndex + 1)..(flatIndex + Step.n)
                 THEN "failed" ELSE steps[k]]
  /\ results' = results \o [i \in 1..Step.n |-> "failed"]
  /\ flatIndex' = flatIndex + Step.n
  /\ pc' = AfterLoop
  /\ UNCHANGED <<stepIndex, state, err, group>>

\* The items cannot be computed, or there are none and the acceptance criteria
\* of the group are not met: the status says failed before the run ends.
MaterializeFails ==
  /\ Begins("dyn")
  /\ state' = "failed" /\ err' = TRUE
  /\ SetEntry(1, "failed")
  /\ results' = Append(results, "failed")
  /\ pc' = AfterLoop
  /\ UNCHANGED <<stepIndex, flatIndex, group>>

\* No items: the placeholder is complete and the loop goes on.
MaterializeEmpty ==
  /\ Begins("dyn")
  /\ SetEntry(1, "complete")
  /\ flatIndex' = flatIndex + 1 /\ stepIndex' = stepIndex + 1
  /\ UNCHANGED <<pc, state, err, results, group>>

\* The placeholder is replaced by one entry for each item.
MaterializeItems(k) ==
  /\ Begins("dyn") /\ k <= Step.n
  /\ steps' = SubSeq(steps, 1, flatIndex) \o [i \in 1..k |-> "pending"]
              \o SubSeq(steps, flatIndex + 2, Len(steps))
  /\ AwaitTasks(k)
  /\ UNCHANGED <<stepIndex, flatIndex, state, err, results>>

-----------------------------------------------------------------------------
(***************************************************************************)
(* The tasks of a step.                                                    *)
(***************************************************************************)
TaskOf(kind) ==
  /\ pc = "tasks" /\ Step.kind = kind
  /\ UNCHANGED <<plan, pc, stepIndex, flatIndex, state, err, results,
                 interrupted, resultFile>>

Skipped == group.aborted /\ Step.failFast

StartTask(i) ==
  /\ WorkerFree /\ i = group.next /\ ~Skipped
  /\ SetEntry(i, "running")
  /\ group' = [group EXCEPT !.next = @ + 1]
  /\ child' = [child EXCEPT ![i] = Spawned]
  /\ tries' = [tries EXCEPT ![i] = 1]
  /\ active' = i

SkipTask(i) ==
  /\ WorkerFree /\ i = group.next /\ Skipped
  /\ SetEntry(i, "failed")
  /\ group' = [group EXCEPT !.next = @ + 1, !.out[i] = "skipped"]
  /\ UNCHANGED <<child, tries, active>>

SequentialStepStarts == TaskOf("seq") /\ StartTask(1)
ParallelTaskStarts(i) == TaskOf("par") /\ (StartTask(i) \/ SkipTask(i))
DynamicTaskStarts(i) == TaskOf("dyn") /\ (StartTask(i) \/ SkipTask(i))

(***************************************************************************)
(* runSingleStep: an attempt that ended with exit code 0 may still hide an *)
(* error in its last tool results, whose text may even name exit code 0;   *)
(* or its output does not meet the acceptance criteria of the task.        *)
(***************************************************************************)
HiddenErrors(r) == IF r.exit = 0 /\ ~r.error THEN {"none", "fails", "exitZero"}
                   ELSE {"none"}

AttemptExit(r, hidden) ==
  CASE hidden = "fails" -> 1
    [] hidden = "exitZero" -> 0
    [] OTHER -> IF r.error THEN 1 ELSE r.exit

AttemptSucceeds(r, hidden) == r.exit = 0 /\ ~r.error /\ hidden = "none"

\* isRetryableModelFailure: the message of a time limit always matches, that of
\* a child that did not leave never does; others depend on their text.
Retryable(c) ==
  CASE c.error = "timeout" -> {TRUE}
    [] c.error = "noExit" -> {FALSE}
    [] OTHER -> BOOLEAN

\* The attempt failed for a reason another model may not have.
NextAttempt(i) ==
  /\ child[i].proc = "closed" /\ tries[i] < Step.models
  /\ LET r == StreamingResult(child[i]) IN
     \E h \in HiddenErrors(r) : ~AttemptSucceeds(r, h) /\ TRUE \in Retryable(child[i])
  /\ child' = [child EXCEPT ![i] = Spawned]
  /\ tries' = [tries EXCEPT ![i] = @ + 1]
  /\ active' = i
  /\ UNCHANGED <<steps, group>>

\* The attempt is the last: its outcome is the outcome of the task.
LastAttempt(i) ==
  /\ child[i].proc = "closed"
  /\ LET r == StreamingResult(child[i]) IN
     \E h \in HiddenErrors(r) :
       /\ \/ AttemptSucceeds(r, h)
          \/ FALSE \in Retryable(child[i])
          \/ tries[i] = Step.models
       /\ LET exit == AttemptExit(r, h) IN
          /\ SetEntry(i, IF r.interrupted THEN "paused"
                         ELSE IF exit = 0 THEN "complete" ELSE "failed")
          /\ group' = [group EXCEPT
                         !.out[i] = IF exit = 0 THEN "ok" ELSE "failed",
                         !.aborted = @ \/ (exit # 0 /\ Step.failFast)]
  /\ child' = [child EXCEPT ![i] = NoChild]
  /\ tries' = [tries EXCEPT ![i] = 0]
  /\ UNCHANGED active

SequentialAttemptEnds == TaskOf("seq") /\ (NextAttempt(1) \/ LastAttempt(1))
ParallelAttemptEnds(i) == TaskOf("par") /\ (NextAttempt(i) \/ LastAttempt(i))
DynamicAttemptEnds(i) == TaskOf("dyn") /\ (NextAttempt(i) \/ LastAttempt(i))

-----------------------------------------------------------------------------
(***************************************************************************)
(* The end of a step.                                                      *)
(***************************************************************************)
Collect(kind) ==
  /\ pc = "tasks" /\ Step.kind = kind /\ GroupDone
  /\ flatIndex' = flatIndex + group.n
  /\ stepIndex' = stepIndex + 1
  /\ group' = NoGroup
  /\ UNCHANGED <<plan, steps, state, interrupted, active, child, tries,
                 resultFile>>

GroupResults == SubSeq(group.out, 1, group.n)
GroupFailed == "failed" \in Range(GroupResults)

SequentialStepEnds ==
  /\ Collect("seq")
  /\ results' = results \o GroupResults
  /\ pc' = IF GroupFailed THEN AfterLoop ELSE "top"
  /\ UNCHANGED err

\* Mutant: a group that failed returns before its results are pushed.
ParallelGroupEndsEarly ==
  /\ Collect("par")
  /\ results' = IF GroupFailed THEN results ELSE results \o GroupResults
  /\ pc' = IF GroupFailed THEN AfterLoop ELSE "top"
  /\ UNCHANGED err

\* A skipped task does not end the loop; the failure that caused it does.
ParallelGroupEnds ==
  /\ Collect("par")
  /\ results' = results \o GroupResults
  /\ pc' = IF GroupFailed THEN AfterLoop ELSE "top"
  /\ UNCHANGED err

\* The collected output is checked against its schema, and the group's
\* acceptance criteria, when no item failed.
DynamicGroupEnds ==
  /\ Collect("dyn")
  /\ \E invalid \in IF GroupFailed THEN {FALSE} ELSE BOOLEAN :
       /\ results' = results \o GroupResults
                     \o (IF invalid THEN <<"failed">> ELSE <<>>)
       /\ err' = (err \/ invalid)
       /\ pc' = IF GroupFailed \/ invalid THEN AfterLoop ELSE "top"

-----------------------------------------------------------------------------
(***************************************************************************)
(* The end of the run.                                                     *)
(***************************************************************************)
Succeeded == {k \in DOMAIN results : results[k] = "ok"}

\* Mutant: whatever succeeded is enough for any run.
AggregateOutcomeLenient ==
  IF Succeeded = {} THEN "failed"
  ELSE IF Succeeded # DOMAIN results THEN "partial" ELSE "complete"

\* inferAggregatePolicy and resolveAggregateOutcome.  A run whose tasks all
\* only read keeps what succeeded; any other needs every result.
AggregateOutcome ==
  IF results = <<>> THEN "failed"
  ELSE IF plan.readOnly
       THEN IF Succeeded = {} THEN "failed"
            ELSE IF Succeeded # DOMAIN results THEN "partial" ELSE "complete"
       ELSE IF Succeeded # DOMAIN results THEN "failed" ELSE "complete"

\* Mutant: the outcome of the children decides even when the run was stopped.
FinalStateOfResults ==
  IF AggregateOutcome \in {"partial", "complete"} THEN "complete" ELSE "failed"

FinalState ==
  IF interrupted THEN "paused"
  ELSE IF AggregateOutcome \in {"partial", "complete"} THEN "complete"
  ELSE "failed"

\* The session is exported and shared while the run waits.
ShareEnds ==
  /\ pc = "share" /\ pc' = "finish"
  /\ UNCHANGED <<plan, stepIndex, flatIndex, steps, state, err, results,
                 interrupted, active, group, child, tries, resultFile>>

\* The final status.
RunEnds ==
  /\ pc = "finish" /\ pc' = "result"
  /\ state' = FinalState
  /\ err' = (err \/ (FinalState = "failed" /\ "failed" \in Range(steps)))
  /\ UNCHANGED <<plan, stepIndex, flatIndex, steps, results, interrupted,
                 active, group, child, tries, resultFile>>

\* The result file.  A failure to write it is logged and the runner exits.
WriteResultFile ==
  /\ pc = "result" /\ pc' = "exited"
  /\ resultFile' \in {FinalState, "none"}
  /\ UNCHANGED <<plan, stepIndex, flatIndex, steps, state, err, results,
                 interrupted, active, group, child, tries>>

-----------------------------------------------------------------------------
(***************************************************************************)
(* Events from outside: a stop request, the children, the timers, death.   *)
(***************************************************************************)
\* interruptRunner, the handler of the stop signal.  Only one child is told:
\* the one that registered last, if it did not close since.
InterruptRunner ==
  /\ Idle /\ ~interrupted /\ state = "running"
  /\ interrupted' = TRUE /\ state' = "paused"
  /\ steps' = [k \in DOMAIN steps |->
                 IF steps[k] = "running" THEN "paused" ELSE steps[k]]
  /\ child' = IF active = NoTask THEN child
              ELSE [child EXCEPT ![active] = InterruptChild(@)]
  /\ UNCHANGED <<plan, pc, stepIndex, flatIndex, err, results, active, group,
                 tries, resultFile>>

OfChild(i) ==
  /\ Idle /\ Live(i)
  /\ UNCHANGED <<plan, pc, stepIndex, flatIndex, steps, state, err, results,
                 interrupted, group, tries, resultFile>>

Becomes(i, c) == child' = [child EXCEPT ![i] = c] /\ UNCHANGED active

ChildWrites(i) ==
  /\ OfChild(i)
  /\ \/ Becomes(i, AssistantFails(child[i]))
     \/ \E failed, hasText \in BOOLEAN :
          Becomes(i, AssistantStops(child[i], failed, hasText))

FinalDrainTimer(i) ==
  /\ OfChild(i)
  /\ \/ child[i].drain = "grace" /\ Becomes(i, FinalDrainFires(child[i]))
     \/ child[i].drain = "hard" /\ Becomes(i, HardKillFires(child[i]))

TimeoutTimer(i) ==
  /\ OfChild(i)
  /\ \/ child[i].limit = "armed" /\ Becomes(i, TimeoutFires(child[i]))
     \/ child[i].limit = "hard" /\ Becomes(i, TimeoutKillFires(child[i]))

InterruptTimer(i) ==
  /\ OfChild(i) /\ child[i].intTimer
  /\ Becomes(i, InterruptTermFires(child[i]))

\* A child may ignore every signal but SIGKILL.
ChildExits(i) ==
  /\ OfChild(i) /\ child[i].proc = "running"
  /\ \E code \in IF child[i].sig = "KILL" THEN {"signal"}
                 ELSE IF child[i].sig = "none" THEN {"zero", "nonzero"}
                 ELSE {"zero", "nonzero", "signal"} :
       Becomes(i, Exits(child[i], code))

\* Closing withdraws the registered interrupt, whichever child it was for.
Withdraw(i, c) == child' = [child EXCEPT ![i] = c] /\ active' = NoTask

ChildCloses(i) ==
  OfChild(i) /\ child[i].proc = "exited" /\ Withdraw(i, Closes(child[i]))

SpawnFails(i) ==
  OfChild(i) /\ child[i] = Spawned /\ Withdraw(i, FailsToSpawn(child[i]))

\* The process is killed, or an exception of a write ends it.
Crash ==
  /\ pc \notin {"exited", "dead"} /\ pc' = "dead"
  /\ UNCHANGED <<plan, stepIndex, flatIndex, steps, state, err, results,
                 interrupted, active, group, child, tries, resultFile>>

-----------------------------------------------------------------------------
Loop ==
  \/ LoopEnds \/ SequentialStepBegins \/ ParallelGroupBegins
  \/ WorktreeSetupFails \/ MaterializeFails \/ MaterializeEmpty
  \/ \E k \in 1..MaxWidth : MaterializeItems(k)

Tasks ==
  \/ SequentialStepStarts \/ SequentialAttemptEnds \/ SequentialStepEnds
  \/ \E i \in Slots : \/ ParallelTaskStarts(i) \/ ParallelAttemptEnds(i)
                      \/ DynamicTaskStarts(i) \/ DynamicAttemptEnds(i)
  \/ ParallelGroupEnds \/ DynamicGroupEnds

Ending == ShareEnds \/ RunEnds \/ WriteResultFile

Timers(i) == FinalDrainTimer(i) \/ TimeoutTimer(i) \/ InterruptTimer(i)

ChildEvents(i) ==
  ChildWrites(i) \/ Timers(i) \/ ChildExits(i) \/ ChildCloses(i) \/ SpawnFails(i)

Next ==
  \/ Loop \/ Tasks \/ Ending
  \/ InterruptRunner \/ Crash
  \/ \E i \in Slots : ChildEvents(i)

Spec == Init /\ [][Next]_vars

\* The timers of the runner fire, its callbacks run to their end, a killed
\* process exits and the streams of a process that exited are closed.
Killed(i) == ChildExits(i) /\ child[i].sig = "KILL"

FairSpec ==
  /\ Spec
  /\ WF_vars(Loop) /\ WF_vars(Tasks) /\ WF_vars(Ending)
  /\ \A i \in Slots : /\ WF_vars(TimeoutTimer(i)) /\ WF_vars(Killed(i))
                       /\ WF_vars(ChildCloses(i))

-----------------------------------------------------------------------------
(***************************************************************************)
(* Properties.                                                             *)
(***************************************************************************)
\* The files tell a story AsyncRun allows: the result is written at most once,
\* after the final status, and says the same.
Files == INSTANCE AsyncRun WITH
  phase <- CASE pc = "dead" -> "dead"
             [] pc = "exited" -> "over"
             [] pc = "result" -> "settled"
             [] OTHER -> "running",
  status <- state,
  result <- resultFile

ImplementsAsyncRun == Files!AsyncSpec

\* A run that says it is complete has done its work.  If it needs all its tasks
\* every one of them is complete: none was skipped, left pending, failed or
\* stopped; if it only reads, some task left a result.
CompleteMeansDone ==
  resultFile = "complete" =>
    IF plan.readOnly THEN Succeeded # {}
    ELSE \A k \in DOMAIN steps : steps[k] = "complete"

\* When the result is there, no child of the run is still at work: the groups
\* wait for all their tasks, after a failure and after a stop too.
ResultAfterChildren == resultFile # "none" => Busy = {}

\* Nothing is lost between the status and the results: every failed entry has
\* a result that is not a success, every success an entry that says so, and no
\* entry is left running.
EveryOutcomeCounts ==
  pc = "exited" =>
    /\ Cardinality({k \in DOMAIN steps : steps[k] = "failed"})
         <= Cardinality(DOMAIN results \ Succeeded)
    /\ Cardinality(Succeeded)
         <= Cardinality({k \in DOMAIN steps : steps[k] \in {"complete", "paused"}})
    /\ "running" \notin Range(steps)

StartsNothing ==
  \A i \in Slots : pc = "tasks" /\ Step.failFast /\ group.aborted /\ child[i] = NoChild
                   => child'[i] = NoChild

\* After a failure in a fail-fast group no further task of it is started.
FailFastStartsNothing == [][StartsNothing]_vars

\* Once a run is stopped it waits for an explicit next action: no child is
\* spawned any more.  The code does not keep this, see AsyncRunnerStop.cfg.
StopSpawnsNothing ==
  [][interrupted => \A i \in Slots : tries'[i] <= tries[i]]_vars

\* A run ends, whatever its children do and whoever stops it.
RunReachesItsEnd == <>(pc \in {"exited", "dead"})
=============================================================================
