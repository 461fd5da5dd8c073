---------------------------- MODULE ForegroundRun ---------------------------
(***************************************************************************)
(* A foreground call of the subagent tool: runSinglePath, runParallelPath  *)
(* and runChainPath of runs/foreground/subagent-executor.ts, executeChain  *)
(* of chain-execution.ts and the loop over models of runSync.  The call    *)
(* blocks the agent until it returns; meanwhile the user may abort it, an  *)
(* interrupt may be asked for its current child, and the user may detach   *)
(* what runs to the background.                                            *)
(*                                                                         *)
(* The three modes share their tasks: a single call is one sequential      *)
(* step, a parallel call one group, a chain a sequence of both and of      *)
(* groups whose items come from an earlier output.  Only a parallel call   *)
(* is detached as a whole, by starting it again as a background run; a     *)
(* child of the other modes is detached alone and keeps its process.       *)
(*                                                                         *)
(* The host is one thread.  The actions guarded by Idle are callbacks of   *)
(* its event loop, the others continue one to its next await.              *)
(***************************************************************************)
EXTENDS Integers, Sequences, FiniteSets, FiniteSetsExt, ForegroundChild

CONSTANTS
  Plans,        \* the calls: [mode, steps, limit, models, failFast, bridge]
  MaxSteps,     \* the largest number of steps of a chain
  MaxWidth,     \* the largest number of tasks in a group
  MaxAttempts   \* the largest number of models a task may try

Modes == {"single", "parallel", "chain"}
StepType == [kind : {"seq", "par", "dyn"}, n : 1..MaxWidth]

ASSUME PlansAssumption ==
  \A p \in Plans :
    /\ p.mode \in Modes
    /\ p.steps \in Seq(StepType) /\ Len(p.steps) \in 1..MaxSteps
    /\ p.limit \in 1..MaxWidth /\ p.models \in 1..MaxAttempts
    /\ p.failFast \in BOOLEAN /\ p.bridge \in BOOLEAN
    /\ p.mode # "chain" => Len(p.steps) = 1 /\ ~p.failFast
    /\ p.mode = "single" => p.steps[1].kind = "seq"
    /\ p.mode = "parallel" => p.steps[1].kind = "par"
    /\ \A k \in DOMAIN p.steps : p.steps[k].kind = "seq" => p.steps[k].n = 1

ASSUME BoundsAssumption ==
  MaxSteps \in Nat \ {0} /\ MaxWidth \in Nat \ {0} /\ MaxAttempts \in Nat \ {0}

Slots == 1..MaxWidth
Attempts == 1..MaxAttempts
Tasks == 1..(MaxSteps * MaxWidth)   \* numbered through the steps
NoTask == 0

VARIABLES
  plan,
  pc,           \* top of the loop over the steps, tasks, returned
  stepIndex,    \* the step of the plan
  flatIndex,    \* globalTaskIndex: the tasks of the steps before
  group,        \* the tasks awaited: how many, the next one, aborted, results
  child,        \* the processes of every task, one for each attempt
  tries,        \* the attempt a task is at, 0 when it does not run
  stop,         \* the tasks whose interruptController is aborted
  control,      \* foregroundControl: currentIndex, and the task it interrupts
  aborted,      \* the abort signal of the call
  rootDetached, \* the call was started again in the background
  files,        \* status and result file of a task's background child
  outcome       \* what the call returned

vars == <<plan, pc, stepIndex, flatIndex, group, child, tries, stop, control,
          aborted, rootDetached, files, outcome>>

NoGroup == [n |-> 0, next |-> 1, aborted |-> FALSE,
            out |-> [i \in Slots |-> "none"]]
NoControl == [index |-> NoTask, interrupt |-> NoTask]

\* A task's result, by what the call looks at: its exit code is 0 in the last
\* three cases too.
Kinds == {"ok", "failed", "skipped", "paused", "detached", "pausedDetached"}

Init ==
  /\ plan \in Plans
  /\ pc = "top" /\ stepIndex = 1 /\ flatIndex = 0 /\ group = NoGroup
  /\ child = [t \in Tasks |-> [a \in Attempts |-> NoChild]]
  /\ tries = [t \in Tasks |-> 0]
  /\ stop = {} /\ control = NoControl
  /\ aborted = FALSE /\ rootDetached = FALSE
  /\ files = [t \in Tasks |-> [status |-> "none", result |-> "none"]]
  /\ outcome = "none"

-----------------------------------------------------------------------------
Step == plan.steps[stepIndex]
Task(i) == flatIndex + i
Running == {t \in Tasks : tries[t] > 0}
Current(t) == child[t][tries[t]]

\* mapConcurrent: a worker takes the next task when it is free.
WorkerFree == group.next <= group.n /\ Cardinality(Running) < plan.limit
GroupDone == group.next > group.n /\ Running = {}

\* The event loop waits, also after the call has returned.
Idle == \/ pc = "returned"
        \/ /\ pc = "tasks" /\ ~WorkerFree /\ ~GroupDone
           /\ \A t \in Running : Awaited(Current(t))

\* The control of the call and the detach handle go away when it returns.
Return(how) ==
  /\ pc' = "returned" /\ outcome' = how /\ control' = NoControl

-----------------------------------------------------------------------------
(***************************************************************************)
(* The loop over the steps.                                                *)
(***************************************************************************)
AtTop ==
  /\ pc = "top" /\ stepIndex <= Len(plan.steps)
  /\ UNCHANGED <<plan, child, tries, stop, aborted, rootDetached, files>>

StepBegins ==
  /\ AtTop
  /\ \E n \in IF Step.kind = "dyn" THEN 1..Step.n ELSE {Step.n} :
       group' = [NoGroup EXCEPT !.n = n]
  /\ pc' = "tasks"
  /\ UNCHANGED <<stepIndex, flatIndex, control, outcome>>

\* An unknown agent, an invalid option, worktrees or items that cannot be made.
StepCannotBegin ==
  /\ AtTop
  /\ Return("failed")
  /\ UNCHANGED <<stepIndex, flatIndex, group>>

\* A group without items counts as done.
DynamicStepIsEmpty ==
  /\ AtTop /\ Step.kind = "dyn"
  /\ stepIndex' = stepIndex + 1
  /\ UNCHANGED <<pc, flatIndex, group, control, outcome>>

ChainEnds ==
  /\ pc = "top" /\ stepIndex > Len(plan.steps)
  /\ Return("done")
  /\ UNCHANGED <<plan, stepIndex, flatIndex, group, child, tries, stop, aborted,
                 rootDetached, files>>

-----------------------------------------------------------------------------
(***************************************************************************)
(* The tasks of a step.                                                    *)
(***************************************************************************)
OfTasks ==
  /\ pc = "tasks"
  /\ UNCHANGED <<plan, pc, stepIndex, flatIndex, aborted, rootDetached, files,
                 outcome>>

\* An attempt of a task whose controller is aborted is interrupted at once.
Attempt(t, stopped) ==
  IF t \in stopped THEN InterruptChild(Spawned) ELSE Spawned

\* Mutant: a task that was queued when the call was detached runs.
StartTaskHeedless(i) ==
  /\ WorkerFree /\ i = group.next /\ ~(group.aborted /\ plan.failFast)
  /\ group' = [group EXCEPT !.next = @ + 1]
  /\ tries' = [tries EXCEPT ![Task(i)] = 1]
  /\ child' = [child EXCEPT ![Task(i)][1] = Attempt(Task(i), stop)]
  /\ control' = [index |-> Task(i), interrupt |-> Task(i)]
  /\ UNCHANGED stop

\* The interrupt of the call is now that of this task, whatever runs beside it.
StartTask(i) ==
  /\ WorkerFree /\ i = group.next /\ ~(group.aborted /\ plan.failFast)
  /\ group' = [group EXCEPT !.next = @ + 1]
  /\ tries' = [tries EXCEPT ![Task(i)] = 1]
  /\ stop' = IF rootDetached THEN stop \cup {Task(i)} ELSE stop
  /\ child' = [child EXCEPT ![Task(i)][1] = Attempt(Task(i), stop')]
  /\ control' = [index |-> Task(i), interrupt |-> Task(i)]

SkipTask(i) ==
  /\ WorkerFree /\ i = group.next /\ group.aborted /\ plan.failFast
  /\ group' = [group EXCEPT !.next = @ + 1, !.out[i] = "skipped"]
  /\ UNCHANGED <<child, tries, stop, control>>

TaskBegins(i) == OfTasks /\ (StartTask(i) \/ SkipTask(i))

\* What runSingleAttempt returned.
AttemptResults(t) ==
  {AttemptResult(Current(t), hidden) : hidden \in HiddenErrors(Current(t))}

\* A detached process is on its own from here; of a closed one nothing is left.
Left(c) == IF c.detached = "no" THEN NoChild ELSE c

\* The last update of an attempt, unless it was interrupted or detached.
IndexAfter(t, r) == IF r.interrupted \/ r.detached THEN control.index ELSE t

\* The attempt failed for a reason another model may not have.
NextAttempt(t, r) ==
  /\ tries[t] < plan.models
  /\ ~AttemptSucceeds(r) /\ TRUE \in Retryable(r)
  /\ tries' = [tries EXCEPT ![t] = @ + 1]
  /\ child' = [child EXCEPT ![t][tries[t]] = Left(@),
                            ![t][tries[t] + 1] = Attempt(t, stop)]
  /\ control' = [control EXCEPT !.index = IndexAfter(t, r)]
  /\ UNCHANGED <<group, stop>>

Kind(r) ==
  CASE r.interrupted /\ r.detached -> "pausedDetached"
    [] r.interrupted -> "paused"
    [] r.detached -> "detached"
    [] r.exit = 0 -> "ok"
    [] OTHER -> "failed"

\* The interrupt is withdrawn when the last update came from this task, even if
\* it is the interrupt of another one.
LastAttempt(t, r) ==
  /\ \/ AttemptSucceeds(r)
     \/ FALSE \in Retryable(r)
     \/ tries[t] = plan.models
  /\ tries' = [tries EXCEPT ![t] = 0]
  /\ child' = [child EXCEPT ![t][tries[t]] = Left(@)]
  /\ group' = [group EXCEPT !.out[t - flatIndex] = Kind(r),
                            !.aborted = @ \/ (r.exit # 0 /\ plan.failFast)]
  /\ control' = [index |-> IndexAfter(t, r),
                 interrupt |-> IF IndexAfter(t, r) = t THEN NoTask
                               ELSE control.interrupt]
  /\ UNCHANGED stop

AttemptEnds(t) ==
  /\ OfTasks /\ t \in Running /\ ~Awaited(Current(t))
  /\ \E r \in AttemptResults(t) : NextAttempt(t, r) \/ LastAttempt(t, r)

(***************************************************************************)
(* The end of a step.  The modes disagree on which result comes first.     *)
(***************************************************************************)
Outs == {group.out[i] : i \in 1..group.n}
SomePaused == Outs \cap {"paused", "pausedDetached"} # {}
SomeDetached == Outs \cap {"detached", "pausedDetached"} # {}

StepEnds ==
  /\ pc = "tasks" /\ GroupDone
  /\ UNCHANGED <<plan, child, tries, stop, aborted, rootDetached, files>>

SingleEnds ==
  /\ plan.mode = "single" /\ StepEnds
  /\ Return(IF SomeDetached THEN "detached" ELSE IF SomePaused THEN "paused"
            ELSE IF "failed" \in Outs THEN "failed" ELSE "done")
  /\ UNCHANGED <<stepIndex, flatIndex, group>>

\* A parallel call reports the failures of its tasks and is no error itself.
ParallelEnds ==
  /\ plan.mode = "parallel" /\ StepEnds
  /\ Return(IF SomePaused THEN "paused" ELSE IF SomeDetached THEN "detached"
            ELSE "done")
  /\ UNCHANGED <<stepIndex, flatIndex, group>>

ChainStops ==
  /\ plan.mode = "chain" /\ StepEnds
  /\ \/ SomePaused /\ Return("paused")
     \/ ~SomePaused /\ SomeDetached /\ Return("detached")
     \/ /\ ~SomePaused /\ ~SomeDetached
        /\ "failed" \in Outs \/ Step.kind = "dyn"   \* or an invalid collection
        /\ Return("failed")
  /\ UNCHANGED <<stepIndex, flatIndex, group>>

ChainGoesOn ==
  /\ plan.mode = "chain" /\ StepEnds
  /\ ~SomePaused /\ ~SomeDetached /\ "failed" \notin Outs
  /\ pc' = "top" /\ stepIndex' = stepIndex + 1 /\ group' = NoGroup
  /\ flatIndex' = flatIndex + group.n
  /\ UNCHANGED <<control, outcome>>

-----------------------------------------------------------------------------
(***************************************************************************)
(* Requests from outside.                                                  *)
(***************************************************************************)
Request ==
  /\ Idle /\ pc = "tasks"
  /\ UNCHANGED <<plan, pc, stepIndex, flatIndex, group, tries, outcome>>

\* Applied to the process each running task awaits.
Tell(Told(_, _)) ==
  child' = [t \in Tasks |->
              IF t \in Running THEN [child[t] EXCEPT ![tries[t]] = Told(t, @)]
              ELSE child[t]]

\* The action "interrupt": one child at most, that of the control.  Telling it
\* sends an update.
Interrupt ==
  /\ Request
  /\ control.interrupt # NoTask /\ control.interrupt \notin stop
  /\ stop' = stop \cup {control.interrupt}
  /\ Tell(LAMBDA t, c : IF t = control.interrupt THEN InterruptChild(c) ELSE c)
  /\ control' = [control EXCEPT !.index = IF control.interrupt \in Running
                                          THEN control.interrupt ELSE @]
  /\ UNCHANGED <<aborted, rootDetached, files>>

\* The signal of the call.  A child that talks with its supervisor is let go,
\* any other is sent SIGTERM.
Abort ==
  /\ Request /\ ~aborted
  /\ aborted' = TRUE
  /\ Tell(LAMBDA t, c : DetachForIntercom(c))
  /\ UNCHANGED <<stop, control, rootDetached, files>>

IntercomDetach ==
  /\ Request
  /\ \E t \in Running : Current(t).intercom
  /\ Tell(LAMBDA t, c : DetachForIntercom(c))
  /\ UNCHANGED <<stop, control, aborted, rootDetached, files>>

\* The shortcut in a parallel call: the whole call starts again in the
\* background, or fails to, and the children of this one are interrupted.  The
\* last one told sends the last update.
DetachRun ==
  /\ Request /\ plan.mode = "parallel" /\ ~rootDetached
  /\ rootDetached' = TRUE
  /\ stop' = stop \cup Running
  /\ Tell(LAMBDA t, c : InterruptChild(c))
  /\ control' = IF Running \subseteq stop THEN control
                ELSE [control EXCEPT !.index = Max(Running \ stop)]
  /\ UNCHANGED <<aborted, files>>

\* The shortcut in another call: the child that started last, and children of
\* a group may have started in the same millisecond.
DetachChild(t) ==
  /\ Request /\ plan.mode # "parallel" /\ t \in Running
  /\ child' = [child EXCEPT ![t][tries[t]] = Detach(@, "background")]
  /\ files' = [files EXCEPT ![t].status = "running"]
  /\ UNCHANGED <<stop, control, aborted, rootDetached>>

-----------------------------------------------------------------------------
(***************************************************************************)
(* The processes and their timers.                                         *)
(***************************************************************************)
OfChild(t, a) ==
  /\ Idle /\ Live(child[t][a])
  /\ UNCHANGED <<plan, pc, stepIndex, flatIndex, group, tries, stop, aborted,
                 rootDetached, outcome>>

Becomes(t, a, c) ==
  child' = [child EXCEPT ![t][a] = c] /\ UNCHANGED <<control, files>>

\* What an awaited child writes is an update of the call, what a child in the
\* background writes is an update of its status file.
Writes(t, a, c) ==
  /\ child' = [child EXCEPT ![t][a] = c]
  /\ control' = IF Awaited(c) THEN [control EXCEPT !.index = t] ELSE control
  /\ files' = IF c.detached = "background"
              THEN [files EXCEPT ![t].status = "running"] ELSE files

ChildWrites(t, a) ==
  /\ OfChild(t, a)
  /\ \/ Writes(t, a, AssistantFails(child[t][a]))
     \/ \E failed, hasText \in BOOLEAN :
          Writes(t, a, AssistantStops(child[t][a], failed, hasText))
     \/ plan.bridge /\ Writes(t, a, IntercomStarts(child[t][a]))

\* The heartbeat of an awaited child is an update too.
Heartbeat(t, a) ==
  OfChild(t, a) /\ Awaited(child[t][a]) /\ Writes(t, a, child[t][a])

FinalDrainTimer(t, a) ==
  /\ OfChild(t, a) /\ Awaited(child[t][a])
  /\ \/ /\ child[t][a].drain = "grace"
        /\ Becomes(t, a, FinalDrainFires(child[t][a]))
     \/ /\ child[t][a].drain = "hard"
        /\ Becomes(t, a, HardKillFires(child[t][a]))

TimeoutTimer(t, a) ==
  /\ OfChild(t, a) /\ Awaited(child[t][a])
  /\ \/ /\ child[t][a].limit = "armed"
        /\ Becomes(t, a, TimeoutFires(child[t][a]))
     \/ /\ child[t][a].limit = "hard"
        /\ Becomes(t, a, TimeoutKillFires(child[t][a]))

ChildExits(t, a) ==
  /\ OfChild(t, a) /\ child[t][a].proc = "running"
  /\ \E code \in {"zero", "nonzero"} :
       /\ child[t][a].killed => code = "nonzero"
       /\ Becomes(t, a, Exits(child[t][a], code))

AwaitedCloses(t, a) ==
  /\ OfChild(t, a) /\ Awaited(child[t][a]) /\ child[t][a].proc = "exited"
  /\ \E stderr \in BOOLEAN : Becomes(t, a, Closes(child[t][a], stderr))

\* Of a detached process that has ended only how it was detached is kept.
Ended(c) == [Spawned EXCEPT !.proc = "closed", !.detached = c.detached]

DetachedCloses(t, a) ==
  /\ OfChild(t, a) /\ ~Awaited(child[t][a]) /\ child[t][a].proc = "exited"
  /\ \E stderr \in BOOLEAN :
       LET c == Closes(child[t][a], stderr) IN
       files' = IF c.detached = "background"
                THEN [files EXCEPT ![t] = [status |-> BackgroundStatus(c),
                                           result |-> BackgroundResult(c)]]
                ELSE files
  /\ child' = [child EXCEPT ![t][a] = Ended(@)]
  /\ UNCHANGED control

SpawnFails(t, a) ==
  /\ OfChild(t, a) /\ child[t][a] = Attempt(t, stop)
  /\ Becomes(t, a, FailsToSpawn(child[t][a]))

-----------------------------------------------------------------------------
Continue ==
  \/ StepBegins \/ StepCannotBegin \/ DynamicStepIsEmpty \/ ChainEnds
  \/ \E i \in Slots : TaskBegins(i)
  \/ \E t \in Tasks : AttemptEnds(t)
  \/ SingleEnds \/ ParallelEnds \/ ChainStops \/ ChainGoesOn

Requests ==
  \/ Interrupt \/ Abort \/ IntercomDetach \/ DetachRun
  \/ \E t \in Tasks : DetachChild(t)

Processes ==
  \E t \in Tasks, a \in Attempts :
    \/ ChildWrites(t, a) \/ Heartbeat(t, a)
    \/ FinalDrainTimer(t, a) \/ TimeoutTimer(t, a)
    \/ ChildExits(t, a) \/ AwaitedCloses(t, a) \/ DetachedCloses(t, a)
    \/ SpawnFails(t, a)

Next == Continue \/ Requests \/ Processes

Spec == Init /\ [][Next]_vars

\* A killed process ends.
KilledExits(t, a) == ChildExits(t, a) /\ child[t][a].killed

\* The event loop runs what is due, its timers fire, and the streams of a
\* process that has exited are closed: attachPostExitStdioGuard sees to that
\* for a child the call awaits.  No process is assumed to stop by itself.
Due(t) ==
  /\ t \in Running
  /\ \/ TimeoutTimer(t, tries[t])
     \/ KilledExits(t, tries[t])
     \/ AwaitedCloses(t, tries[t])

Fairness ==
  /\ WF_vars(Continue)
  /\ \A t \in Tasks : WF_vars(Due(t))

FairSpec == Spec /\ Fairness

-----------------------------------------------------------------------------
(***************************************************************************)
(* Properties.                                                             *)
(***************************************************************************)
\* The call that was started again in the background leaves no child at the
\* same work: each of its processes was asked to stop, those that were queued
\* when it was detached too, unless it had been let go to talk with its
\* supervisor.  The background run is given every task of the call, finished
\* or not.
DetachLeavesNoDoubleWork ==
  rootDetached =>
    \A t \in Tasks, a \in Attempts :
      Awaited(child[t][a]) => child[t][a].interrupted

\* Status and result file of a child in the background agree once the result is
\* there: it no longer says running, both say paused or neither does, and a
\* result that says complete has such a status.  Two attempts of a task would
\* write the same files.
DetachedTellsOneStory ==
  \A t \in Tasks :
    LET f == files[t] IN
    /\ f.result # "none"
    /\ \A a, b \in Attempts :
         child[t][a] # NoChild /\ child[t][b] # NoChild => a = b
    => /\ f.status # "running"
       /\ f.status = "paused" <=> f.result = "paused"
       /\ f.result = "complete" => f.status = "complete"

\* The call returns, whatever its children ignore and however it is disturbed.
CallReturns == <>(pc = "returned")
=============================================================================
