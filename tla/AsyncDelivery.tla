---------------------------- MODULE AsyncDelivery ---------------------------
(***************************************************************************)
(* How the end of a background run reaches its user.  The runner is a      *)
(* process of its own (AsyncRunner) and leaves a status file and a result  *)
(* file; the extension, in the host process, tracks the runs of its        *)
(* session (async-job-tracker.ts), repairs the files of a runner that      *)
(* died (stale-run-reconciler.ts), and watches for results, which it       *)
(* passes to the run's supervisor and announces (result-watcher.ts,        *)
(* notify.ts).                                                             *)
(*                                                                         *)
(* The host runs one callback at a time, but a runner may write between    *)
(* any two steps of a callback: the reconciler, which looks at the files   *)
(* several times, is therefore split at each look.  A handler that awaits  *)
(* the supervisor lets every other callback run.  On a reload a new        *)
(* instance of the extension takes over; what the old one still awaits     *)
(* goes on.                                                                *)
(***************************************************************************)
EXTENDS Integers, FiniteSets, AsyncFiles

CONSTANTS
  Runs,
  Sessions,
  NoSession,
  Owner,        \* the session that started the run
  MaxLoads,     \* the instances of the extension one host process loads
  MaxCrashes,   \* how often the host process is killed
  MaxFlights    \* the handlers that await the supervisor about one result

ASSUME OwnerAssumption ==
  /\ NoSession \notin Sessions
  /\ Owner \in [Runs -> Sessions]

ASSUME BoundsAssumption ==
  MaxLoads \in Nat \ {0} /\ MaxCrashes \in Nat /\ MaxFlights \in Nat \ {0}

VARIABLES
  files,      \* the process of each run and its two files
  asks,       \* the runs whose result names a supervisor (intercomTarget)
  taken,      \* the pids of dead runners that another process has got
  cur,        \* the instance that is loaded, 0 when the host does not run
  inst,       \* the memory of the instances of this host process
  jobs,       \* state.asyncJobs of cur: the status of each run it tracks
  notified,   \* the global map of notify.ts
  announced,  \* what the user was told of each run, "none" if nothing
  poll,       \* where the poller of cur is in reconcileAsyncRun
  missed,     \* the results written while the watcher of cur was down
  torn,       \* the runs whose repair was cut short between its two writes
  crashes

vars == <<files, asks, taken, cur, inst, jobs, notified, announced, poll,
          missed, torn, crashes>>
host == <<cur, inst, jobs, notified, announced, missed, torn, crashes>>

Loads == 1..MaxLoads
ResultStates == FinalStates \cup {"none"}
FileType ==
  [phase : {"unborn", "spawned", "running", "settled", "over", "dead"},
   status : {"absent", "running"} \cup FinalStates,
   result : ResultStates]
JobStates == {"none", "queued", "running"} \cup FinalStates

\* session: currentSessionId.  watch: the file watcher, or its fallback.
\* due: the timers of the coalescer.  flight: how many handlers await the
\* supervisor with the result they read.  seen: completionSeen.
Fresh == [session |-> NoSession, watch |-> "on", due |-> {}, retry |-> {}, seen |-> {},
          flight |-> [r \in Runs |-> [s \in FinalStates |-> 0]]]

InstanceType ==
  [session : Sessions \cup {NoSession}, watch : {"on", "down", "polling", "closed"},
   due : SUBSET Runs, retry : SUBSET Runs, seen : SUBSET Runs,
   flight : [Runs -> [FinalStates -> 0..MaxFlights]]]

NoPoll == [run |-> "none", at |-> "none", read |-> "none"]

PollType ==
  [run : Runs, at : {"look", "pid", "repair", "mend", "copy"},
   read : {"absent", "running"} \cup FinalStates] \cup {NoPoll}

TypeOK ==
  /\ files \in [Runs -> FileType]
  /\ asks \subseteq Runs /\ taken \subseteq Runs
  /\ cur \in 0..MaxLoads
  /\ inst \in [Loads -> InstanceType]
  /\ jobs \in [Runs -> JobStates]
  /\ notified \subseteq Runs
  /\ announced \in [Runs -> ResultStates]
  /\ poll \in PollType
  /\ missed \subseteq Runs /\ torn \subseteq Runs
  /\ crashes \in 0..MaxCrashes

NoJobs == [r \in Runs |-> "none"]

Init ==
  /\ files = [r \in Runs |->
       [phase |-> "unborn", status |-> "absent", result |-> "none"]]
  /\ asks = {} /\ taken = {}
  /\ cur = 0 /\ inst = [i \in Loads |-> Fresh]
  /\ jobs = NoJobs
  /\ notified = {} /\ announced = [r \in Runs |-> "none"]
  /\ poll = NoPoll /\ missed = {} /\ torn = {} /\ crashes = 0

-----------------------------------------------------------------------------
Results == {r \in Runs : files[r].result # "none"}
Terminal(s) == s \in FinalStates
HostFree == cur > 0 /\ poll = NoPoll

\* The event loop of the host is free to run a callback of instance i.
Turn(i) == HostFree /\ i <= cur

SetFile(r, f) == files' = [files EXCEPT ![r] = f]
Put(i, x) == inst' = [inst EXCEPT ![i] = x]

\* A result was written: the watcher schedules it, unless it is down.
Watched(r) ==
  IF cur = 0 \/ inst[cur].watch = "polling" THEN UNCHANGED <<inst, missed>>
  ELSE IF inst[cur].watch = "on"
  THEN Put(cur, [inst[cur] EXCEPT !.due = @ \cup {r}]) /\ UNCHANGED missed
  ELSE missed' = missed \cup {r} /\ UNCHANGED inst

-----------------------------------------------------------------------------
(***************************************************************************)
(* The runner.                                                             *)
(***************************************************************************)
\* The executor spawns the runner and emits the started event: handleStarted.
Start(r) ==
  /\ HostFree /\ files[r].phase = "unborn"
  /\ inst[cur].session = Owner[r]
  /\ SetFile(r, [files[r] EXCEPT !.phase = "spawned"])
  /\ asks' \in {asks, asks \cup {r}}
  /\ jobs' = [jobs EXCEPT ![r] = "queued"]
  /\ UNCHANGED <<taken, cur, inst, notified, announced, poll, missed, torn,
                 crashes>>

RunnerBegins(r) ==
  /\ files[r].phase = "spawned"
  /\ SetFile(r, [files[r] EXCEPT !.phase = "running", !.status = "running"])
  /\ UNCHANGED <<asks, taken, poll, host>>

\* The runner process ends before it has written a status.
RunnerFailsToBegin(r) ==
  /\ files[r].phase = "spawned"
  /\ SetFile(r, [files[r] EXCEPT !.phase = "dead"])
  /\ UNCHANGED <<asks, taken, poll, host>>

RunnerWorks(r) ==
  /\ \E f \in Leaving(files[r]) \cup Settling(files[r]) \cup Dying(files[r]) :
       SetFile(r, f)
  /\ UNCHANGED <<asks, taken, poll, host>>

RunnerEnds(r) ==
  /\ \E f \in Ending(files[r]) :
       /\ SetFile(r, f)
       /\ IF f.result # files[r].result THEN Watched(r) ELSE UNCHANGED <<inst,
                                                                         missed>>
  /\ UNCHANGED <<asks, taken, cur, jobs, notified, announced, poll, torn,
                 crashes>>

\* Another process gets the pid of a runner that is gone.
PidIsTaken(r) ==
  /\ files[r].phase \in {"over", "dead"} /\ r \notin taken
  /\ taken' = taken \cup {r}
  /\ UNCHANGED <<files, asks, poll, host>>

\* That process ends, too.
PidIsFreed(r) ==
  /\ r \in taken
  /\ taken' = taken \ {r}
  /\ UNCHANGED <<files, asks, poll, host>>

-----------------------------------------------------------------------------
(***************************************************************************)
(* The host and its sessions (extension/index.ts).                         *)
(***************************************************************************)
\* Prime schedules every result in the directory.
Prime(x) == [x EXCEPT !.due = @ \cup Results]

\* The extension is loaded, by a new process or after a shutdown: the watcher
\* of the old instance is closed, its timers and jobs are cleared, and what it
\* awaits, or retries, stays.
Load ==
  /\ poll = NoPoll /\ cur < MaxLoads
  /\ cur' = cur + 1
  /\ inst' = [i \in Loads |->
       IF i = cur + 1 THEN Prime(Fresh)
       ELSE IF i = cur THEN [inst[i] EXCEPT !.watch = "closed", !.due = {}]
       ELSE inst[i]]
  /\ jobs' = NoJobs /\ missed' = {}
  /\ UNCHANGED <<files, asks, taken, notified, announced, poll, torn, crashes>>

\* restoreActiveJobs: the unfinished runs of the session.
Restored(s, r) == Owner[r] = s /\ files[r].status = "running"

\* session_start, once for each instance: resetSessionState.
SessionStart(s) ==
  /\ HostFree /\ inst[cur].session = NoSession
  /\ Put(cur, [Prime([inst[cur] EXCEPT !.due = {}]) EXCEPT !.session = s])
  /\ jobs' = [r \in Runs |-> IF Restored(s, r) THEN "running" ELSE "none"]
  /\ missed' = {}
  /\ UNCHANGED <<files, asks, taken, cur, notified, announced, poll, torn,
                 crashes>>

\* session_compact: the jobs are restored beside those that are tracked.
SessionCompact ==
  /\ HostFree /\ inst[cur].session # NoSession
  /\ jobs' = [r \in Runs |->
       IF Restored(inst[cur].session, r) THEN "running" ELSE jobs[r]]
  /\ UNCHANGED <<files, asks, taken, cur, inst, notified, announced, poll,
                 missed, torn, crashes>>

\* The host process ends, in the middle of the reconciler perhaps.
HostEnds ==
  /\ cur > 0 /\ crashes < MaxCrashes
  /\ cur' = 0 /\ inst' = [i \in Loads |-> Fresh] /\ jobs' = NoJobs
  /\ notified' = {} /\ missed' = {} /\ poll' = NoPoll
  /\ crashes' = crashes + 1
  /\ torn' = IF poll.at = "mend" THEN torn \cup {poll.run} ELSE torn
  /\ UNCHANGED <<files, asks, taken, announced>>

-----------------------------------------------------------------------------
(***************************************************************************)
(* The watcher (result-watcher.ts) and the notices (notify.ts).            *)
(***************************************************************************)
\* The tracker's handleComplete: only a success completes the job.
JobToldOf(r, s) ==
  jobs' = [jobs EXCEPT ![r] = IF @ = "none" THEN "none"
                              ELSE IF s = "complete" THEN "complete" ELSE "failed"]

\* The completion event.  The message for a run that was notified is dropped.
Announce(r, s) ==
  /\ JobToldOf(r, s)
  /\ notified' = notified \cup {r}
  /\ announced' = IF r \in notified THEN announced ELSE [announced EXCEPT ![r] = s]

\* The rest of handleResult, with what was read of the file: the result of a
\* run that was seen is removed, any other is announced first.
Finish(i, x, r, s) ==
  /\ IF r \in x.seen THEN UNCHANGED <<jobs, notified,
                                      announced>> ELSE Announce(r, s)
  /\ Put(i, [x EXCEPT !.seen = @ \cup {r}])
  /\ SetFile(r, [files[r] EXCEPT !.result = "none"])

\* Mutant: the result is marked as seen before the supervisor has answered.
FlyMarked(i, x, r, s) ==
  /\ Put(i, [x EXCEPT !.flight[r][s] = @ + 1, !.seen = @ \cup {r}])
  /\ UNCHANGED <<files, jobs, notified, announced>>

\* handleResult up to its await.
Fly(i, x, r, s) ==
  /\ Put(i, [x EXCEPT !.flight[r][s] = @ + 1])
  /\ UNCHANGED <<files, jobs, notified, announced>>

\* The results of another session are left alone.
Mine(i, r) == inst[i].session = Owner[r]

HandleResult(i, r) ==
  /\ Turn(i) /\ r \in inst[i].due
  /\ LET x == [inst[i] EXCEPT !.due = @ \ {r}]
         s == files[r].result
     IN IF s = "none" \/ ~Mine(i, r)
        THEN Put(i, x) /\ UNCHANGED <<files, jobs, notified, announced>>
        ELSE IF r \in asks
        THEN x.flight[r][s] < MaxFlights /\ Fly(i, x, r, s)
        ELSE Finish(i, x, r, s)
  /\ UNCHANGED <<asks, taken, cur, poll, missed, torn, crashes>>

\* The supervisor acknowledged the result.
Delivered(i, r) ==
  /\ Turn(i)
  /\ \E s \in FinalStates :
       /\ inst[i].flight[r][s] > 0
       /\ Finish(i, [inst[i] EXCEPT !.flight[r][s] = @ - 1], r, s)
  /\ UNCHANGED <<asks, taken, cur, poll, missed, torn, crashes>>

\* Mutant: the file is kept, and nothing comes back to it.
KeepOnly(x, r) == x

\* The file is kept, to be retried in 3 s.
KeepForRetry(x, r) == [x EXCEPT !.retry = @ \cup {r}]

\* 500 ms without an acknowledgement.
NotDelivered(i, r) ==
  /\ Turn(i)
  /\ \E s \in FinalStates :
       /\ inst[i].flight[r][s] > 0
       /\ Put(i, KeepForRetry([inst[i] EXCEPT !.flight[r][s] = @ - 1], r))
  /\ UNCHANGED <<files, asks, taken, cur, jobs, notified, announced, poll,
                 missed, torn, crashes>>

RetryTimer(i, r) ==
  /\ Turn(i) /\ r \in inst[i].retry
  /\ Put(i, [inst[i] EXCEPT !.retry = @ \ {r}, !.due = @ \cup {r}])
  /\ UNCHANGED <<files, asks, taken, cur, jobs, notified, announced, poll,
                 missed, torn, crashes>>

\* The watcher fails and is started again after 3 s, without looking for what
\* was written meanwhile; or it falls back to looking every 3 s.
WatcherFails ==
  /\ HostFree /\ inst[cur].watch = "on"
  /\ \/ Put(cur, [inst[cur] EXCEPT !.watch = "down"])
     \/ Put(cur, [Prime(inst[cur]) EXCEPT !.watch = "polling"])
  /\ UNCHANGED <<files, asks, taken, cur, jobs, notified, announced, poll,
                 missed, torn, crashes>>

WatcherRestarts ==
  /\ HostFree /\ inst[cur].watch = "down"
  /\ Put(cur, [inst[cur] EXCEPT !.watch = "on"])
  /\ UNCHANGED <<files, asks, taken, cur, jobs, notified, announced, poll,
                 missed, torn, crashes>>

PollResults ==
  /\ HostFree /\ inst[cur].watch = "polling"
  /\ Put(cur, Prime(inst[cur]))
  /\ missed' = {}
  /\ UNCHANGED <<files, asks, taken, cur, jobs, notified, announced, poll, torn,
                 crashes>>

-----------------------------------------------------------------------------
(***************************************************************************)
(* The tracker's poller and reconcileAsyncRun (stale-run-reconciler.ts).   *)
(***************************************************************************)
\* The status is read.  Without a status file the run is what the started
\* event said, running, unless it has just begun.
PollBegins(r) ==
  /\ HostFree /\ jobs[r] # "none"
  /\ poll' = [run |-> r, at |-> "look", read |-> files[r].status]
  /\ UNCHANGED <<files, asks, taken, host>>

\* The tracker takes over the status it is given, or, when there is none yet,
\* shows a queued job as running.
JobAfter(job, s) ==
  IF s # "absent" THEN s ELSE IF job = "queued" THEN "running" ELSE job

PollEnds(s) ==
  /\ poll' = NoPoll
  /\ jobs' = [jobs EXCEPT ![poll.run] = JobAfter(@, s)]

PollGoes(at) == poll' = [poll EXCEPT !.at = at] /\ UNCHANGED jobs

Unfinished(s) == s \in {"absent", "running"}

\* A result is there: it corrects an unfinished status, and no other.
PollLooks ==
  /\ poll.at = "look"
  /\ LET there == files[poll.run].result # "none" IN
     IF ~Unfinished(poll.read) THEN PollEnds(poll.read)
     ELSE IF there THEN PollGoes("copy") ELSE PollGoes("pid")
  /\ UNCHANGED <<files, asks, taken, cur, inst, notified, announced, missed,
                 torn, crashes>>

PollCopies ==
  /\ poll.at = "copy"
  /\ LET s == files[poll.run].result IN
     SetFile(poll.run, [files[poll.run] EXCEPT !.status = s]) /\ PollEnds(s)
  /\ UNCHANGED <<asks, taken, cur, inst, notified, announced, missed, torn,
                 crashes>>

\* Mutant: the status alone decides, whoever has the pid.
StaleAnyway(r) == TRUE

\* No runner writes the status any more.
Stale(r) == files[r].phase \in {"over", "dead"}

\* Nobody has the pid, or the status that was read is a day old, which it never
\* is while a runner lives: repair.  The day may not be over, or the first second
\* of a run without a status: nothing is done.  Without a status every look
\* counts as an update (buildStartedStatus), so that no day is ever over then.
PollChecksPid ==
  /\ poll.at = "pid"
  /\ \/ /\ Stale(poll.run)
        /\ poll.run \notin taken \/ poll.read # "absent"
        /\ PollGoes("repair")
     \/ /\ ~Stale(poll.run) \/ poll.run \in taken \/ poll.read = "absent"
        /\ PollEnds(poll.read)
  /\ UNCHANGED <<files, asks, taken, cur, inst, notified, announced, missed,
                 torn, crashes>>

\* writeFailedRepair: the result, which names no supervisor, then the status.
PollRepairs ==
  /\ poll.at = "repair"
  /\ SetFile(poll.run, [files[poll.run] EXCEPT !.result = "failed"])
  /\ asks' = asks \ {poll.run}
  /\ Watched(poll.run) /\ PollGoes("mend")
  /\ UNCHANGED <<taken, cur, notified, announced, torn, crashes>>

PollMends ==
  /\ poll.at = "mend"
  /\ SetFile(poll.run, [files[poll.run] EXCEPT !.status = "failed"])
  /\ PollEnds("failed")
  /\ UNCHANGED <<asks, taken, cur, inst, notified, announced, missed, torn,
                 crashes>>

\* Ten seconds after its end a job is forgotten.
CleanupTimer(r) ==
  /\ HostFree /\ Terminal(jobs[r])
  /\ jobs' = [jobs EXCEPT ![r] = "none"]
  /\ UNCHANGED <<files, asks, taken, cur, inst, notified, announced, poll,
                 missed, torn, crashes>>

-----------------------------------------------------------------------------
Runner(r) ==
  RunnerBegins(r) \/ RunnerFailsToBegin(r) \/ RunnerWorks(r) \/ RunnerEnds(r)

PollSteps == PollLooks \/ PollCopies \/ PollChecksPid \/ PollRepairs \/ PollMends

Handlers(i, r) ==
  HandleResult(i, r) \/ Delivered(i, r) \/ NotDelivered(i, r) \/ RetryTimer(i, r)

Watcher == WatcherFails \/ WatcherRestarts \/ PollResults

Next ==
  \/ \E r \in Runs : \/ Start(r) \/ Runner(r) \/ PidIsTaken(r)
                     \/ PidIsFreed(r) \/ PollBegins(r) \/ CleanupTimer(r)
                     \/ \E i \in Loads : Handlers(i, r)
  \/ Load \/ SessionCompact \/ HostEnds \/ Watcher \/ PollSteps
  \/ \E s \in Sessions : SessionStart(s)

Spec == Init /\ [][Next]_vars

TimeIsUp(r) == poll.run = r /\ PollChecksPid /\ poll'.at = "repair"

\* Runners begin and end, the host runs the callbacks that wait for it (those of
\* its present instance suffice), and a supervisor that is asked again and again
\* answers.  A day passes, and a second: a dead run that may be repaired on look
\* after look is repaired at last.  That the pid of a run without a status is
\* given back is not assumed.
FairSpec ==
  /\ Spec
  /\ WF_vars(PollSteps) /\ SF_vars(PollResults)
  /\ \A r \in Runs :
       /\ WF_vars(Runner(r)) /\ SF_vars(PollBegins(r)) /\ SF_vars(TimeIsUp(r))
       /\ SF_vars(HandleResult(cur, r)) /\ SF_vars(Delivered(cur, r))
       /\ SF_vars(RetryTimer(cur, r))

-----------------------------------------------------------------------------
(***************************************************************************)
(* Properties.                                                             *)
(***************************************************************************)
\* A result file is removed only when its user has been told of the run,
\* whichever handlers met at it.
TakenMeansTold ==
  [][\A r \in Runs : files[r].result # "none" /\ files'[r].result = "none"
       => announced'[r] # "none"]_vars

\* What the user was told is what the status says, whatever runner, reconciler
\* and watcher did between each other's steps: only a host that dies between the
\* two writes of a repair leaves two stories behind.
ToldMatchesStatus ==
  \A r \in Runs : announced[r] # "none" /\ r \notin torn =>
    files[r].status = announced[r]

\* The host runs in the run's session, and its watcher was not down when the
\* result was written.
Attended(r) == cur > 0 /\ inst[cur].session = Owner[r] /\ r \notin missed

\* The runner left no result, and the reconciler cannot see that it is gone: the
\* status is final, or no job stands for the run, or there is no status and the
\* pid is somebody's.
Silent(r) ==
  /\ files[r].phase \in {"over", "dead"} /\ files[r].result = "none"
  /\ \/ Terminal(files[r].status)
     \/ jobs[r] = "none"
     \/ files[r].status = "absent" /\ r \in taken

\* A user who stays in the session of a run is told of its end, whatever was
\* retried and whatever host processes ended before.  Left out are the runs that
\* stay, or become again and again, silent: a runner that dies, or cannot write,
\* between its final status and its result; one that dies after a reload that
\* came before its first status, which restored no job for it; and one that dies
\* before its first status, for as long as another process has its pid.
EndIsReported ==
  \A r \in Runs :
    <>[](Attended(r) /\ files[r].phase # "unborn" /\ ~Silent(r))
      => <>(announced[r] # "none")
=============================================================================
