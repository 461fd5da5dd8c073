# Verification of pi-ext

pi-ext is a set of extensions of the *pi* coding agent. Each extension runs
inside the agent's process, keeps its own state, and is driven by the host's
events (`session_start`, `input`, `turn_start`, `agent_end`, ...), by slash
commands of the user and by tools the model calls. This directory holds TLA+
modules that model the extensions' core logic, TLC configurations that check
them on small instances, and TLAPS proofs for every value of the constants.

Paths below are relative to `src/packages/`.

## 1. Inventory

| component | state | operations | properties that make it correct |
|---|---|---|---|
| **pi-codex-goal: goal ledger** (`src/state.ts`, `goal-transition*.ts`, `goal-persistence.ts`, `goal-accounting.ts`, `goal-state-controller.ts`, `commands.ts`, `tools.ts`) | the goal in memory, the goal believed durable, the time of the last flush, the accounting's owner and start, the session log | `/goal` commands, `create_goal` and `update_goal`, end of turn / tool / run, restart, tree move, shutdown | the belief about the log is right; a crash loses only time; budget and status agree; tokens are charged once; finished goals stay finished |
| **pi-codex-goal: stale-work guard** (`src/stale-queued-work-*.ts`, `goal-runtime-*-handlers.ts`) | runnable or stale queued work, the turn in progress, an abort in progress, obligations for late terminal events | `message_start`, `context`, `turn_start`, tool end, `turn_end`, `agent_end`, compaction, input | late ends of aborted turns are skipped and no others; nobody is charged while a stale turn is being aborted |
| **pi-codex-goal: recovery** (`src/recovery*.ts`, `goal-runtime-session-handlers.ts`) | compaction attempts, pending or paused attention, host-overflow phase, a durable flag in the log | errors at end of turn and run, compaction, shutdown, user input | the flag in the log mirrors the phase; retries are capped across restarts; a healthy goal resumes |
| **pi-codex-goal: continuation** (`src/continuation-scheduler.ts`, `queued-goal-*.ts`) | one timer, the goal a continuation is queued for | schedule, send, clear, drop on arrival | at most one continuation per goal; none for a stopped goal; an active goal is continued |
| **pi-subagents: background runner** (`src/runs/background/subagent-runner.ts`, `src/runs/shared/`) | the payload of the status file, the tasks of the group that is awaited, the children and their timers, the result file | steps, groups, fan-out, fallback of models, time limits, stop signal, final outcome | the run ends; a run that lost a task is not complete; the result comes after the children and says what the status says |
| **pi-subagents: delivery** (`result-watcher.ts`, `async-job-tracker.ts`, `stale-run-reconciler.ts`, `notify.ts`, `completion-dedupe.ts`) | the runs tracked, results scheduled, awaited, seen and announced; pids | poll, repair of a dead run, watch, supervisor's receipt, announcement, reload | the end of a run is told once, as one story, and is not lost |
| **pi-subagents: foreground runs and chains** (`src/runs/foreground/`) | one call: its step, tasks, children, interrupt, detach handles | spawn, time limit, interrupt, abort, detach, results | the call returns; what is moved to the background is not done twice |
| **pi-subagents: extension, agents, intercom, workflow, slash commands, TUI** | definition files, requests to and from supervisors, widgets | register, parse, render, route | - |
| **pi-mcp-adapter: connections** (`server-manager.ts`, `lifecycle.ts`, `init.ts`, `index.ts`) | connections and connects in progress, requests in flight, a generation counter | connect, close, health check, idle close, session start and shutdown | one connection per server; closed is closed; an old initialisation is shut down |
| **pi-mcp-adapter: OAuth** (`mcp-auth-flow.ts`, `mcp-callback-server.ts`, `mcp-oauth-provider.ts`, `mcp-auth.ts`) | one callback server and its endpoint, reserved and awaited states, transports and timers, the entries on disk | start, authenticate, callback, pasted code, exchange, time-out, logout, shutdown | an endpoint stays while it is needed and is free afterwards; codes meet their own flow; a logout is final; whoever waits is answered |
| **pi-mcp-adapter: tools, UI sessions, configuration, panels** | per-session consent, caches, terminal panels | call, render, read, write | - |
| **pi-openviking** (`session.ts`, `client.ts`, `recall.ts`, `tools.ts`) | pending size, commit task; the messages live in a server | add, commit, poll, recall | every task is polled |
| **pi-tmux-process-manager** (`src/lib/`, `src/tools/`) | state file, lock file, windows of a tmux server | run, list, stop, poll | the state file follows the windows |
| **pi-hashline-tools** | text files, caches | read, edit, grep, write | an anchor names one line |

### How they interact

The extensions do not call each other; each is a component by itself, and what
is modelled together is what interacts.

*pi-codex-goal.* Everything goes through the goal: the handlers consult the
*guard* first (is this event the late end of an aborted turn?), then charge and
flush through the *ledger*, then let *recovery* look at an error or
*continuation* schedule the next turn. The host runs one handler at a time, but
between two of its events user commands, timers and tool ends take place in any
order. The only thing that outlives a process is the session log, a tree of
entries of which the extension sees one branch.

*pi-subagents.* A foreground call spawns children and awaits them in the host. A
background run is a process of its own: host and runner share a directory with a
status file and a result file, a pid, and a stop signal. Either may die while the
other goes on. A foreground child that is detached is written about in the same
two files, but by the host.

*pi-mcp-adapter.* Tool calls, commands, the health check and the sessions' starts
and ends are callbacks of one event loop over shared maps; nearly each of them
awaits something, and any other may run meanwhile.

### What is hard

- **Crashes and tree moves.** The goal is replayed from whatever prefix of the
  log is left, and short *usage* entries count only after a matching full entry.
- **Deferred writes.** Runtime usage is kept back for up to a minute.
- **Late, combined and lost events.** Aborting a turn is asynchronous.
- **Commands during a turn.** A goal is replaced, paused or cleared while the
  handlers of an older turn still run.
- **Clock set-backs.** Elapsed time comes from the wall clock.
- **Timers that must not be lost.** An active goal is kept going by a chain of
  events and timers, any link of which may be cut; a child that ignores signals is
  ended by a timer only.
- **Two processes, two files.** The reconciler reads and repairs files a runner may
  still write; both may die between two writes.
- **Awaits.** What was read before an await, a connection, a session, a result
  file, is another one after it.

`PROJECT.json` lists each hazard at its line with the properties that watch it.

## 2. Modules

| | module | composes | proved |
|---|---|---|---|
| 1 | `GoalState`, `GoalTransition`, `GoalLedger`, abstract `GoalLifecycle` | ledger over transitions over goal records | type, mirror, crash, budget, owner, monotonicity |
| 2 | `StaleQueuedWork`, `StaleWorkRuntime` | the handlers and the host around the reducer | type, guard invariant, turn ends and agent ends told apart |
| 3 | `GoalRecovery`, `ContinuationScheduler`, `GoalRuntime` | recovery and scheduler over `GoalTransition`'s plans and the reducer of 2, with the host's queue and timers | type, flag mirrors the log, mark is backed, overflow cap, attention fits, an active goal is awaited |
| 4 | `AsyncChild`, `AsyncRunner`, abstract `AsyncRun` | one child process, the run around it | refinement of `AsyncRun`, results come last, fail-fast, complete means done, outcomes are counted |
| 5 | `AsyncFiles`, `AsyncDelivery` | the runner as its two files, the host around them | type, one story, removed means told |
| 6 | `ForegroundChild`, `ForegroundRun` | one child process, the call around it | no work is done twice, detached children tell one story |
| 7 | `McpServers` | managers, health checks, sessions and calls | one connection per server, no state is forgotten, requests match their count |
| 8 | `OAuthCallback`, `OAuthFlow` | the flows over the callback server, the entries and the transports they share | a pending flow's endpoint is kept, reservations are released, codes meet their flow, logouts are final, callbacks are answered |

`AsyncFiles` says what a runner may do to its files. `AsyncRun` is the abstract
specification made of it, `AsyncRunner` is shown to implement it, and
`AsyncDelivery` takes its runners from it: the two halves of a background run meet
there. An `MC` module beside each specification has the instances for TLC, a
`_proofs` module its theorems.

## 3. The goal ledger

`GoalState` has the goal record, the log entries and what reading them back
gives (`ReconstructGoal`, a recursive function, so that it can be proved about).
`GoalTransition` is the planner: from a goal, a reason and a next goal to a
plan of what to keep, what to write and what to clear. `GoalLedger` has the
state and one action per handler. A handler of the code runs to completion, so
one action is one handler: it applies *account, flush, pause* one after the
other to the record `led`, exactly in the code's order, and the early returns
and the exception of a refused plan are where the code has them.

| variable | code |
|---|---|
| `led.goal` | `goal` of `createGoalPersistence` |
| `led.persisted`, `led.persistedAt` | `lastPersistedGoal`, `lastRuntimePersistAt` |
| `led.owner`, `led.since` | `accounting.activeGoalId`, `lastAccountedAt` |
| `led.log` | the custom entries of the session branch |
| `run`, `dialog`, `alive` | where the host is: in a turn, in a confirmation, between processes |
| `now` | `Date.now()`, in ticks |
| `usedIds`, `spent`, `navs` | only counted, for properties and bounds |

`GoalLifecycle` is the abstract specification: what a user is promised about the
current goal of a session, and which statuses can follow which. `GoalLedger`
refines it with `led.goal` as the goal.

Other components show in the ledger as choices: a recovery may give up or not,
the guard may skip an event or drop the accounting (which they do when is the
subject of sections 4 and 5). Every such choice is one
the code makes in some state, so a safety property of the ledger holds for the
whole extension.

### Runs

- **GoalLedger** (307 000 states): two goals, budgets 1 and 2, turns of 0 or 1 tokens,
  at most 2 tokens in all, logs of up to 2 entries when a handler starts (and more when
  it ends), one tree move, a clock that jumps between 0 and 1, so it runs across the
  flush interval of 1 and is set back. Two goals are needed for replacement, and any
  property speaks of at most two goals at a time; a budget is reached in one turn or
  missed by one; one tree move reaches any earlier prefix. All
  of its properties are also proved for every log and clock (section 10).
- **GoalLedgerOldTurn** is expected to fail; see *Findings*.

## 4. The stale-work guard

`StaleQueuedWork` translates the reducer and its helpers: a record `guard` with
the queued work, the turn in progress, the abort in progress and the obligations
for terminal events to come. The code walks its list of obligations and takes those
an `agent_end` meets out as it goes; the model says which positions are met
(`ByGoalAt`, `AnonymousFirst`) and what is left without them (`Without`), so that it
can be proved about. `StaleWorkRuntime` puts the handlers around it, and a host
that starts runs, aborts them and reports their ends *late, combined with their
neighbours', or never*. What is assumed of the host (its source is not here) comes
from the tests: the first turn of a run starts with a message; ends come in the
order of their turns, so that only neighbours are reported in one; an `agent_end`
without messages comes after the `turn_end` of its turn; turn indexes rise within a
session and restart with a new runtime. That only neighbours are combined matters:
with three goals and four turns, an end for the first and third of three aborted
turns would take the third's obligation, and the second's end would then be handled.

The run **StaleWork** has two goals and three turns per session: one aborted
turn, one overtaking it and one that must not be mistaken for either. Two
sessions give the restart of indexes. All of its properties are also proved for any
number of goals and turns (section 10).

Two limits of the code are visible and left as documented exceptions. If a goal
is paused and resumed so that it has work in an aborted turn *and* in a running
one, its id cannot tell their ends apart (`NoGoalOnBothSides`). An `agent_end`
without messages counts as current once newer work has reached the model.

## 5. Recovery, continuation and the runtime

Three modules model what keeps an active goal going.

- `GoalRecovery`: the recovery machine (`recovery-machine.ts`, `recovery-phase.ts`,
  `recovery.ts`). The code's four phases are the values of two flags, `recovering`
  and `needsUser`.
- `ContinuationScheduler`: the extension's memory as one record, the scheduler
  (`continuation-scheduler.ts`), what a change of the goal does to both, and the
  flag in the log (`goal-state-controller.ts`, `recovery-runtime.ts`). Each operation
  is a function on the record. The effects of a change are those `GoalTransition`
  plans, so this module and the ledger share the planner.
- `GoalRuntime`: one action per handler, timer and host step
  (`goal-runtime-*-handlers.ts`, `commands.ts`, `tools.ts`), which applies the
  operations in the handler's order, over the reducer of `StaleQueuedWork`.

| variable | code |
|---|---|
| `mem.goal`, `mem.cap` | the goal; the last `host_overflow_cap_reset` entry of the branch |
| `mem.rec` | `runtimeState.recoveryState` |
| `mem.queuedFor`, `mem.timerFor` | `continuationQueuedFor`, `continuationScheduledFor` with its timer |
| `mem.fallback` | the timer set by `onSessionCompact`, and whether a turn has started since |
| `mem.guard` | the state of `staleQueuedWorkGuard` |
| `mem.warned` | `accounting.budgetWarningSentFor` |
| `mem.queue`, `mem.inbox` | what `sendMessage` has queued in the host; what `sendUserMessage` has sent and `onInput` has not seen |
| `open` | `session_start` has run in this process |
| `phase`, `fresh`, `carried`, `last`, `retry`, `accepted` | the host: where its run is, whether the turn is yet to start a message, whose messages the run was given, how the turn ended, whether it will retry, a prompt between `input` and its delivery |
| `older` | one earlier point of the log, for tree moves |
| `used`, `gaveUp` | ids given out; a handler has just chosen not to continue (properties only) |

**Abstractions.** The goal is its id and status: `GoalLedger` shows that these are
always durable (`OnlyTimeIsDeferred`), so a crash keeps them. Accounting is the
question whether a charge is nothing, some usage, or reaches the budget; between
the ends of turns only time is charged, which reaches no budget. A timer may fire
at any time after it is set, so its delays are left out. The number of transient
attempts and the failure signature decide nothing in the code and are left out.
The user's answers at session start (resume or not), each with its dialog, are
one action. An input that only looks like a continuation is left out.

**What is assumed of the host** (its source is not here; the tests and the
handlers show it): the ends of turns come in order and are not lost - late and
lost ends are the subject of section 4 - so one turn index is enough; during
`agent_end` the host is not idle (`test/continuation.test.ts:278`); hidden
follow-ups wait until the model stops, the user's messages and the budget
warning steer; messages queued in an idle host start a run; after an overflow
compaction or a transient error the host retries the turn, or it does not;
`before_agent_start` comes only for a prompt to an idle host.

### Runs

- **GoalRuntime**: two goals, at most one message waiting when the user acts (the
  extension adds its own to it), two overflows counted, symmetric in the goals:
  333 313 states. Two goals are needed for replacement, and a property speaks of
  the current goal and of one more that has queued work. The cap is one
  compaction, so two overflows cross it. Invariants:
  - `QueuedMarkHasMessage`: the mark that blocks continuations never outlives
    the messages of its goal.
  - `RepeatedOverflowPauses`: an active goal has not overflowed again after a
    compaction without a success in between.
  - `AttentionFitsGoal`: pending attention is of an active goal, paused attention
    of a paused one.
  - `ActiveGoalIsAwaited`: an active goal always has a run, a message, a timer or a
    recovery to come, unless a handler has just given a continuation up. `gaveUp`
    names the places: an `agent_end` skipped by the guard, a fallback timer that
    finds the host busy or a turn started, a tree move that cancels it.
- **GoalRuntimeTree**: one goal and a bookmark to move back to; 493 085 states.
  `CapFlagMirrorsLog`: the in-memory flag that asks for a user's turn is the one a
  restart would read, also after a move in the session tree. `RepeatedOverflowPauses` and `AttentionFitsGoal` are not stated here: recovery is
  not part of the log, so a move back to a point where the same goal was active
  keeps a *paused* attention and the overflow count: until the next reset the status
  line is wrong, and one more overflow pauses the goal at once.
- **GoalRuntimeLive**: one goal, with fairness; 66 195 states. `HealthyGoalGetsTurn`:
  an active goal that no recovery holds back and no handler gave up gets another
  turn, or stops being such a goal.

**Fairness.** Weak fairness of the host's own steps, of input and its delivery and
of both timers: an event loop gets to them. Strong fairness of the continuation
timer finding the host idle: the timer polls every 50 ms, and a host that is idle
again and again is not missed every time. Without it the timer could fire only
during compactions, and the user could ask for these for ever. Nothing is assumed
of the user, of compactions he asks for, of crashes, or of a model's choices: a
turn may call tools for ever, but then the goal has turns.

## 6. Background runs

### The runner

`AsyncChild` is one child process: a record, and an operator for every handler and
timer (`subagent-runner.ts:300-560`, `post-exit-stdio-guard.ts`). `AsyncRunner` is
`runSubagent` around it: the loop over the steps, groups with a limit, groups whose
items come from an earlier output, the next model after a retryable error, the stop
signal, the final outcome and the two files.

| variable | code |
|---|---|
| `plan` | the configuration: steps, whether the run only reads, whether it is shared |
| `pc` | how far the process is: the loop, a group awaited, `share`, the final status, the result, gone |
| `stepIndex`, `flatIndex`, `group`, `tries` | the indexes of the loop, the state of `mapConcurrent`, the attempt of a task |
| `steps`, `state`, `err` | `statusPayload.steps`, `.state`, `.error`: every change is written, so they stand for the file |
| `results`, `resultFile` | `results`; the state in the result file |
| `interrupted`, `active` | `interrupted`; the task whose interrupt is in `activeChildInterrupt` |
| `child` | processes, with their drain, limit and interrupt timers |

The runner is one thread: actions guarded by `Idle` are callbacks, the others go on
with one to its next await. It may be killed at any moment (`pc = "dead"`).

**AsyncRunner** (99 906 states) has four plans: a parallel group of two at once; a
fail-fast group, one at a time, in worktrees, with two models, of a run that only
reads and is shared; and two chains with a fanned-out group. Width and models of 2
give every case of the code: a task that runs, one that waits, a retry; wider groups
add only more of them. `CompleteMeansDone`, `ResultAfterChildren` and
`EveryOutcomeCounts` relate the status, the results and the children;
`ImplementsAsyncRun` is the refinement; `RunReachesItsEnd` is that the run ends. A
run may stop there, so deadlock is not checked. **AsyncRunnerStop** is expected to
fail, see section 11.

**Fairness.** The runner's own steps, its time limit, the exit of a child that was
sent SIGKILL and the closing of its streams after the exit (which the stdio guard
enforces). Where a run is shared, the export of its session is assumed to end, one way or
the other: the runner awaits it between its last task and its final status, and nothing
limits it. No child is assumed to end by itself or to heed SIGINT or SIGTERM, and nobody
is assumed to stop the run.

### The delivery

`AsyncDelivery` takes the runner as what it does to its files (`AsyncFiles`) and
models the host: the poller with the reconciler, split at each look at the files; the
watcher with its coalescer and its restart; the handlers that await a supervisor and
their retries; announcements; reloads, new sessions and the death of the host.

| variable | code |
|---|---|
| `files[r]` | the runner's phase, the state in its status file and in its result file |
| `asks`, `taken` | results with an `intercomTarget`; pids another process has now (they may be given back) |
| `cur`, `inst[i]` | the loaded instance; per instance `currentSessionId`, the watcher, the coalescer's timers, `flight` (handlers that await the supervisor), retry timers, `completionSeen` |
| `jobs`, `notified`, `announced` | `state.asyncJobs`; the global map of `notify.ts`; what the user was told |
| `poll` | where `reconcileAsyncRun` is, and the status it read |
| `missed`, `torn`, `crashes` | ghosts: written while the watcher was down; repaired by halves; a bound |

**AsyncDelivery** (53 054 states): one run, two sessions (the run's own and another
the user may be in), two instances, one death of the host, two handlers at once. Runs
share nothing but the poller, which looks at one after the other, so one run has all
the interleavings a property of one run can tell apart.

- `ToldMatchesStatus`: what the user was told is what the status says, although a
  reconciler may find *no result*, then a dead pid, and overwrite what the runner wrote
  in between. Told and overwritten happens only if the host dies between the two
  writes of a repair (`torn`).
- `TakenMeansTold`: a result is removed only when it was told.
- `EndIsReported`: a user who stays in the run's session is told of its end. Left out,
  since the code does not promise or keep it: results written while a failed watcher is
  down (`missed`; it looks again only when a session starts), and runs that stay `Silent`,
  or become so again and again: the runner died between its final status and its result;
  or before its first status, after a reload that did not see it; or before its first
  status, and another process has its pid. Without a status file every look counts as an
  update of the run (`stale-run-reconciler.ts:154`), so that the age at `:330` is always
  zero and the run is neither repaired nor reported while the pid is somebody's, although
  its job is tracked.

**Fairness.** Runners make progress; the host runs the callbacks that wait for it;
strong where the host must be free or loaded at the time (it is again and again, since
reloads and deaths are bounded). A supervisor that is asked again and again answers
(`Delivered`): the code asks for ever. Time passes (`TimeIsUp`): if the run has a status
file, a pid taken by another process hides its dead runner for at most a day
(`stale-run-reconciler.ts:330`); if it has none, only the first second after its start is
assumed to pass, and nothing about when, or whether, the pid is given back.

## 7. Foreground runs

`ForegroundChild` is `runSingleAttempt` (`execution.ts`), `ForegroundRun` one call of
the tool in its three modes: the loop over the steps, `mapConcurrent`, the loop over
models, the interrupt control, the abort signal, and the three ways to detach - the
call as a whole (a parallel call, started again as a background run), one child to the
background (its status and result files are written by the host), one child for a talk
with its supervisor.

| variable | code |
|---|---|
| `plan`, `pc`, `stepIndex`, `flatIndex`, `group`, `tries` | as in `AsyncRunner`; `flatIndex` is `globalTaskIndex` |
| `child[t][a]` | the processes of a task, one for each attempt |
| `stop`, `control` | aborted `interruptController`s; `foregroundControl`: its index and whom it interrupts |
| `aborted`, `rootDetached` | the call's signal; the call was started again in the background |
| `files[t]`, `outcome` | what a detached child's files say; what the call returned |

**ForegroundRun** (312 451 states) has four calls: a single task with two models and a
supervisor; two tasks one at a time with two models; two at once; a fail-fast chain of a
fanned-out group and a step. `DetachLeavesNoDoubleWork`: when a call was moved, every
process it still awaits was told to stop, queued tasks included. `DetachedTellsOneStory`:
the two files of a detached child agree. `CallReturns`, with fairness of the event loop,
the timers of a child that is awaited, the exit of a child that was sent SIGKILL and the
close of its streams.

One call is modelled; several share only the table of detach handles. `DetachChild` may
pick any running child, the code the one registered last.

Seen while modelling; no document says otherwise:

- A detached child that exits with 0 after an error of its provider has the status
  *complete* and the result *failed* (`execution.ts:804` against `:239`);
  `DetachedTellsOneStory` is stated to allow it.
- A child detached after its time limit fired keeps the error of the limit: `runSync`
  tries the next model while it lives on, and both write the same files. The property
  leaves such tasks out.
- An abort sends SIGTERM; the SIGKILL that should follow asks `!proc.killed`, which is
  false by then (`execution.ts:873`). Only the time limit ends such a child.
- The interrupt of a call is withdrawn by the end of whichever task sent the last update,
  so that a running child can become uninterruptible (`subagent-executor.ts:1701`).
- One request of a supervisor detaches every child whose intercom tool has started.
- Worktrees are cleaned up while a detached child still works in one.

## 8. MCP servers

`McpServers` has, per session of the host, a server manager and a health check, and
around them the sessions (`index.ts`), their initialisation (`init.ts`) and the calls
and commands that use connections. Each action is a callback up to its next await. An
operation of the manager is an operator from a manager to a manager (`Connect`, `Close`,
`Shutdown`, `Stored`).

| variable | code |
|---|---|
| `gen`, `state`, `init` | `lifecycleGeneration`; the sessions `state` and `initPromise` belong to |
| `phase[g]` | how far a session's start and initialisation are; *init* and *direct* are the two waves of connects (`init.ts:131`, `:179`) |
| `mgr[g].map`, `.promise`, `.conn` | `connections`, `connectPromises`, the connections with their status and requests in flight |
| `mgr[g].startup`, `.health`, `.rest`, `.shut` | servers still to connect; the interval; what a check that awaits has yet to look at; shut down |
| `call[q]` | where a call is, and what it remembers across awaits |
| `lost`, `conn[c].heir` | ghosts, see below |

**McpServers** (1.5 million states): a keep-alive and a lazy server, one call, two
sessions, two connections open or closing per manager. Two sessions are what a
generation number has to tell apart; two connections are the old one that closes and the
new one that opens; the call overlaps with the checks, closes, connects and shutdowns.
No liveness is claimed: what a server does is its own affair. The system may stop when
its sessions are used up.

- `OneConnectionPerServer`: `CHANGELOG.md:275`, concurrent close and connect leave no
  server nobody can find.
- `SessionsAreShutDown`: an initialised session is current, shut down, or `lost`. One
  whose initialisation failed has no state, see below.
- `RequestsAreCounted`: a connection counts the requests on it, so that the idle check
  does not close one in use - unless it is an `heir`.

Seen while modelling:

- A proxy call or command that awaits the initialisation assigns the result to the
  current state (`index.ts:161`, `229`, `298`). If another session began meanwhile, the
  newer state is replaced by one that was shut down, and nobody shuts it down (`lost`),
  although `CHANGELOG.md:191` says that stale results no longer replace newer state.
- Requests are counted by server name (`server-manager.ts:397`). After a reconnect the end
  of a request on the old connection is counted off the new one (`heir`), which can then
  be closed while in use, see `CHANGELOG.md:268`.
- An initialisation may fail after it has connected: the metadata of a server of the first
  wave is saved outside any `try` (`init.ts:154`). Nobody has the manager then, and its
  connections stay open (`InitFails`).
- The proxy tool uses the connection it awaited without a second look
  (`proxy-modes.ts:777`). If another callback of the same promise closed it meanwhile, the
  request goes to a connection that is closing, and no connection counts it (`UsesClosing`).
- A connect in progress at `closeAll` is stored afterwards in a manager that is shut down
  and stays open. Nothing listens to the end of a server, so a keep-alive server that
  exits stays *connected* and is not connected again (`README.md:169`).

These are not runs: they need no search once stated, and the invariants name the cases
with ghosts instead.

## 9. OAuth flows

`OAuthCallback` has what all authorisations of a process share, as two records and the
operations on them; `OAuthFlow` has the calls of `startAuth` and `authenticate`, the
exchanges of codes, the browser, the user, the timers, logouts and the shutdown. An action
is a callback up to its next await of the network, a socket, a timer or the browser.
Awaits of functions that wait for nothing (`getAuthForUrl`, `clearOAuthState`; the PKCE
digest) are not interrupted.

| variable | code |
|---|---|
| `maps.reserved`, `maps.pending` | `reservedAuthStates`; `pendingAuths`, with the flow that awaits the promise |
| `maps.answer[f]` | how the promise that flow `f` awaits was settled |
| `maps.held[s]` | `pendingTransports`, `pendingAuthStates` and the clean-up timer, which are set and deleted together |
| `maps.store[s]` | the entry of `mcp-auth.ts`: state, PKCE verifier, client with its redirect URI, tokens |
| `server` | `server`, the port, host and path of the module, `bindingPromise` with the server being bound |
| `flow[f]` | a call: how far it is, its `redirectUrlSnapshot`, the state in its URL, the state it awaits |
| `exchanges` | calls of `completeAuth` in `finishAuth`: whose code, by whose transport, with which verifier |
| `orphans`, `crossed`, `forgotten`, `revoked` | ghosts, see below |

A flow is a call of `startAuth`, by itself or inside `authenticate`, and stands for the
random state it makes. The SDK is not here: it is modelled by the callbacks it makes on the
provider - register, refresh, invalidate, redirect, verifier - in the order its `auth` makes
them, and by what an authorisation server has to check, that a code comes with the verifier
and the redirect URI it was asked for with.

**OAuthFlow** (1.2 million states): three MCP servers, one that takes any port and two whose
redirect URIs differ in the path only, so that an endpoint is switched by host and port, or
by path; two flows, in any overlap of one or two servers; a pasted code; a logout or a
shutdown. Each property speaks of one flow and of what one other does to it. A client id
that is configured without a redirect URI is in the model and not in this instance. Nothing
is claimed about what eventually happens - the user and the browser need not come back - so
there is no fairness; that no call waits for ever is stated as `CallbacksAreAnswered`.

- `EndpointIsKept`: a pending flow's redirect URI leads to the callback server, whatever
  endpoints others ask for (`CHANGELOG.md:146`). Flows that a shutdown overtook are left
  out (`orphans`; a shutdown of the server they were given counts too, `adrift`), and so are
  overlapping starts of one server (`crossed`).
- `ReservationsAreReleased`: a reserved state belongs to a flow being started or held.
- `CodesMeetTheirFlow`: a code is exchanged through the transport it was granted to.
- `LogoutIsFinal`: tokens do not come back after a logout. What was already with the token
  endpoint is left out, and so are flows whose URL is not out yet: a logout does not stop a
  start.
- `CallbacksAreAnswered`: a call that awaits a callback has an answer or a timer.

Left out: client credentials, `getValidToken` (nothing calls it), a server URL that changes,
the secrecy and expiry of credentials, the refresh of tokens by a connection, and the files.

Seen while modelling:

- A start that fails while another flow's transport is held for its server keeps its
  reservation: `clearPendingAuth` returns early (`mcp-auth-flow.ts:248`). Until the session
  ends no other endpoint can be used (`forgotten`).
- Starts of one server that overlap, a start beside an `authenticate` or another start,
  share one stored state and verifier. The code of one may be exchanged through the
  transport of the other, where the verifier does not fit (`crossed`); a second start makes
  the callback of the first fail, and that failure clears the state of the second
  (`mcp-auth-flow.ts:414`). If both hand out the URL of the same state, a denial in one
  browser releases the reservation that the other still needs, and a third flow may move the
  callback server. Two flows are too few to show this; the attempt to prove `EndpointIsKept`
  for any number of flows did, and `crossed` left it out since.
- A shutdown may come after the new server of a rebind listens and before the old one is
  closed. `stopCallbackServer` then resets the port of the module (`mcp-callback-server.ts:344`)
  which was set at `:258`, and the new server is installed with the wrong port: flows that
  take any port are given redirect URIs that lead nowhere (`adrift`). This too was found by
  the proof.
- A connection attempt during a flow saves a PKCE verifier of its own over the flow's, whose
  code is then refused. Its provider took the redirect URI when it was built
  (`server-manager.ts:258`), so the client it registers may have an endpoint the callback
  server has left by then (`Snapshots`: the present endpoint, the first, or that of an
  earlier flow). A client registered before any flow of its server is left out, since the
  first flow drops a client without tokens (`mcp-auth-flow.ts:196`).
- `completeAuth` inside `authenticate` reads the state after it was cleared, so that its
  `clearPendingAuth` takes whatever transport is held at the end (`mcp-auth-flow.ts:352`).
- Flows that await the promise of a flow that binds the callback server fail with it, although
  their own endpoint may be free (`mcp-callback-server.ts:179`).
- `stopCallbackServer` forgets the server that is current when the old one has closed. A
  server that was bound meanwhile, or is bound by a flow that a shutdown overtook, goes on
  without anybody to stop it (`left`), although `CHANGELOG.md:144` speaks of preventing
  leaks across sessions.

## 10. Proofs

TLAPS checks, for any number of goals, any log length, any clock and any
budgets (assumption `GoalLedgerAssumption`: the constants are numbers), and for
any number of turns (`TurnAssumption`):

- `GoalLedger_proofs`: `ReconstructType`, that reading back any log gives a well-typed
  goal or none (the function is recursive, so each fact about it is proved from a least
  counterexample: the order on numbers is well founded), and every invariant and action property of the ledger's run, and the
  refinement. `TypeCorrect`, `DurableMirror`, `CrashLosesOnlyTime`, `BudgetRespected`,
  `OwnerIsActiveGoal` and `UsageMonotone` follow from the inductive invariant `LedgerInv`:
  the log replays to `led.persisted`, `led.goal` is that goal moved forward in time (and
  the same goal if it is not active: `Behind`), each prefix replays to a goal whose status
  matches its budget, and who may own the accounting. The operations are functions on
  `led`, so each has a lemma (*flush preserves*, *account preserves*, ...), and the proof of
  an action composes the lemmas in the handler's order. The others build on it:
  - `LedgerImplementsLifecycle`: each handler moves the goal along one arrow of
    `GoalLifecycle` or not at all. A handler may account, limit and pause in a row; the
    lemmas `...Moves` say which arrow comes out. `ViewAssumption` says that the null value
    is not a goal as the life cycle shows it.
  - `CompleteGoalIsSilent`: on a complete goal every operation of a handler is the
    identity on the log, because memory and log already agree (`Behind`).
  - `TurnsAreChargedOnce`, from `ChargedOnce`: every goal readable from the log or in
    memory was charged no more than the tokens spent, and while the run of an aborted turn
    is still to end, an owner of the accounting has room for those tokens once more.
  - `CrashLosesOneInterval`, from `Timely`: memory is ahead of the log only by less than the
    interval since the last write. Each handler that moves the goal forward asks at its end
    whether a flush is due, at the instant it moved the goal to.
- `StaleWork_proofs`: `TurnEndsAreToldApart`, `AbortedTurnsAreRemembered`,
  `AbortChargesNobody` from `IInv`: the indexes the guard holds are those of turns that
  are over, they include all whose end may still come, and no turn runs while one is
  being aborted. `AgentEndsAreToldApart` and `GuardTypesHold` from `DebtInv`, a second
  argument on top of it. An end is known by the goals it names, or by nothing at all, so
  what tells ends apart is order:
  - `Payable`: each turn whose end is owed has an obligation of its own, in the order of
    the turns, and those of the turns of one end have the ids it may carry. The end of the
    oldest turns consumes something and reaches no further than its own
    (`ConsumesItsOwn`), so the others keep theirs;
  - `OpenOrOvertaken`: all obligations accept ends without work, or none does and then
    newer work has overtaken whatever is owed;
  - `WorkIsNoted`: what obligations name was aborted and what a running turn carries ran,
    so that with `NoGoalOnBothSides` its end meets none of them (`ConsumesNothing`).

  `Without` is recursive. `WithoutLeaves` says what it leaves, from a least
  counterexample: an order isomorphism from the positions that are left to those that were
  not taken.

- `GoalRuntime_proofs`: `CapFlagIsMirrored`, `MarkIsBacked`, `RuntimeTypesHold` and
  `ActiveGoalIsAlwaysAwaited` for every behaviour, tree moves included;
  `RepeatedOverflowAlwaysPauses` and `AttentionAlwaysFits` for those without tree moves
  (section 5 says what a move does to them). The only assumption is that the null value is
  neither a goal nor an id (`NullAssumption`); the bounds on messages and overflows play
  no part. The inductive invariant (`Reached`) has three parts:
  - `Inv`: an open session's memory is well formed and mirrors the log, a closed one's is
    fresh, a mark stands for a message, and the goal's id is one given out. The last is
    needed because a mark is compared by id: a new goal must not inherit an old one's.
    `Keeps` says what an operation must not break; each operation has a lemma, and a
    handler composes them;
  - `GuardInv`: what the guard may owe in each phase of the host. Here no end is lost, so it
    owes at most the end of the run it aborted, whose goals the run still carries, and
    between runs nothing. That the end finds its obligation (`AgentEndOk`) is what makes
    `RuntimeTypesHold` and the next part hold;
  - `WaitInv`: who gives a goal its next turn, which moves from hand to hand: a message, the
    run it starts, the decision at the end of that run, a timer, the message the timer
    sends. `Awaited`: outside a run, a goal that wants a turn is `Served`, by a message that
    is *coming* or by a timer. The guard does not refuse the timer, since it aborts nothing
    between runs (`CalmBetweenRuns`). `ContinueServes` is the heart: the scheduler either
    plans a turn or finds the mark of one, and by `Inv` a mark stands for a message.
    `Orderly`: no continuation is timed during a recovery, so that a timer that fires
    belongs to whom it serves.

- `AsyncRunner_proofs`: `RunnerImplementsAsyncRun`, that the detailed runner implements
  `AsyncRun`, from `StatusInv`, which ties the stop flag, the status and the result to
  the place in the code: while the run goes on the status is *running*, or *paused* if a
  stop came, or *failed* after a fan-out that could not be made. `ResultsComeLast` from
  `ChildInv`: a child exists only while its group is awaited. `FailFastHolds` needs no
  invariant. For every plan the assumptions allow. `CompleteRunsAreDone` and
  `OutcomesAreCounted` follow from `EntriesInv`, which lays the entries of the status beside
  the results:
  - `LayoutInv`: behind the entries of the group that is awaited come as many as the steps
    ahead have in the first status (`Ahead`, a set of pairs whose size is computed step by
    step in `AheadCounts`);
  - `EntryInv`, `OutcomeInv`: the entries ahead are pending, one that is running has its child,
    and an entry of the group says what the outcome of its task says, but that a stop may
    have made it paused;
  - `CountInv`, `DoneInv`: among the entries that have their results, the failed are no more
    than the results that are no success, the successes no more than the entries that say
    so; and if every result is a success and nobody stopped the run all of them are complete.

  A step's end is one lemma, `GroupSettles`, for the three kinds of step, for worktrees that
  cannot be made and for items that cannot be computed: they differ in what they push.
- `AsyncDelivery_proofs`: `TypesHold`, `OneStory`, `RemovedMeansTold`. Four parts make the
  invariant: how a run ended (`EndedInv`: a result of a run that is over says what its
  status says, repaired runs are *failed*), what the poller may still believe (`PollInv`), that
  results read by handlers and results told are the same (`StoryInv`), and that whoever has
  *seen* a result has told it (`SeenInv`).
- `ForegroundRun_proofs`: `NoDoubleWork`, from what the place in the code says of the tasks
  (`PlaceInv`), that at most one attempt of a task is awaited (`OnePerTask`), and that after
  the move every awaited child was told (`ToldInv`). `FilesTellOneStory` from `StoryInv`: a
  task with a result has a child in the background that closed and files that agree, or
  has two such children. Nothing else writes the files, because a child that is let go
  stays so (`Stays`) and what was not begun has no child to overwrite (`FreshInv`).
- `McpServers_proofs`: `ManagersFindTheirConnections`, `NoStateIsForgotten`,
  `RequestsMatchTheirCount`. `MgrInv` speaks of
  one manager: its maps and its connections lead to each other, and what is being connected
  is not connected. Each operation has a lemma that it keeps `MgrInv` and undoes no shutdown
  (`Grows`), so that an action needs only to say which operation it applies. `SessionInv`
  adds that while a session starts or is initialised there is no state, or one that was
  shut down. `CountedInv` is about the requests: a connection being opened counts none, and
  one that is connected, and was not stored while its server was in use, counts everybody
  who uses the server, because all of them use this connection. Whatever neither counts nor
  stores is `Quiet`: connections stay, go away or are begun, and `QuietStep` says that this
  breaks no count; beginning a request, ending one and storing a connection have a lemma
  each. A set has a size only if it is finite: `CallsAssumption`, that finitely many calls
  are in progress.

- `OAuthFlow_proofs`: all five invariants of the OAuth flows, for any servers, endpoints,
  flows, pasted codes, logouts and shutdowns. The assumptions say that flows are numbers,
  that the null value is not one of them nor a socket, and that endpoints are records of a
  host, a port and a path. The inductive invariant has a part for each question:
  - `OwnInv`: what is stored, held, awaited or exchanged for a server is of its own flows,
    one `authenticate` per server is in flight, and one exchange per call;
  - `AwaitInv`: an entry of `pendingAuths` belongs to a call that awaits just that state and
    was not answered, and an answer is a flow whose URL carries that state. Hence
    `CallbacksAreAnswered`;
  - `ReserveInv`: only flows beyond the callback server reserve it, and they are being
    started or held (`ReservationsAreReleased`);
  - `CrossInv`: if a flow finds another's state stored, hands it out or awaits it, both were
    started while the other was, and the transport held is that of the flow whose state is
    stored. Hence `CodesMeetTheirFlow`;
  - `ServerInv`: while a flow waits nothing is being bound or closed, the server is at its
    redirect URI, and the module's port is the server's (`PortInv`). Hence `EndpointIsKept`;
  - `RevokedInv`: no entry has the verifier of a flow a logout came after, so that none of
    its exchanges succeeds (`LogoutIsFinal`).

  Most steps add nothing to the maps: `Shrinks` says once what such a step may take away, and
  `SameFlows` that the invariant survives it, so that an action has only to say which flows'
  promises and states it takes.

Every invariant and action property of the passing runs is stated by a theorem. The type
invariants of the ledger and the delivery are only proved, and those of the runner, the
foreground run and the MCP servers are part of their inductive invariants: TLC would refuse
an ill-typed state anyway. Only model-checked, because out of the prover's reach, is liveness
under fairness: `HealthyGoalGetsTurn`, `RunReachesItsEnd`, `EndIsReported`, `CallReturns`. What
a recursive function computes is proved only where a least counterexample gives it
(`ReconstructType`, `WithoutLeaves`).

## 11. Findings

**A replaced goal's turn is charged to its successor** (`pi-codex-goal/src/goal-accounting.ts:91`).
`CHANGELOG.md:143` promises "Prevents tokens from an old in-flight turn from being
charged to a replacement goal". Replacing clears the accounting, so the turn's
end charges nobody, unless a tool ends in between: `accountProgress` then finds
the accounting is not the new goal's and begins it, in the middle of the old
turn, and the turn's end charges all its tokens. Run **GoalLedgerOldTurn**.

**A stopped run goes on spawning** (`pi-subagents/src/runs/background/subagent-runner.ts:1402`).
The result of a stopped run says "Paused after interrupt. Waiting for explicit next
action." (`:2248`). The stop reaches one child, the one registered last; the other tasks of the
group, the queued ones and the next models do not look at it. Run **AsyncRunnerStop**.

Not disagreements a run shows, but worth knowing:

- `CHANGELOG.md:19` of pi-codex-goal promises to resume active goals after an overflow
  compaction when the host starts no retry. The timer that does it is set once: if the host
  is not idle when it fires, it returns, and the phase goes on blocking continuations until
  the user writes or reloads (`goal-runtime-session-handlers.ts:64`; `gaveUp`).
- If the poll for a new goal falls into the abort of another goal's stale turn,
  `maybeContinue` returns without setting the timer again, and the aborted turn's `agent_end`
  is skipped before it could (`continuation-scheduler.ts:150`; `gaveUp`).
- Transient errors never pause a goal however often they come, since the attempts that are
  counted are not read. The goal stays active with pending attention until the user writes,
  which is why liveness is stated of goals without.
- A background run whose runner dies before its first status, and whose pid another process
  has got, is shown as running and never repaired as long as that process has the pid: the
  status made up for it is always new (`stale-run-reconciler.ts:154`, `:330`; `Silent`).
- Sections 7, 8 and 9 list what was seen there.

## 12. Not modelled

- *pi-codex-goal*: text (prompts, formatting, parsing of commands), the clipboard, the status
  line.
- *pi-subagents*: agent definitions, skills, slash commands, rendering, the workflow tool and
  the routing of questions to supervisors; of the modelled runs the text of prompts and outputs,
  worktrees, activity and attention fields, nested runs, control events and the ten-minute
  expiry of what was seen.
- *pi-mcp-adapter*: of OAuth what section 9 names (a call that waits for a flow is in
  `McpServers`, its outcome a choice; the two are not composed); UI sessions, sampling, elicitation, caches, panels.
- *pi-openviking*: its messages and tasks live in a server whose code is not in the repository;
  the counts the client keeps only decide when to ask, and its tools call
  no commit (`commitSession` has no caller), so that only the end of a run and the shutdown meet.
  Read, not checked: a shutdown that finds the task of an earlier commit unfinished commits
  nothing (`session.ts:277`), so that what was added since waits for the session to be resumed.
- *pi-tmux-process-manager*: synchronous tools that read the state of the world anew each time.
- *pi-hashline-tools*: sequential text processing; the code-map mappers.
