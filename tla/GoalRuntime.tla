----------------------------- MODULE GoalRuntime -----------------------------
(***************************************************************************)
(* Who keeps an active goal going: the handlers of pi-codex-goal with      *)
(* their timers, the recovery machine and the guard against stale work, in *)
(* a host that runs turns, queues messages, retries and compacts.          *)
(* Source: packages/pi-codex-goal/src/goal-runtime-*-handlers.ts,          *)
(* commands.ts, tools.ts, goal-accounting.ts.                              *)
(*                                                                         *)
(* The goal is reduced to its id and status, which GoalLedger shows are    *)
(* always durable, and accounting to the question whether the budget is    *)
(* reached.  The host (pi) is modelled from the events the handlers and    *)
(* their tests rely on.  Here it reports the ends of turns in order and    *)
(* loses none, so one turn index is enough; StaleWorkRuntime has the rest. *)
(***************************************************************************)
EXTENDS ContinuationScheduler

CONSTANTS
    MaxQueue,      \* bound: messages waiting in the host when the user acts
    MaxAttempts,   \* bound: overflows counted without a success in between
    TreeMoves      \* whether the user moves in the session tree

VARIABLES
    mem,       \* the extension's memory, and the messages it has sent
    open,      \* session_start has run in this process
    phase,     \* where the host is
    fresh,     \* the turn has not started a message, and must
    carried,   \* goals whose messages the host's run was given
    last,      \* how the turn's assistant message ended, until the host has settled
    retry,     \* the host, though idle, is about to retry the last turn
    accepted,  \* a prompt whose input handlers have run, not yet delivered
    older,     \* an earlier point of the log: its goal and overflow flag
    used,      \* goal ids given out
    gaveUp     \* a continuation was given up (only properties read it)

host == <<phase, fresh, carried, last, retry>>
vars == <<mem, open, host, accepted, older, used, gaveUp>>

Phases == {"idle", "turn", "model", "aborting", "ended", "settling", "compacting", "compacted"}
Busy == phase # "idle"
Turn == 0     \* the one turn index

NoMessage == [kind |-> "none", id |-> Null]

FreshMemory(goal, cap) ==
    [goal |-> goal, cap |-> cap, rec |-> FreshRecovery, queuedFor |-> Null,
     timerFor |-> Null, fallback |-> "none", guard |-> W!Idle, warned |-> Null,
     queue |-> <<>>, inbox |-> <<>>]

Init ==
    /\ mem = FreshMemory(Null, FALSE)
    /\ open = FALSE
    /\ phase = "idle" /\ fresh = FALSE /\ carried = {} /\ last = "stop" /\ retry = FALSE
    /\ accepted = NoMessage
    /\ older = [goal |-> Null, cap |-> FALSE]
    /\ used = {}
    /\ gaveUp = FALSE

Room == Len(mem.queue) + Len(mem.inbox) < MaxQueue

-----------------------------------------------------------------------------
(***************************************************************************)
(* Commands, at any time, and tools, while the model runs.                 *)
(***************************************************************************)
Send(m, message) == [m EXCEPT !.queue = Append(@, message)]
SendUser(m, message) == [m EXCEPT !.inbox = Append(@, message)]

NewGoal(id) == [id |-> id, status |-> "active"]

QueueGoalUserTurn(m) == SendUser(m, Message("goalUser", m.goal.id))

\* goalStartTurnStrategy decides how the new goal's first turn is queued.
StartGoal(m, id) ==
    LET set == SetGoalByCommand(m, NewGoal(id))
    IN  IF set.rec.needsUser THEN QueueGoalUserTurn(set)
        ELSE Send(set, Message("start", id))

Commanded(next) ==
    /\ open /\ Room
    /\ mem' = next
    /\ gaveUp' = FALSE
    /\ UNCHANGED <<open, host, accepted, older>>

CommandStart(id) ==
    /\ id \notin used
    /\ used' = used \cup {id}
    /\ Commanded(StartGoal(mem, id))

CommandPause ==
    /\ IsActive(mem)
    /\ Commanded(SetGoalByCommand(mem, WithStatus(mem, "paused")))
    /\ UNCHANGED used

CommandResume ==
    /\ mem.goal # Null
    /\ \/ /\ IsActive(mem) /\ mem.rec.needsUser
          /\ Commanded(QueueGoalUserTurn(mem))
       \/ /\ mem.goal.status = "paused"
          /\ Commanded(QueueGoalUserTurn(SetGoalByCommand(mem, WithStatus(mem, "active"))))
    /\ UNCHANGED used

CommandClear ==
    /\ mem.goal # Null
    /\ Commanded(ClearGoal(mem))
    /\ UNCHANGED used

ToolUsed(next) ==
    /\ phase = "model"
    /\ mem' = next
    /\ UNCHANGED <<open, host, accepted, older, gaveUp>>

ToolCreateGoal(id) ==
    /\ id \notin used
    /\ used' = used \cup {id}
    /\ ToolUsed(SetGoalByTool(mem, NewGoal(id)))

ToolCompleteGoal ==
    /\ mem.goal # Null /\ mem.goal.status # "complete"
    /\ ToolUsed(SetGoalByTool(mem, WithStatus(mem, "complete")))
    /\ UNCHANGED used

-----------------------------------------------------------------------------
(***************************************************************************)
(* Input, on its way from sendUserMessage or the user into the host.       *)
(***************************************************************************)
ClearAbort(m) == [m EXCEPT !.guard = W!ClearAbort(@).state]

\* onInput of an extension's message: a prompt of another goal is dropped.
ExtensionInput ==
    /\ mem.inbox # <<>> /\ accepted = NoMessage
    /\ LET prompt == Head(mem.inbox)
           taken == ClearAbort([mem EXCEPT !.inbox = Tail(@)])
       IN  IF IsCurrentActive(mem, prompt.id)
           THEN /\ mem' = MarkContinuationQueued(taken, prompt.id)
                /\ accepted' = prompt
           ELSE /\ mem' = ClearContinuationStateFor(taken, prompt.id)
                /\ UNCHANGED accepted
    /\ UNCHANGED <<open, host, older, used, gaveUp>>

\* onInput of what the user typed.
UserInput ==
    /\ open /\ Room /\ accepted = NoMessage
    /\ mem' = ClearAbort(ResetErrorRecovery(mem))
    /\ accepted' = Message("user", Null)
    /\ UNCHANGED <<open, host, older, used, gaveUp>>

\* onBeforeAgentStart, for a prompt the host runs at once.
BeforeAgentStart(m, prompt) ==
    IF prompt.kind # "goalUser" THEN ClearContinuationState(ClearAbort(m))
    ELSE IF IsCurrentActive(m, prompt.id)
    THEN ClearAbort(ClearContinuationStateFor(m, prompt.id))
    ELSE ClearContinuationStateFor(m, prompt.id)

DeliverPrompt ==
    /\ accepted # NoMessage
    /\ mem' = Send(IF Busy THEN mem ELSE BeforeAgentStart(mem, accepted), accepted)
    /\ accepted' = NoMessage
    /\ UNCHANGED <<open, host, older, used, gaveUp>>

-----------------------------------------------------------------------------
(***************************************************************************)
(* A run: turns, the messages each is given, and its end.                  *)
(***************************************************************************)
TurnStarted(m) ==
    [m EXCEPT !.guard = W!TurnStartEvent(@).state,
              !.fallback = IF @ = "armed" THEN "overtaken" ELSE @]

\* onTurnStart
TurnStart(isFresh) ==
    /\ mem' = TurnStarted(mem)
    /\ phase' = "turn"
    /\ fresh' = isFresh
    /\ last' = "stop"
    /\ UNCHANGED <<open, carried, accepted, older, used, gaveUp>>

\* The host starts a run with what is queued.
RunStart ==
    /\ phase = "idle" /\ mem.queue # <<>>
    /\ TurnStart(TRUE)
    /\ retry' = FALSE

\* The host retries the turn that failed.
HostRetry ==
    /\ phase = "idle" /\ retry
    /\ TurnStart(FALSE)
    /\ retry' = FALSE

\* The run goes on after a tool, or with messages that came meanwhile.
NextTurn ==
    /\ phase = "ended"
    /\ \/ last = "toolUse" /\ TurnStart(FALSE)
       \/ last \in {"stop", "silent"} /\ mem.queue # <<>> /\ TurnStart(TRUE)
    /\ UNCHANGED retry

\* Follow-ups wait for the model to stop; the user and the warning steer.
Deliverable == {i \in DOMAIN mem.queue : fresh \/ mem.queue[i].kind \in {"user", "budget"}}

IsUserRole(message) == message.kind \in {"user", "goalUser"}

MessageStarted(m, message) ==
    LET reset == IF IsUserRole(message) THEN PersistUserReset(m, FALSE) ELSE m
        clear == IF message.id = Null THEN ClearContinuationState(reset)
                 ELSE ClearContinuationStateFor(reset, message.id)
    IN  [clear EXCEPT !.guard =
           IF message.id = Null \/ IsCurrentActive(m, message.id)
           THEN W!RunnableWorkStarted(@)
           ELSE W!StaleWorkStarted(@, message.id)]

\* onMessageStart
MessageStart ==
    /\ phase = "turn"
    /\ \E i \in Deliverable :
         LET message == mem.queue[i]
         IN  /\ \A j \in Deliverable : i <= j
             /\ mem' = MessageStarted([mem EXCEPT !.queue = RemoveAt(@, i)], message)
             /\ carried' = carried \cup ({message.id} \ {Null})
    /\ fresh' = FALSE
    /\ UNCHANGED <<open, phase, last, retry, accepted, older, used, gaveUp>>

\* onContext: the guard stops a turn that has only stale work.
Context ==
    /\ phase = "turn" /\ ~fresh
    /\ LET r == W!ContextAbort(mem.guard, Turn)
       IN  /\ mem' = [mem EXCEPT !.guard = r.state]
           /\ phase' = IF r.plan.aborts THEN "aborting" ELSE "model"
    /\ UNCHANGED <<open, fresh, carried, last, retry, accepted, older, used, gaveUp>>

\* What a turn may cost the goal: nothing, some usage, or its budget.  Between
\* the ends of turns only time is charged, and a budget counts tokens.
Charges == {"nothing", "usage", "budget"}
TimeCharges == {"nothing", "usage"}

\* Mutant: the warning carries the id of its goal.
BudgetCrossedWithId(m, steers) ==
    LET limited == Transition(m, WithStatus(m, "budgetLimited"),
                              T!MemoryEffects(m.goal, WithStatus(m, "budgetLimited")), {})
    IN  IF steers THEN Send(limited, Message("budget", m.goal.id)) ELSE limited

BudgetCrossed(m, steers) ==
    LET limited == Transition(m, WithStatus(m, "budgetLimited"),
                              T!MemoryEffects(m.goal, WithStatus(m, "budgetLimited")), {})
    IN  IF steers /\ limited.warned # m.goal.id
        THEN Send([limited EXCEPT !.warned = m.goal.id], Message("budget", Null))
        ELSE limited

\* accountProgress, and the flush that follows it.
AccountProgress(m, charge, steers) ==
    IF ~IsActive(m) \/ charge = "nothing" THEN m
    ELSE IF charge = "usage" THEN [m EXCEPT !.warned = Null]
    ELSE BudgetCrossed(m, steers)

\* onToolExecutionEnd
ToolEnd(charge) ==
    /\ phase = "model"
    /\ mem' = IF W!MidTurnEvent(mem.guard).plan.skip THEN mem
              ELSE AccountProgress(mem, charge, TRUE)
    /\ UNCHANGED <<open, host, accepted, older, used, gaveUp>>

TurnEnded(m, outcome, charge) ==
    LET counted == AccountProgress(m, charge, TRUE)
        succeeded == [counted EXCEPT !.rec = ResetCounters(@)]
    IN  CASE outcome = "aborted" -> PauseForAbort(counted)
          [] outcome \in Errors  -> counted
          [] outcome = "silent"  -> BeginOverflowRecovery(counted)
          [] outcome = "toolUse" -> succeeded
          [] outcome = "stop"    -> MaybeContinue(succeeded, FALSE)

\* onTurnEnd
TurnEnd(outcome, charge) ==
    /\ phase \in {"model", "aborting"}
    /\ phase = "aborting" => outcome = "aborted"
    /\ IsOverflow(outcome) => mem.rec.attempts < MaxAttempts
    /\ LET r == W!TurnEndEvent(mem.guard, Turn)
           told == [mem EXCEPT !.guard = r.state]
       IN  mem' = IF r.plan.skip THEN told ELSE TurnEnded(told, outcome, charge)
    /\ phase' = "ended"
    /\ last' = outcome
    /\ UNCHANGED <<open, fresh, carried, retry, accepted, older, used, gaveUp>>

\* handleAgentErrorMessage, recordAssistantContextOverflow
AgentErrorHandled(m, outcome) ==
    HandlePersistentError(IF IsOverflow(outcome) THEN BeginOverflowRecovery(m) ELSE m, outcome)

AgentEnded(m, outcome, charge) ==
    LET counted == AccountProgress(m, charge, FALSE)
    IN  CASE outcome = "aborted" -> PauseForAbort(counted)
          [] outcome \in Errors \cup {"silent"} -> AgentErrorHandled(counted, outcome)
          [] outcome = "stop" -> MaybeContinue(ResetErrorRecovery(counted), FALSE)

\* onAgentEnd
AgentEnd(charge) ==
    /\ phase = "ended" /\ last # "toolUse"
    /\ last \in {"stop", "silent"} => mem.queue = <<>>
    /\ charge = "budget" => last = "aborted"
    /\ LET r == W!AgentEndEvent(mem.guard, [goalIds |-> carried, terminal |-> TRUE])
           told == [mem EXCEPT !.guard = r.state]
       IN  /\ mem' = IF r.plan.skip THEN told ELSE AgentEnded(told, last, charge)
           /\ gaveUp' = (r.plan.skip /\ IsActive(mem))
    /\ phase' = "settling"
    /\ carried' = {}
    /\ UNCHANGED <<open, fresh, last, retry, accepted, older, used>>

-----------------------------------------------------------------------------
(***************************************************************************)
(* What the host does after a run: nothing, retry, or compact.             *)
(***************************************************************************)
Settle ==
    /\ phase = "settling"
    /\ phase' = "idle"
    /\ retry' \in IF last = "transient" THEN BOOLEAN ELSE {FALSE}
    /\ last' = "stop"
    /\ UNCHANGED <<mem, open, fresh, carried, accepted, older, used, gaveUp>>

\* onSessionBeforeCompact; the user may compact an idle session.
CompactStart(charge) ==
    /\ open
    /\ \/ phase = "settling" /\ last \in {"stop", "silent", "overflow"}
       \/ phase = "idle" /\ mem.queue = <<>>
    /\ phase' = "compacting"
    /\ mem' = IF W!MidTurnEvent(mem.guard).plan.skip THEN mem
              ELSE AccountProgress(mem, charge, FALSE)
    /\ UNCHANGED <<open, fresh, carried, last, retry, accepted, older, used, gaveUp>>

SessionCompacted(m) ==
    LET told == [m EXCEPT !.rec = OnSessionCompact(@)]
    IN  IF told.rec.recovering THEN [told EXCEPT !.fallback = "armed"]
        ELSE MaybeContinueAfterCurrentEvent(told)

\* onSessionCompact
CompactDone ==
    /\ phase = "compacting"
    /\ phase' = "compacted"
    /\ mem' = IF W!MidTurnEvent(mem.guard).plan.skip THEN mem ELSE SessionCompacted(mem)
    /\ UNCHANGED <<open, fresh, carried, last, retry, accepted, older, used, gaveUp>>

CompactFail ==
    /\ phase = "compacting"
    /\ phase' = "idle"
    /\ last' = "stop"
    /\ UNCHANGED <<mem, open, fresh, carried, retry, accepted, older, used, gaveUp>>

\* After an overflow the host retries the turn, or it does not.
CompactSettle ==
    /\ phase = "compacted"
    /\ phase' = "idle"
    /\ retry' \in IF IsOverflow(last) THEN BOOLEAN ELSE {FALSE}
    /\ last' = "stop"
    /\ UNCHANGED <<mem, open, fresh, carried, accepted, older, used, gaveUp>>

-----------------------------------------------------------------------------
(***************************************************************************)
(* Timers.                                                                 *)
(***************************************************************************)
ContinuationTimer ==
    /\ mem.timerFor # Null
    /\ mem' = MaybeContinue(ClearContinuationTimer(mem), ~Busy)
    /\ UNCHANGED <<open, host, accepted, older, used, gaveUp>>

\* The fallback does nothing if a turn has started or the host is busy.
MayFallBack ==
    /\ IsActive(mem)
    /\ mem.fallback = "armed"
    /\ mem.rec.recovering
    /\ ~Busy /\ mem.queue = <<>>

FallbackTimer ==
    /\ mem.fallback # "none"
    /\ LET fired == [mem EXCEPT !.fallback = "none"]
       IN  mem' = IF MayFallBack
                  THEN MaybeContinue([fired EXCEPT !.rec = ClearHostOverflowActive(@)], TRUE)
                  ELSE fired
    /\ gaveUp' = (gaveUp \/ (mem.fallback = "armed" /\ ~MayFallBack))
    /\ UNCHANGED <<open, host, accepted, older, used>>

-----------------------------------------------------------------------------
(***************************************************************************)
(* Sessions.                                                               *)
(***************************************************************************)
HostReset ==
    /\ phase' = "idle" /\ fresh' = FALSE /\ carried' = {} /\ last' = "stop" /\ retry' = FALSE
    /\ accepted' = NoMessage
    /\ gaveUp' = FALSE

\* onSessionStart in a new process; resumes says that the user is asked
\* whether to resume a paused goal, and agrees.
SessionStart(resumes) ==
    /\ ~open /\ open' = TRUE
    /\ LET read == ReloadFromSession(FreshMemory(Null, FALSE), mem.goal, mem.cap)
           resumed == ResumePausedGoal(read)
       IN  /\ resumes => mem.goal # Null /\ mem.goal.status = "paused"
           /\ mem' = IF resumes THEN QueueGoalUserTurn(resumed) ELSE MaybeContinue(read, TRUE)
    /\ UNCHANGED <<host, accepted, older, used, gaveUp>>

\* The user will be able to come back to this point of the log (one point).
Bookmark ==
    /\ TreeMoves /\ open /\ ~Busy /\ older.goal = Null
    /\ older' = [goal |-> mem.goal, cap |-> mem.cap]
    /\ UNCHANGED <<mem, open, host, accepted, used, gaveUp>>

\* onSessionTree
SessionTree ==
    /\ TreeMoves /\ open /\ ~Busy /\ Room
    /\ mem' = MaybeContinue(
                ReloadFromSession([mem EXCEPT !.fallback = "none"], older.goal, older.cap), TRUE)
    /\ gaveUp' = mem.rec.recovering
    /\ UNCHANGED <<open, host, accepted, older, used>>

\* onSessionShutdown
ShutDown(m, charge) ==
    LET stopped == ClearContinuationTimer(
                     AccountProgress([m EXCEPT !.fallback = "none",
                                               !.guard = W!SessionShutdownEvent(@).state],
                                     charge, FALSE))
    IN  IF IsActive(stopped) /\ IsPending(stopped.rec)
        THEN PauseForShutdown(stopped)
        ELSE ResetErrorRecovery(stopped)

\* The process ends: what is left is the goal and the flag in the log.
EndWith(m) ==
    /\ open /\ open' = FALSE
    /\ mem' = FreshMemory(m.goal, m.cap)
    /\ HostReset
    /\ UNCHANGED <<older, used>>

SessionShutdown(charge) == EndWith(ShutDown(mem, charge))

Crash == EndWith(mem)

-----------------------------------------------------------------------------
UserSteps ==
    \/ \E id \in GoalIds : CommandStart(id)
    \/ CommandPause
    \/ CommandResume
    \/ CommandClear
    \/ UserInput
    \/ Bookmark
    \/ SessionTree
    \/ \E charge \in TimeCharges : SessionShutdown(charge)
    \/ Crash
    \/ \E resumes \in BOOLEAN : SessionStart(resumes)

ModelSteps ==
    \/ \E id \in GoalIds : ToolCreateGoal(id)
    \/ ToolCompleteGoal
    \/ \E charge \in TimeCharges : ToolEnd(charge)

RunSteps ==
    \/ ExtensionInput
    \/ DeliverPrompt
    \/ RunStart
    \/ HostRetry
    \/ NextTurn
    \/ MessageStart
    \/ Context
    \/ \E outcome \in Outcomes, charge \in Charges : TurnEnd(outcome, charge)
    \/ \E charge \in Charges : AgentEnd(charge)
    \/ Settle
    \/ CompactDone
    \/ CompactFail
    \/ CompactSettle

TimerSteps == ContinuationTimer \/ FallbackTimer

Next == UserSteps \/ ModelSteps \/ RunSteps \/ TimerSteps
          \/ \E charge \in TimeCharges : CompactStart(charge)

Spec == Init /\ [][Next]_vars

\* Nothing is assumed of the user, of compactions he asks for or of crashes.
\* The event loop delivers input and runs timers, the host goes on with a run
\* it has begun, and a timer that polls every 50 ms does not find the host
\* busy each time if it is idle again and again.
FairSpec ==
    /\ Spec
    /\ WF_vars(RunSteps) /\ WF_vars(ExtensionInput) /\ WF_vars(DeliverPrompt)
    /\ WF_vars(ContinuationTimer) /\ WF_vars(FallbackTimer)
    /\ SF_vars(~Busy /\ ContinuationTimer)

-----------------------------------------------------------------------------
\* Every variable keeps its type.
TypeOK ==
    /\ mem \in Memories
    /\ open \in BOOLEAN /\ fresh \in BOOLEAN /\ retry \in BOOLEAN
    /\ phase \in Phases
    /\ carried \subseteq GoalIds /\ used \subseteq GoalIds
    /\ last \in Outcomes
    /\ accepted \in Messages \cup {NoMessage}
    /\ older \in [goal : NoGoalOr, cap : BOOLEAN]

\* The flag in memory that asks for a turn the user starts is the one a restart
\* or a tree move would read from the log.
CapFlagMirrorsLog == open => mem.rec.needsUser = mem.cap

InFlight == ToSet(mem.queue) \cup ToSet(mem.inbox) \cup {accepted}

\* The mark that a turn for a goal is queued, which stops every continuation,
\* is never left behind: a message of that goal is on its way.
QueuedMarkHasMessage ==
    mem.queuedFor # Null => \E message \in InFlight : message.id = mem.queuedFor

\* A goal whose context overflows again after a compaction, without a
\* successful turn in between, is not active any more.
RepeatedOverflowPauses ==
    IsActive(mem) => mem.rec.attempts <= MaxContextCompactionRetries

\* What the status line says of recovery fits the goal it is shown for.
AttentionFitsGoal ==
    /\ IsPending(mem.rec) => IsActive(mem)
    /\ mem.rec.attention = "paused" => mem.goal # Null /\ mem.goal.status = "paused"

NothingComing ==
    /\ open /\ ~Busy /\ ~retry
    /\ mem.queue = <<>> /\ mem.inbox = <<>> /\ accepted = NoMessage

\* An active goal in a host that has nothing to do, with nobody to look at it.
Forgotten ==
    /\ NothingComing
    /\ IsActive(mem) /\ ~IsPending(mem.rec)
    /\ mem.timerFor # mem.goal.id /\ mem.fallback # "armed"

\* However commands, tools, turns, errors, compactions and timers interleave,
\* an active goal is not forgotten: a run, a message, a timer or a recovery is
\* to come, unless a handler has just chosen not to continue it.
ActiveGoalIsAwaited == Forgotten => gaveUp

Healthy == open /\ IsActive(mem) /\ ~IsPending(mem.rec) /\ ~gaveUp

\* An active goal that no recovery and no decision of a handler holds back gets
\* another turn, however often the user compacts meanwhile.
HealthyGoalGetsTurn == Healthy ~> (~Healthy \/ phase = "turn")
=============================================================================
