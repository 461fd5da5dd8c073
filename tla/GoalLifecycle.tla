---------------------------- MODULE GoalLifecycle ----------------------------
(***************************************************************************)
(* What pi-codex-goal promises about a goal, without saying how: a session *)
(* has at most one goal; the goal's status moves only along the arrows     *)
(* below; budget-limited and complete goals are never reopened; only the   *)
(* user's move in the session tree brings an older state back.  A crash or *)
(* a restart is no step at all: it loses no status change.                 *)
(* (README.md of the package, "Model Tools" and "Behavior".)               *)
(***************************************************************************)
EXTENDS Naturals

CONSTANTS GoalIds, Null

VARIABLES
    goal,     \* Null, or the id and the status of the session's goal
    usedIds,  \* ids already given to a goal
    navs      \* moves in the session tree so far

vars == <<goal, usedIds, navs>>

Status == {"active", "paused", "budgetLimited", "complete"}

Init ==
    /\ goal = Null
    /\ usedIds = {}
    /\ navs = 0

Start(id) ==
    /\ id \in GoalIds \ usedIds
    /\ goal' = [id |-> id, status |-> "active"]
    /\ usedIds' = usedIds \cup {id}
    /\ UNCHANGED navs

Move(from, to) ==
    /\ goal # Null
    /\ goal.status \in from
    /\ goal' = [goal EXCEPT !.status = to]
    /\ UNCHANGED <<usedIds, navs>>

Pause    == Move({"active"}, "paused")
Resume   == Move({"paused"}, "active")
Limit    == Move({"active"}, "budgetLimited")
Complete == Move({"active", "paused", "budgetLimited"}, "complete")

Clear ==
    /\ goal # Null
    /\ goal' = Null
    /\ UNCHANGED <<usedIds, navs>>

Rewind ==
    /\ navs' = navs + 1
    /\ goal' \in {Null} \cup [id : usedIds, status : Status]
    /\ UNCHANGED usedIds

Next ==
    \/ \E id \in GoalIds : Start(id)
    \/ Pause
    \/ Resume
    \/ Limit
    \/ Complete
    \/ Clear
    \/ Rewind

Spec == Init /\ [][Next]_vars
=============================================================================
