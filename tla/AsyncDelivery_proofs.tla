------------------------ MODULE AsyncDelivery_proofs ------------------------
(***************************************************************************)
(* What reaches the user of a background run is what its files say, and no *)
(* result is removed untold: proved for any runs, sessions, reloads of the *)
(* extension and crashes of the host.                                      *)
(***************************************************************************)
EXTENDS AsyncDelivery, TLAPS

Ended == {"over", "dead"}

(***************************************************************************)
(* The runner's steps on its two files (AsyncFiles).  A result is written  *)
(* with the status it repeats, by the step that ends the runner.           *)
(***************************************************************************)
RunnerMoves(f) == Leaving(f) \cup Settling(f) \cup Dying(f) \cup Ending(f)

LEMMA MovesOfRunner ==
  ASSUME NEW f \in FileType, f.phase = "settled" => f.status \in FinalStates,
         NEW g \in RunnerMoves(f)
  PROVE  /\ g \in FileType
         /\ g.phase = "settled" => g.status \in FinalStates
         /\ f.phase \notin Ended
         /\ g.result # "none" /\ f.result = "none"
              => g.phase \in Ended /\ g.result = g.status
<1>1. CASE g \in Leaving(f)
  BY <1>1 DEF Leaving, FileType, FinalStates, Ended
<1>2. CASE g \in Settling(f)
  BY <1>2 DEF Settling, FileType, FinalStates, Ended
<1>3. CASE g \in Dying(f)
  BY <1>3 DEF Dying, FileType, FinalStates, Ended
<1>4. CASE g \in Ending(f)
  BY <1>4 DEF Ending, FileType, FinalStates, ResultStates, Ended
<1> QED BY <1>1, <1>2, <1>3, <1>4 DEF RunnerMoves
-----------------------------------------------------------------------------
(***************************************************************************)
(* The memory of the instances: what a handler awaits the supervisor with, *)
(* and what it has seen.                                                   *)
(***************************************************************************)
Flying(r, s) == \E i \in Loads : inst[i].flight[r][s] > 0
SeenBySome(r) == \E i \in Loads : r \in inst[i].seen

LEMMA FreshInstance ==
  Fresh \in InstanceType /\ Fresh.seen = {} /\ NoSession \notin Sessions
  /\ \A r \in Runs, s \in FinalStates : ~(Fresh.flight[r][s] > 0)
BY OwnerAssumption, BoundsAssumption DEF Fresh, InstanceType

\* The fields no property looks at.
LEMMA QuietFields ==
  ASSUME NEW x \in InstanceType, NEW S \in SUBSET Runs,
         NEW w \in {"on", "down", "polling", "closed"}
  PROVE  \A y \in {[x EXCEPT !.due = S], [x EXCEPT !.retry = S],
                   [x EXCEPT !.watch = w]} :
           y \in InstanceType /\ y.flight = x.flight /\ y.seen = x.seen
BY DEF InstanceType

LEMMA FlightField ==
  ASSUME NEW x \in InstanceType, NEW r \in Runs, NEW s \in FinalStates,
         NEW n \in 0..MaxFlights
  PROVE  LET y == [x EXCEPT !.flight[r][s] = n]
         IN /\ y \in InstanceType /\ y.seen = x.seen
            /\ \A q \in Runs, t \in FinalStates :
                 y.flight[q][t] = IF q = r /\ t = s THEN n ELSE x.flight[q][t]
BY DEF InstanceType

LEMMA PutEffect ==
  ASSUME inst \in [Loads -> InstanceType], NEW i \in Loads,
         NEW x \in InstanceType, Put(i, x)
  PROVE  /\ inst' \in [Loads -> InstanceType]
         /\ \A r \in Runs :
              /\ SeenBySome(r)' => SeenBySome(r) \/ r \in x.seen
              /\ \A s \in FinalStates :
                   Flying(r, s)' => Flying(r, s) \/ x.flight[r][s] > 0
<1>1. inst' \in [Loads -> InstanceType]
  BY DEF Put
<1>2. \A j \in Loads : inst'[j] = IF j = i THEN x ELSE inst[j]
  BY DEF Put
<1> QED BY <1>1, <1>2 DEF Flying, SeenBySome
-----------------------------------------------------------------------------
(***************************************************************************)
(* The invariant.  A story of a run is its result, what a handler took     *)
(* from it, or what the user was told.                                     *)
(***************************************************************************)
Told(r) == announced[r] # "none" \/ \E s \in FinalStates : Flying(r, s)
At(r, places) == poll.run = r /\ poll.at \in places

\* Only a runner that has ended leaves a story, or is repaired.
EndedInv ==
  \A r \in Runs :
    /\ files[r].phase = "settled" => files[r].status \in FinalStates
    /\ files[r].result # "none" \/ Told(r) \/ At(r, {"repair", "mend"})
         => files[r].phase \in Ended

\* The reconciler repairs what it read as unfinished, and copies a result that
\* is still there: no handler runs while it is at work.
PollInv ==
  \A r \in Runs :
    /\ At(r, {"pid", "repair", "mend", "copy"}) => Unfinished(poll.read)
    /\ At(r, {"copy"}) => files[r].result # "none"
    /\ At(r, {"mend"}) => files[r].result = "failed"

\* Every story of a run is its status, except a repair that is half written;
\* that is why the reconciler, which found the status unfinished, can tell no
\* other: nobody has told one yet.
StoryInv ==
  \A r \in Runs \ torn :
    /\ announced[r] # "none" => files[r].status = announced[r]
    /\ \A s \in FinalStates : Flying(r, s) => files[r].status = s
    /\ files[r].result # "none" /\ ~At(r, {"mend"})
         => files[r].status = files[r].result
    /\ poll.run = r /\ Unfinished(poll.read) => ~Told(r)

\* What a handler has seen, and what was notified, was told.
SeenInv ==
  \A r \in Runs : r \in notified \/ SeenBySome(r) => announced[r] # "none"

Inv == TypeOK /\ EndedInv /\ PollInv /\ StoryInv /\ SeenInv

LEMMA NoPollFacts ==
  /\ NoPoll \in PollType
  /\ \A r \in Runs, places \in SUBSET {"repair", "mend", "copy", "pid"} :
       ~(NoPoll.run = r /\ NoPoll.at \in places)
  /\ ~Unfinished(NoPoll.read)
BY DEF NoPoll, PollType, Unfinished

LEMMA InitInv == Init => Inv
<1> SUFFICES ASSUME Init PROVE Inv OBVIOUS
<1>1. TypeOK
  BY FreshInstance, NoPollFacts, BoundsAssumption
  DEF Init, TypeOK, FileType, FinalStates, ResultStates, NoJobs, JobStates, Loads
<1>2. \A r \in Runs : ~SeenBySome(r) /\ ~Told(r)
  BY FreshInstance DEF Init, SeenBySome, Told, Flying
<1>3. EndedInv /\ PollInv /\ StoryInv /\ SeenInv
  BY <1>2, NoPollFacts
  DEF Init, EndedInv, PollInv, StoryInv, SeenInv, At, NoPoll, Told
<1> QED BY <1>1, <1>3 DEF Inv

\* A step that tells no story, of which no handler's memory grows.
Quiet ==
  /\ announced' = announced /\ notified' \subseteq notified
  /\ \A r \in Runs :
       /\ SeenBySome(r)' => SeenBySome(r)
       /\ \A s \in FinalStates : Flying(r, s)' => Flying(r, s)

LEMMA QuietTold == Quiet => \A r \in Runs : Told(r)' => Told(r)
BY DEF Quiet, Told

LEMMA QuietSteps ==
  ASSUME Inv, TypeOK', Quiet, files' = files, torn \subseteq torn',
         poll' \in {poll, NoPoll}, At(poll.run, {"mend"}) /\ poll' = NoPoll
           => poll.run \in torn'
  PROVE  Inv'
<1> USE DEF Inv
<1>1. \A r \in Runs : Told(r)' => Told(r)
  BY QuietTold
<1>2. \A r \in Runs, places \in SUBSET {"repair", "mend", "copy", "pid"} :
        At(r, places)' => At(r, places)
  BY NoPollFacts DEF At
<1>3. \A r \in Runs \ torn' : At(r, {"mend"}) => At(r, {"mend"})'
  BY DEF At
<1>4. EndedInv'
  BY <1>1, <1>2 DEF EndedInv
<1>5. PollInv'
  BY <1>2, NoPollFacts DEF PollInv, At
<1>6. StoryInv'
  BY <1>1, <1>3, NoPollFacts DEF StoryInv, Quiet
<1>7. SeenInv'
  BY DEF SeenInv, Quiet
<1> QED BY <1>4, <1>5, <1>6, <1>7

LEMMA FilesSame ==
  ASSUME Inv, TypeOK', Quiet, UNCHANGED <<files, poll, torn>>
  PROVE  Inv'
<1>1. At(poll.run, {"mend"}) /\ poll' = NoPoll => poll.run \in torn'
  BY NoPollFacts DEF At, NoPoll
<1> QED BY <1>1, QuietSteps

LEMMA FileSteps ==
  ASSUME Inv, TypeOK', Quiet, UNCHANGED <<poll, torn>>,
         NEW r \in Runs, NEW g, SetFile(r, g), files[r].phase \notin Ended,
         g.phase = "settled" => g.status \in FinalStates,
         g.result # "none" => g.phase \in Ended /\ g.result = g.status
  PROVE  Inv'
<1> USE DEF Inv
<1>1. \A q \in Runs : Told(q)' => Told(q)
  BY QuietTold
<1>2. \A q \in Runs : files'[q] = IF q = r THEN g ELSE files[q]
  BY DEF SetFile, TypeOK
<1>3. /\ ~Told(r) /\ files[r].result = "none" /\ ~At(r, {"repair", "mend"})
      /\ ~At(r, {"copy"})
  BY DEF EndedInv, PollInv
<1>4. EndedInv'
  BY <1>1, <1>2, <1>3 DEF EndedInv, At
<1>5. PollInv'
  BY <1>2, <1>3 DEF PollInv, At
<1>6. StoryInv'
  <2>1. ASSUME NEW q \in Runs \ torn, q # r
        PROVE  /\ announced[q] # "none" => files'[q].status = announced[q]
               /\ \A t \in FinalStates : Flying(q, t)' => files'[q].status = t
               /\ files'[q].result # "none" /\ ~At(q, {"mend"})'
                    => files'[q].status = files'[q].result
               /\ poll.run = q /\ Unfinished(poll.read) => ~Told(q)'
    BY <1>1, <1>2, <2>1 DEF StoryInv, Quiet, At
  <2>2. /\ announced[r] = "none" /\ \A t \in FinalStates : ~Flying(r, t)'
        /\ ~Told(r)'
    BY <1>1, <1>3 DEF Told, Quiet
  <2>3. files'[r].result # "none" => files'[r].status = files'[r].result
    BY <1>2
  <2> QED BY <2>1, <2>2, <2>3 DEF StoryInv, Quiet
<1>7. SeenInv'
  BY DEF SeenInv, Quiet
<1> QED BY <1>4, <1>5, <1>6, <1>7
-----------------------------------------------------------------------------
LEMMA WatchedEffect ==
  ASSUME TypeOK, NEW r \in Runs, Watched(r)
  PROVE  /\ inst' \in [Loads -> InstanceType] /\ missed' \subseteq Runs
         /\ \A q \in Runs :
              /\ SeenBySome(q)' => SeenBySome(q)
              /\ \A s \in FinalStates : Flying(q, s)' => Flying(q, s)
<1>1. CASE inst' = inst
  BY <1>1 DEF TypeOK, Watched, SeenBySome, Flying
<1>2. CASE cur # 0 /\ inst[cur].watch = "on"
  <2>1. cur \in Loads /\ inst[cur] \in InstanceType
    BY <1>2, BoundsAssumption DEF TypeOK, Loads
  <2> DEFINE S == inst[cur].due \cup {r}
             y == [inst[cur] EXCEPT !.due = S]
  <2>2. S \in SUBSET Runs
    BY <2>1 DEF InstanceType
  <2>3. Put(cur, y) /\ missed' = missed
    BY <1>2 DEF Watched
  <2> HIDE DEF S
  <2>4. y \in InstanceType /\ y.flight = inst[cur].flight /\ y.seen = inst[cur].seen
    BY <2>1, <2>2, QuietFields
  <2> HIDE DEF y
  <2>5. /\ inst' \in [Loads -> InstanceType]
        /\ \A q \in Runs :
              /\ SeenBySome(q)' => SeenBySome(q) \/ q \in y.seen
              /\ \A s \in FinalStates :
                   Flying(q, s)' => Flying(q, s) \/ y.flight[q][s] > 0
    BY <2>1, <2>3, <2>4, PutEffect DEF TypeOK
  <2> QED BY <2>1, <2>3, <2>4, <2>5 DEF TypeOK, SeenBySome, Flying
<1> QED BY <1>1, <1>2 DEF Watched, TypeOK

(***************************************************************************)
(* The runner.                                                             *)
(***************************************************************************)
LEMMA SameInst ==
  ASSUME inst' = inst, announced' = announced, notified' \subseteq notified
  PROVE  Quiet
BY DEF Quiet, SeenBySome, Flying

LEMMA StartStep ==
  ASSUME Inv, NEW r \in Runs, Start(r)
  PROVE  Inv'
<1> USE DEF Inv
<1> DEFINE g == [files[r] EXCEPT !.phase = "spawned"]
<1>1. files[r] \in FileType /\ files[r].phase = "unborn"
  BY DEF Start, TypeOK
<1>2. g \in FileType /\ g.phase = "spawned" /\ g.result = files[r].result
  BY <1>1 DEF FileType
<1>3. SetFile(r, g)
  BY DEF Start
<1> HIDE DEF g
<1>4. TypeOK'
  BY <1>2, <1>3 DEF Start, SetFile, TypeOK, JobStates
<1>5. files[r].phase \notin Ended /\ files[r].result = "none"
  BY <1>1 DEF Ended, EndedInv
<1>6. Quiet
  BY SameInst DEF Start
<1> QED BY <1>2, <1>3, <1>4, <1>5, <1>6, FileSteps DEF Start

LEMMA RunnerSteps ==
  ASSUME Inv, NEW r \in Runs, Runner(r)
  PROVE  Inv'
<1> USE DEF Inv
<1>1. /\ files[r] \in FileType
      /\ files[r].phase = "settled" => files[r].status \in FinalStates
  BY DEF TypeOK, EndedInv
<1>2. PICK g : /\ SetFile(r, g)
               /\ \/ /\ files[r].phase = "spawned"
                     /\ g = [files[r] EXCEPT !.phase = "running",
                                             !.status = "running"]
                  \/ files[r].phase = "spawned" /\ g = [files[r] EXCEPT !.phase = "dead"]
                  \/ g \in RunnerMoves(files[r])
  BY DEF Runner, RunnerBegins, RunnerFailsToBegin, RunnerWorks, RunnerEnds, RunnerMoves
<1>3. /\ g \in FileType
      /\ g.phase = "settled" => g.status \in FinalStates
      /\ files[r].phase \notin Ended
      /\ g.result # "none" /\ files[r].result = "none"
           => g.phase \in Ended /\ g.result = g.status
  <2>1. CASE files[r].phase = "spawned"
             /\ g = [files[r] EXCEPT !.phase = "running", !.status = "running"]
    BY <1>1, <2>1 DEF FileType, Ended
  <2>2. CASE files[r].phase = "spawned" /\ g = [files[r] EXCEPT !.phase = "dead"]
    BY <1>1, <2>2 DEF FileType, Ended
  <2>3. CASE g \in RunnerMoves(files[r])
    BY <1>1, <2>3, MovesOfRunner
  <2> QED BY <1>2, <2>1, <2>2, <2>3
<1>4. files[r].result = "none"
  BY <1>3 DEF EndedInv
<1>5. UNCHANGED <<asks, taken, cur, jobs, notified, announced, poll, torn, crashes>>
  BY DEF Runner, RunnerBegins, RunnerFailsToBegin, RunnerWorks, RunnerEnds, host
<1>6. UNCHANGED <<inst, missed>> \/ Watched(r)
  BY DEF Runner, RunnerBegins, RunnerFailsToBegin, RunnerWorks, RunnerEnds, host
<1>7. /\ inst' \in [Loads -> InstanceType] /\ missed' \subseteq Runs /\ Quiet
  <2>1. CASE UNCHANGED <<inst, missed>>
    BY <1>5, <2>1, SameInst DEF TypeOK
  <2>2. CASE Watched(r)
    BY <1>5, <2>2, WatchedEffect DEF Quiet
  <2> QED BY <1>6, <2>1, <2>2
<1>8. SetFile(r, g)
  BY <1>2
<1>9. files' \in [Runs -> FileType]
  BY <1>3, <1>8 DEF SetFile, TypeOK
<1>10. TypeOK'
  BY <1>5, <1>7, <1>9 DEF TypeOK
<1>11. g.result # "none" => g.phase \in Ended /\ g.result = g.status
  BY <1>3, <1>4
<1> QED BY <1>3, <1>5, <1>7, <1>8, <1>10, <1>11, FileSteps
-----------------------------------------------------------------------------
(***************************************************************************)
(* The host: loads, sessions, its end, and the watcher.                    *)
(***************************************************************************)
\* One instance changes in fields no property looks at.
LEMMA PutQuiet ==
  ASSUME TypeOK, NEW i \in Loads, NEW x \in InstanceType, Put(i, x),
         x.flight = inst[i].flight \/ x.flight = Fresh.flight,
         x.seen \subseteq inst[i].seen,
         announced' = announced, notified' \subseteq notified
  PROVE  inst' \in [Loads -> InstanceType] /\ Quiet
<1>1. /\ inst' \in [Loads -> InstanceType]
      /\ \A r \in Runs :
           /\ SeenBySome(r)' => SeenBySome(r) \/ r \in x.seen
           /\ \A s \in FinalStates :
                Flying(r, s)' => Flying(r, s) \/ x.flight[r][s] > 0
  BY PutEffect DEF TypeOK
<1>2. \A r \in Runs, s \in FinalStates :
        x.flight[r][s] > 0 => Flying(r, s)
  BY FreshInstance DEF Flying
<1>3. \A r \in x.seen : SeenBySome(r)
  BY DEF SeenBySome
<1> QED BY <1>1, <1>2, <1>3 DEF Quiet

LEMMA PrimeEffect ==
  ASSUME TypeOK, NEW x \in InstanceType
  PROVE  /\ Prime(x) \in InstanceType
         /\ Prime(x).flight = x.flight /\ Prime(x).seen = x.seen
BY DEF Prime, Results, InstanceType

LEMMA LoadStep ==
  ASSUME Inv, Load
  PROVE  Inv'
<1> USE DEF Inv
<1>1. cur' \in Loads
  <2>1. cur \in 0..MaxLoads /\ MaxLoads \in Nat
    BY BoundsAssumption DEF TypeOK
  <2>2. cur < MaxLoads /\ cur' = cur + 1
    BY DEF Load
  <2> QED BY <2>1, <2>2 DEF Loads
<1> DEFINE old(i) == [inst[i] EXCEPT !.watch = "closed", !.due = {}]
           new(i) == IF i = cur + 1 THEN Prime(Fresh)
                     ELSE IF i = cur THEN old(i) ELSE inst[i]
<1>2. inst' = [i \in Loads |-> new(i)]
  BY DEF Load
<1>3. ASSUME NEW i \in Loads
      PROVE  /\ new(i) \in InstanceType
             /\ \A r \in Runs :
                  /\ r \in new(i).seen => r \in inst[i].seen
                  /\ \A s \in FinalStates :
                       new(i).flight[r][s] > 0 => inst[i].flight[r][s] > 0
  <2>1. inst[i] \in InstanceType
    BY DEF TypeOK
  <2>2. old(i) \in InstanceType /\ old(i).seen = inst[i].seen
        /\ old(i).flight = inst[i].flight
    BY <2>1 DEF InstanceType
  <2>3. /\ Prime(Fresh) \in InstanceType /\ Prime(Fresh).seen = {}
        /\ Prime(Fresh).flight = Fresh.flight
    BY FreshInstance, PrimeEffect
  <2> QED BY <2>1, <2>2, <2>3, FreshInstance
<1> HIDE DEF new
<1>4. inst' \in [Loads -> InstanceType]
  BY <1>2, <1>3
<1>5. Quiet
  BY <1>2, <1>3 DEF Load, Quiet, SeenBySome, Flying
<1>6. TypeOK'
  <2>1. cur' \in 0..MaxLoads
    BY <1>1, BoundsAssumption DEF Loads
  <2>2. /\ jobs' \in [Runs -> JobStates] /\ missed' \subseteq Runs
        /\ UNCHANGED <<files, asks, taken, notified, announced, poll, torn, crashes>>
    BY DEF Load, NoJobs, JobStates
  <2> QED BY <1>4, <2>1, <2>2 DEF TypeOK
<1> QED BY <1>5, <1>6, FilesSame DEF Load

LEMMA SessionSteps ==
  ASSUME Inv, (\E s \in Sessions : SessionStart(s)) \/ SessionCompact
  PROVE  Inv'
<1> USE DEF Inv
<1>1. ASSUME NEW s \in Sessions, SessionStart(s) PROVE Inv'
  <2>1. cur \in Loads /\ inst[cur] \in InstanceType
    BY <1>1, BoundsAssumption DEF SessionStart, HostFree, TypeOK, Loads
  <2> DEFINE a == [inst[cur] EXCEPT !.due = {}]
             x == [Prime(a) EXCEPT !.session = s]
  <2>2. a \in InstanceType /\ a.flight = inst[cur].flight /\ a.seen = inst[cur].seen
    BY <2>1, QuietFields
  <2> HIDE DEF a
  <2>3. /\ x \in InstanceType /\ x.flight = inst[cur].flight
        /\ x.seen = inst[cur].seen
    BY <2>2, PrimeEffect DEF InstanceType
  <2>4. Put(cur, x)
    BY <1>1 DEF SessionStart, a
  <2> HIDE DEF x
  <2>5. inst' \in [Loads -> InstanceType] /\ Quiet
    BY <1>1, <2>1, <2>3, <2>4, PutQuiet DEF SessionStart
  <2>6. TypeOK'
    BY <1>1, <2>5 DEF SessionStart, TypeOK, JobStates
  <2> QED BY <1>1, <2>5, <2>6, FilesSame DEF SessionStart
<1>2. CASE SessionCompact
  <2>1. TypeOK'
    BY <1>2 DEF SessionCompact, TypeOK, JobStates
  <2>2. Quiet
    BY <1>2, SameInst DEF SessionCompact
  <2> QED BY <1>2, <2>1, <2>2, FilesSame DEF SessionCompact
<1> QED BY <1>1, <1>2

LEMMA HostEndsStep ==
  ASSUME Inv, HostEnds
  PROVE  Inv'
<1> USE DEF Inv
<1>1. inst' = [i \in Loads |-> Fresh]
  BY DEF HostEnds
<1>2. TypeOK'
  <2>1. inst' \in [Loads -> InstanceType]
    BY <1>1, FreshInstance
  <2>2. /\ jobs' \in [Runs -> JobStates] /\ missed' \subseteq Runs
        /\ notified' \subseteq Runs /\ poll' \in PollType
        /\ UNCHANGED <<files, asks, taken, announced>>
    BY NoPollFacts DEF HostEnds, NoJobs, JobStates
  <2>3. cur' \in 0..MaxLoads
    BY BoundsAssumption DEF HostEnds
  <2>4. crashes' \in 0..MaxCrashes
    BY BoundsAssumption DEF HostEnds, TypeOK
  <2>5. torn' \subseteq Runs
    <3>1. poll.at = "mend" => poll.run \in Runs
      BY DEF TypeOK, PollType, NoPoll
    <3> QED BY <3>1 DEF HostEnds, TypeOK
  <2> QED BY <2>1, <2>2, <2>3, <2>4, <2>5 DEF TypeOK
<1>3. Quiet
  BY <1>1, FreshInstance DEF HostEnds, Quiet, SeenBySome, Flying
<1>4. files' = files /\ torn \subseteq torn' /\ poll' = NoPoll
      /\ (At(poll.run, {"mend"}) => poll.run \in torn')
  BY DEF HostEnds, At
<1> QED BY <1>2, <1>3, <1>4, QuietSteps

LEMMA WatcherSteps ==
  ASSUME Inv, Watcher
  PROVE  Inv'
<1> USE DEF Inv
<1>1. cur \in Loads /\ inst[cur] \in InstanceType
  BY BoundsAssumption
  DEF Watcher, WatcherFails, WatcherRestarts, PollResults, HostFree, TypeOK, Loads
<1>2. PICK x : /\ Put(cur, x)
               /\ \/ x = [inst[cur] EXCEPT !.watch = "down"]
                  \/ x = [Prime(inst[cur]) EXCEPT !.watch = "polling"]
                  \/ x = [inst[cur] EXCEPT !.watch = "on"]
                  \/ x = Prime(inst[cur])
  BY DEF Watcher, WatcherFails, WatcherRestarts, PollResults
<1>3. /\ x \in InstanceType /\ x.flight = inst[cur].flight
      /\ x.seen = inst[cur].seen
  <2> DEFINE p == Prime(inst[cur])
  <2>1. /\ p \in InstanceType /\ p.flight = inst[cur].flight
        /\ p.seen = inst[cur].seen
    BY <1>1, PrimeEffect
  <2> HIDE DEF p
  <2>2. ASSUME NEW y \in InstanceType, NEW w \in {"on", "down", "polling"}
        PROVE  /\ [y EXCEPT !.watch = w] \in InstanceType
               /\ [y EXCEPT !.watch = w].flight = y.flight
               /\ [y EXCEPT !.watch = w].seen = y.seen
    BY DEF InstanceType
  <2>3. x \in {p, [inst[cur] EXCEPT !.watch = "down"],
               [inst[cur] EXCEPT !.watch = "on"], [p EXCEPT !.watch = "polling"]}
    BY <1>2 DEF p
  <2> QED BY <1>1, <2>1, <2>2, <2>3
<1>4. /\ UNCHANGED <<files, asks, taken, cur, jobs, notified, announced, poll,
                     torn, crashes>>
      /\ missed' \in {missed, {}}
  BY DEF Watcher, WatcherFails, WatcherRestarts, PollResults
<1>5. inst' \in [Loads -> InstanceType] /\ Quiet
  BY <1>1, <1>2, <1>3, <1>4, PutQuiet
<1>6. TypeOK'
  BY <1>4, <1>5 DEF TypeOK
<1> QED BY <1>4, <1>5, <1>6, FilesSame

LEMMA PidOrCleanupSteps ==
  ASSUME Inv, NEW r \in Runs,
         PidIsTaken(r) \/ PidIsFreed(r) \/ CleanupTimer(r)
  PROVE  Inv'
<1> USE DEF Inv
<1>1. UNCHANGED <<files, inst, announced, notified, poll, torn>>
  BY DEF PidIsTaken, PidIsFreed, CleanupTimer, host
<1>2. TypeOK'
  <2>1. CASE PidIsTaken(r) \/ PidIsFreed(r)
    BY <2>1 DEF PidIsTaken, PidIsFreed, TypeOK, host
  <2>2. CASE CleanupTimer(r)
    BY <2>2 DEF CleanupTimer, TypeOK, JobStates
  <2> QED BY <2>1, <2>2
<1>3. Quiet
  BY <1>1, SameInst
<1> QED BY <1>1, <1>2, <1>3, FilesSame
-----------------------------------------------------------------------------
(***************************************************************************)
(* The handlers of a result.                                               *)
(***************************************************************************)
LEMMA TurnFacts ==
  ASSUME TypeOK, NEW i \in Loads, Turn(i)
  PROVE  /\ inst[i] \in InstanceType
         /\ \A r \in Runs, places \in SUBSET {"repair", "mend", "copy", "pid"} :
              ~At(r, places)
         /\ ~Unfinished(poll.read)
BY NoPollFacts DEF Turn, HostFree, TypeOK, At

\* What a handler tells is what the status says, of a run that has ended.
Tellable(r, s) ==
  files[r].phase \in Ended /\ (r \notin torn => files[r].status = s)

LEMMA FinishStep ==
  ASSUME Inv, NEW i \in Loads, NEW r \in Runs, NEW s \in FinalStates, Turn(i),
         NEW x \in InstanceType, x.seen = inst[i].seen,
         \A q \in Runs, t \in FinalStates :
           x.flight[q][t] > 0 => inst[i].flight[q][t] > 0,
         Tellable(r, s), Finish(i, x, r, s),
         UNCHANGED <<asks, taken, cur, poll, missed, torn, crashes>>
  PROVE  Inv'
<1> USE DEF Inv
<1> DEFINE y == [x EXCEPT !.seen = @ \cup {r}]
           g == [files[r] EXCEPT !.result = "none"]
<1>1. y \in InstanceType /\ y.seen = inst[i].seen \cup {r} /\ y.flight = x.flight
  BY DEF InstanceType
<1>2. /\ g \in FileType /\ g.result = "none"
      /\ g.phase = files[r].phase /\ g.status = files[r].status
  BY DEF TypeOK, FileType, ResultStates
<1>3. Put(i, y) /\ SetFile(r, g)
  BY DEF Finish
<1> HIDE DEF y, g
<1>4. /\ inst' \in [Loads -> InstanceType]
      /\ \A q \in Runs :
           /\ SeenBySome(q)' => SeenBySome(q) \/ q = r
           /\ \A t \in FinalStates : Flying(q, t)' => Flying(q, t)
  <2>1. \A q \in Runs :
          /\ SeenBySome(q)' => SeenBySome(q) \/ q \in y.seen
          /\ \A t \in FinalStates :
               Flying(q, t)' => Flying(q, t) \/ y.flight[q][t] > 0
    BY <1>1, <1>3, PutEffect DEF TypeOK
  <2>2. inst' \in [Loads -> InstanceType]
    BY <1>1, <1>3, PutEffect DEF TypeOK
  <2>3. \A q \in Runs : q \in inst[i].seen => SeenBySome(q)
    BY DEF SeenBySome
  <2>4. \A q \in Runs, t \in FinalStates : y.flight[q][t] > 0 => Flying(q, t)
    BY <1>1 DEF Flying
  <2> QED BY <1>1, <2>1, <2>2, <2>3, <2>4
<1>5. \A q \in Runs : files'[q] = IF q = r THEN g ELSE files[q]
  BY <1>3 DEF SetFile, TypeOK
<1>6. /\ announced' \in {announced, [announced EXCEPT ![r] = s]}
      /\ announced'[r] # "none" /\ notified' \subseteq notified \cup {r}
      /\ announced'[r] = announced[r] \/ announced'[r] = s
      /\ jobs' \in [Runs -> JobStates]
  <2>1. CASE r \in x.seen
    <3>1. announced[r] # "none"
      BY <2>1 DEF SeenInv, SeenBySome
    <3> QED BY <2>1, <3>1 DEF Finish, TypeOK
  <2>2. CASE r \notin x.seen
    <3>1. Announce(r, s)
      BY <2>2 DEF Finish
    <3>2. jobs' \in [Runs -> JobStates]
      BY <3>1 DEF Announce, JobToldOf, TypeOK, JobStates, FinalStates
    <3>3. CASE r \in notified
      BY <3>1, <3>2, <3>3 DEF Announce, SeenInv
    <3>4. CASE r \notin notified
      BY <3>1, <3>2, <3>4 DEF Announce, TypeOK, FinalStates
    <3> QED BY <3>3, <3>4
  <2> QED BY <2>1, <2>2
<1>7. /\ announced' \in [Runs -> ResultStates]
      /\ \A q \in Runs : q # r => announced'[q] = announced[q]
  BY <1>6 DEF TypeOK, ResultStates
<1>8. TypeOK'
  <2>1. files' \in [Runs -> FileType]
    BY <1>2, <1>3 DEF SetFile, TypeOK
  <2> QED BY <2>1, <1>4, <1>6, <1>7 DEF TypeOK
<1>9. ASSUME NEW q \in Runs, q # r PROVE Told(q)' => Told(q)
  BY <1>4, <1>7, <1>9 DEF Told
<1>10. EndedInv'
  <2>1. files'[r].phase \in Ended
    BY <1>2, <1>5 DEF Tellable
  <2>2. "settled" \notin Ended
    BY DEF Ended
  <2> QED BY <1>5, <1>9, <2>1, <2>2 DEF EndedInv, At
<1>11. PollInv'
  BY TurnFacts DEF PollInv, At
<1>12. StoryInv'
  <2>1. ASSUME r \notin torn
        PROVE  /\ announced'[r] # "none" => files'[r].status = announced'[r]
               /\ \A t \in FinalStates : Flying(r, t)' => files'[r].status = t
               /\ files'[r].result = "none"
    BY <2>1, <1>2, <1>4, <1>5, <1>6 DEF StoryInv, Tellable
  <2>2. ASSUME NEW q \in Runs \ torn, q # r
        PROVE  /\ announced'[q] # "none" => files'[q].status = announced'[q]
               /\ \A t \in FinalStates : Flying(q, t)' => files'[q].status = t
               /\ files'[q].result # "none" => files'[q].status = files'[q].result
    BY <2>2, <1>4, <1>5, <1>7, TurnFacts DEF StoryInv
  <2>3. ~Unfinished(poll.read)'
    BY TurnFacts DEF Unfinished
  <2> QED BY <2>1, <2>2, <2>3 DEF StoryInv
<1>13. SeenInv'
  BY <1>4, <1>6, <1>7 DEF SeenInv
<1> QED BY <1>8, <1>10, <1>11, <1>12, <1>13

\* A count of handlers goes down.
LEMMA OneLess ==
  ASSUME NEW x \in InstanceType, NEW r \in Runs, NEW s \in FinalStates,
         x.flight[r][s] > 0
  PROVE  LET y == [x EXCEPT !.flight[r][s] = @ - 1]
         IN /\ y \in InstanceType /\ y.seen = x.seen
            /\ \A q \in Runs, t \in FinalStates :
                 y.flight[q][t] > 0 => x.flight[q][t] > 0
<1> DEFINE n == x.flight[r][s] - 1
<1>1. n \in 0..MaxFlights /\ MaxFlights \in Nat
  BY BoundsAssumption DEF InstanceType
<1>2. [x EXCEPT !.flight[r][s] = @ - 1] = [x EXCEPT !.flight[r][s] = n]
  OBVIOUS
<1> HIDE DEF n
<1> DEFINE y == [x EXCEPT !.flight[r][s] = n]
<1>3. /\ y \in InstanceType /\ y.seen = x.seen
      /\ \A q \in Runs, t \in FinalStates :
           y.flight[q][t] = IF q = r /\ t = s THEN n ELSE x.flight[q][t]
  BY <1>1, FlightField
<1> HIDE DEF y
<1> QED BY <1>2, <1>3 DEF y

LEMMA HandleStep ==
  ASSUME Inv, NEW i \in Loads, NEW r \in Runs, HandleResult(i, r)
  PROVE  Inv'
<1> USE DEF Inv
<1> DEFINE x == [inst[i] EXCEPT !.due = @ \ {r}]
           s == files[r].result
<1>1. /\ Turn(i) /\ UNCHANGED <<asks, taken, cur, poll, missed, torn, crashes>>
      /\ \/ Put(i, x) /\ UNCHANGED <<files, jobs, notified, announced>>
         \/ s # "none" /\ x.flight[r][s] < MaxFlights /\ Fly(i, x, r, s)
         \/ s # "none" /\ Finish(i, x, r, s)
  BY DEF HandleResult
<1>2. inst[i] \in InstanceType
  BY <1>1, TurnFacts
<1>3. x \in InstanceType /\ x.flight = inst[i].flight /\ x.seen = inst[i].seen
  <2> DEFINE S == inst[i].due \ {r}
  <2>1. S \in SUBSET Runs
    BY <1>2 DEF InstanceType
  <2> HIDE DEF S
  <2>2. /\ [inst[i] EXCEPT !.due = S] \in InstanceType
        /\ [inst[i] EXCEPT !.due = S].flight = inst[i].flight
        /\ [inst[i] EXCEPT !.due = S].seen = inst[i].seen
    BY <1>2, <2>1, QuietFields
  <2> QED BY <2>2 DEF S
<1>4. s # "none" => s \in FinalStates /\ Tellable(r, s)
  BY <1>1, TurnFacts DEF TypeOK, FileType, ResultStates, EndedInv, StoryInv, Tellable
<1> HIDE DEF x, s
<1>5. CASE Put(i, x) /\ UNCHANGED <<files, jobs, notified, announced>>
  <2>1. inst' \in [Loads -> InstanceType] /\ Quiet
    BY <1>3, <1>5, PutQuiet
  <2>2. TypeOK'
    BY <1>1, <1>5, <2>1 DEF TypeOK
  <2> QED BY <1>1, <1>5, <2>1, <2>2, FilesSame
<1>6. CASE s # "none" /\ x.flight[r][s] < MaxFlights /\ Fly(i, x, r, s)
  <2> DEFINE n == x.flight[r][s] + 1
             y == [x EXCEPT !.flight[r][s] = n]
  <2>1. n \in 0..MaxFlights
    BY <1>3, <1>4, <1>6, BoundsAssumption DEF InstanceType
  <2>2. Put(i, y) /\ UNCHANGED <<files, jobs, notified, announced>>
    BY <1>6 DEF Fly
  <2> HIDE DEF n
  <2>3. /\ y \in InstanceType /\ y.seen = x.seen
        /\ \A q \in Runs, t \in FinalStates :
             y.flight[q][t] = IF q = r /\ t = s THEN n ELSE x.flight[q][t]
    BY <1>3, <1>4, <1>6, <2>1, FlightField
  <2> HIDE DEF y
  <2>4. /\ inst' \in [Loads -> InstanceType]
        /\ \A q \in Runs :
             /\ SeenBySome(q)' => SeenBySome(q) \/ q \in y.seen
             /\ \A t \in FinalStates :
                  Flying(q, t)' => Flying(q, t) \/ y.flight[q][t] > 0
    BY <2>2, <2>3, PutEffect DEF TypeOK
  <2>5. /\ \A q \in Runs : SeenBySome(q)' => SeenBySome(q)
        /\ \A q \in Runs, t \in FinalStates :
             Flying(q, t)' => Flying(q, t) \/ (q = r /\ t = s)
    BY <1>3, <2>3, <2>4 DEF SeenBySome, Flying
  <2>6. TypeOK'
    BY <1>1, <2>2, <2>4 DEF TypeOK
  <2>7. ASSUME NEW q \in Runs, q # r PROVE Told(q)' => Told(q)
    BY <2>2, <2>5, <2>7 DEF Told
  <2>8. EndedInv'
    BY <1>1, <1>4, <1>6, <2>2, <2>7 DEF EndedInv, Tellable, At
  <2>9. PollInv'
    BY <1>1, <2>2 DEF PollInv, At
  <2>10. StoryInv'
    <3>1. ~Unfinished(poll.read)' /\ \A q \in Runs : ~At(q, {"mend"}) /\ ~At(q, {"mend"})'
      BY <1>1, TurnFacts DEF Unfinished, At
    <3>2. ASSUME NEW q \in Runs \ torn
          PROVE  /\ announced'[q] # "none" => files'[q].status = announced'[q]
                 /\ \A t \in FinalStates : Flying(q, t)' => files'[q].status = t
                 /\ files'[q].result # "none" => files'[q].status = files'[q].result
      BY <1>4, <1>6, <2>2, <2>5, <3>1 DEF StoryInv, Tellable
    <3> QED BY <1>1, <3>1, <3>2 DEF StoryInv
  <2>11. SeenInv'
    BY <2>2, <2>5 DEF SeenInv
  <2> QED BY <2>6, <2>8, <2>9, <2>10, <2>11
<1>7. CASE s # "none" /\ Finish(i, x, r, s)
  BY <1>1, <1>3, <1>4, <1>7, FinishStep
<1> QED BY <1>1, <1>5, <1>6, <1>7

LEMMA AnswerSteps ==
  ASSUME Inv, NEW i \in Loads, NEW r \in Runs,
         Delivered(i, r) \/ NotDelivered(i, r) \/ RetryTimer(i, r)
  PROVE  Inv'
<1> USE DEF Inv
<1>1. Turn(i) /\ inst[i] \in InstanceType
  <2>1. Turn(i)
    BY DEF Delivered, NotDelivered, RetryTimer
  <2> QED BY <2>1, TurnFacts
<1>2. CASE Delivered(i, r)
  <2>1. PICK s \in FinalStates :
          /\ inst[i].flight[r][s] > 0
          /\ Finish(i, [inst[i] EXCEPT !.flight[r][s] = @ - 1], r, s)
    BY <1>2 DEF Delivered
  <2> DEFINE x == [inst[i] EXCEPT !.flight[r][s] = @ - 1]
  <2>2. /\ x \in InstanceType /\ x.seen = inst[i].seen
        /\ \A q \in Runs, t \in FinalStates :
             x.flight[q][t] > 0 => inst[i].flight[q][t] > 0
    BY <1>1, <2>1, OneLess
  <2>3. Tellable(r, s)
    BY <2>1 DEF Tellable, EndedInv, StoryInv, Told, Flying
  <2> HIDE DEF x
  <2>4. Finish(i, x, r, s)
    BY <2>1 DEF x
  <2> QED BY <1>1, <1>2, <2>2, <2>3, <2>4, FinishStep DEF Delivered
<1>3. CASE NotDelivered(i, r)
  <2>1. PICK s \in FinalStates :
          /\ inst[i].flight[r][s] > 0
          /\ Put(i, KeepForRetry([inst[i] EXCEPT !.flight[r][s] = @ - 1], r))
    BY <1>3 DEF NotDelivered
  <2> DEFINE x == [inst[i] EXCEPT !.flight[r][s] = @ - 1]
             y == KeepForRetry(x, r)
  <2>2. /\ x \in InstanceType /\ x.seen = inst[i].seen
        /\ \A q \in Runs, t \in FinalStates :
             x.flight[q][t] > 0 => inst[i].flight[q][t] > 0
    BY <1>1, <2>1, OneLess
  <2>3. Put(i, y)
    BY <2>1
  <2> HIDE DEF x
  <2>4. y \in InstanceType /\ y.seen = x.seen /\ y.flight = x.flight
    BY <2>2 DEF KeepForRetry, InstanceType
  <2> HIDE DEF y
  <2>5. /\ inst' \in [Loads -> InstanceType]
        /\ \A q \in Runs :
             /\ SeenBySome(q)' => SeenBySome(q) \/ q \in y.seen
             /\ \A t \in FinalStates :
                  Flying(q, t)' => Flying(q, t) \/ y.flight[q][t] > 0
    BY <2>3, <2>4, PutEffect DEF TypeOK
  <2>6. Quiet
    BY <1>3, <2>2, <2>4, <2>5 DEF NotDelivered, Quiet, SeenBySome, Flying
  <2>7. TypeOK'
    BY <1>3, <2>5 DEF NotDelivered, TypeOK
  <2> QED BY <1>3, <2>6, <2>7, FilesSame DEF NotDelivered
<1>4. CASE RetryTimer(i, r)
  <2> DEFINE x == [inst[i] EXCEPT !.retry = @ \ {r}, !.due = @ \cup {r}]
  <2>1. /\ x \in InstanceType /\ x.flight = inst[i].flight
        /\ x.seen = inst[i].seen
    BY <1>1 DEF InstanceType
  <2>2. Put(i, x)
    BY <1>4 DEF RetryTimer
  <2> HIDE DEF x
  <2>3. inst' \in [Loads -> InstanceType] /\ Quiet
    BY <1>4, <2>1, <2>2, PutQuiet DEF RetryTimer
  <2>4. TypeOK'
    BY <1>4, <2>3 DEF RetryTimer, TypeOK
  <2> QED BY <1>4, <2>3, <2>4, FilesSame DEF RetryTimer
<1> QED BY <1>2, <1>3, <1>4
-----------------------------------------------------------------------------
(***************************************************************************)
(* The reconciler.                                                         *)
(***************************************************************************)
LEMMA PollBeginsStep ==
  ASSUME Inv, NEW r \in Runs, PollBegins(r)
  PROVE  Inv'
<1> USE DEF Inv
<1>1. /\ poll' = [run |-> r, at |-> "look", read |-> files[r].status]
      /\ UNCHANGED <<files, asks, taken, cur, inst, jobs, notified, announced,
                     missed, torn, crashes>>
  BY DEF PollBegins, host
<1>2. files[r].status \in {"absent", "running"} \cup FinalStates
  BY DEF TypeOK, FileType
<1>3. TypeOK'
  BY <1>1, <1>2 DEF TypeOK, PollType
<1>4. \A q \in Runs : /\ ~At(q, {"repair", "mend"})' /\ ~At(q, {"mend"})'
                      /\ ~At(q, {"pid", "repair", "mend", "copy"})'
                      /\ ~At(q, {"copy"})'
  BY <1>1 DEF At
<1>5. ~At(r, {"mend"}) /\ \A q \in Runs : ~At(q, {"mend"})
  BY NoPollFacts DEF PollBegins, HostFree, At
<1>6. \A q \in Runs : Told(q)' <=> Told(q)
  BY <1>1 DEF Told, Flying
<1>7. \A q \in Runs, s \in FinalStates : Flying(q, s)' <=> Flying(q, s)
  BY <1>1 DEF Flying
<1>8. Unfinished(files[r].status) /\ r \notin torn => ~Told(r)
  BY DEF StoryInv, Told, Unfinished, FinalStates, TypeOK, ResultStates
<1>9. StoryInv'
  BY <1>1, <1>5, <1>6, <1>7, <1>8 DEF StoryInv, Unfinished
<1>10. EndedInv' /\ PollInv' /\ SeenInv'
  BY <1>1, <1>4, <1>6 DEF EndedInv, PollInv, SeenInv, SeenBySome
<1> QED BY <1>3, <1>9, <1>10

LEMMA PollRecord ==
  ASSUME TypeOK, poll.at # "none"
  PROVE  /\ poll.run \in Runs /\ files[poll.run] \in FileType
         /\ poll.at \in {"look", "pid", "repair", "mend", "copy"}
         /\ poll.read \in {"absent", "running"} \cup FinalStates
         /\ \A at \in {"look", "pid", "repair", "mend", "copy"} :
              LET p == [poll EXCEPT !.at = at]
              IN p \in PollType /\ p.run = poll.run /\ p.read = poll.read
                 /\ p.at = at
BY DEF TypeOK, PollType, NoPoll

LEMMA JobsAfter ==
  ASSUME TypeOK, NEW s \in {"absent", "running"} \cup FinalStates, PollEnds(s)
  PROVE  jobs' \in [Runs -> JobStates] /\ poll' = NoPoll /\ NoPoll \in PollType
<1>1. ASSUME NEW j \in JobStates PROVE JobAfter(j, s) \in JobStates
  BY DEF JobAfter, JobStates, FinalStates
<1> QED BY <1>1, NoPollFacts DEF PollEnds, TypeOK

LEMMA LookSteps ==
  ASSUME Inv, PollLooks \/ PollChecksPid
  PROVE  Inv'
<1> USE DEF Inv
<1>1. /\ UNCHANGED <<files, asks, taken, cur, inst, notified, announced,
                     missed, torn, crashes>>
      /\ poll.at \in {"look", "pid"} /\ poll.at # "none"
  BY DEF PollLooks, PollChecksPid
<1>2. Quiet
  BY <1>1, SameInst
<1>3. CASE PollEnds(poll.read)
  <2>1. jobs' \in [Runs -> JobStates] /\ poll' = NoPoll /\ NoPoll \in PollType
    BY <1>1, <1>3, PollRecord, JobsAfter
  <2>2. TypeOK'
    BY <1>1, <2>1 DEF TypeOK
  <2>3. ~At(poll.run, {"mend"})
    BY <1>1 DEF At
  <2> QED BY <1>1, <1>2, <2>1, <2>2, <2>3, QuietSteps
<1>4. ASSUME NEW at \in {"copy", "pid", "repair"}, PollGoes(at),
             Unfinished(poll.read),
             at = "copy" => files[poll.run].result # "none",
             at = "repair" => files[poll.run].phase \in Ended
      PROVE  Inv'
  <2>1. /\ poll' \in PollType /\ poll'.run = poll.run
        /\ poll'.read = poll.read /\ poll'.at = at /\ jobs' = jobs
    BY <1>1, <1>4, PollRecord DEF PollGoes
  <2>2. TypeOK'
    BY <1>1, <2>1 DEF TypeOK
  <2>3. \A q \in Runs, s \in FinalStates : Flying(q, s)' <=> Flying(q, s)
    BY <1>1 DEF Flying
  <2>4. \A q \in Runs : Told(q)' <=> Told(q)
    BY <1>1, <2>3 DEF Told
  <2>5. EndedInv'
    BY <1>1, <1>4, <2>1, <2>4 DEF EndedInv, At
  <2>6. PollInv'
    BY <1>1, <1>4, <2>1 DEF PollInv, At, Unfinished
  <2>7. StoryInv'
    BY <1>1, <1>4, <2>1, <2>3, <2>4 DEF StoryInv, At, Unfinished
  <2>8. SeenInv'
    BY <1>1 DEF SeenInv, SeenBySome
  <2> QED BY <2>2, <2>5, <2>6, <2>7, <2>8
<1>5. CASE PollLooks
  BY <1>3, <1>4, <1>5 DEF PollLooks
<1>6. CASE PollChecksPid
  <2>1. Unfinished(poll.read)
    BY <1>1, <1>6, PollRecord DEF PollChecksPid, PollInv, At
  <2> QED BY <1>3, <1>4, <1>6, <2>1 DEF PollChecksPid, Stale, Ended
<1> QED BY <1>5, <1>6

LEMMA RepairSteps ==
  ASSUME Inv, PollCopies \/ PollRepairs \/ PollMends
  PROVE  Inv'
<1> USE DEF Inv
<1>1. /\ UNCHANGED <<taken, cur, notified, announced, torn, crashes>>
      /\ poll.at \in {"copy", "repair", "mend"} /\ poll.at # "none"
  BY DEF PollCopies, PollRepairs, PollMends
<1>r. PICK r \in Runs : r = poll.run
  BY <1>1, PollRecord
<1> DEFINE f == files[r]
<1>2. /\ r \in Runs /\ f \in FileType /\ Unfinished(poll.read)
      /\ f.phase \in Ended
  <2>1. r \in Runs /\ f \in FileType
    BY <1>1, <1>r, PollRecord
  <2>2. Unfinished(poll.read)
    BY <1>1, <1>r, <2>1 DEF PollInv, At
  <2>3. f.phase \in Ended
    BY <1>1, <1>r, <2>1 DEF EndedInv, PollInv, At
  <2> QED BY <2>1, <2>2, <2>3
<1>3. r \notin torn => ~Told(r)
  BY <1>r, <1>2 DEF StoryInv
<1>4. CASE PollCopies \/ PollMends
  <2>1. PICK s \in FinalStates :
          /\ SetFile(r, [f EXCEPT !.status = s]) /\ PollEnds(s)
          /\ f.result = s
          /\ UNCHANGED <<asks, inst, missed>>
    <3>1. CASE PollCopies
      <4>1. f.result \in FinalStates
        BY <1>r, <1>2, <3>1 DEF PollCopies, PollInv, At, FileType, ResultStates
      <4> QED BY <1>r, <3>1, <4>1 DEF PollCopies
    <3>2. CASE PollMends
      <4>1. f.result = "failed"
        BY <1>r, <1>2, <3>2 DEF PollMends, PollInv, At
      <4> QED BY <1>r, <3>2, <4>1 DEF PollMends, FinalStates
    <3> QED BY <1>4, <3>1, <3>2
  <2> DEFINE g == [f EXCEPT !.status = s]
  <2>2. /\ g \in FileType /\ g.phase = f.phase /\ g.result = s /\ g.status = s
    BY <1>2, <2>1 DEF FileType
  <2>3. \A q \in Runs : files'[q] = IF q = r THEN g ELSE files[q]
    BY <2>1 DEF SetFile, TypeOK
  <2>4. jobs' \in [Runs -> JobStates] /\ poll' = NoPoll /\ NoPoll \in PollType
    BY <2>1, JobsAfter
  <2>5. files' \in [Runs -> FileType]
    BY <2>1, <2>2 DEF SetFile, TypeOK
  <2> HIDE DEF f, g
  <2>6. TypeOK'
    BY <1>1, <2>1, <2>4, <2>5 DEF TypeOK
  <2>7. \A q \in Runs, t \in FinalStates : Flying(q, t)' <=> Flying(q, t)
    BY <2>1 DEF Flying
  <2>8. \A q \in Runs : Told(q)' <=> Told(q)
    BY <1>1, <2>7 DEF Told
  <2>9. /\ ~Unfinished(poll'.read)
        /\ \A q \in Runs, places \in SUBSET {"repair", "mend", "copy", "pid"} :
             ~(poll'.run = q /\ poll'.at \in places)
    BY <2>4, NoPollFacts
  <2>10. EndedInv'
    <3>1. g.phase \in Ended /\ "settled" \notin Ended
      BY <1>2, <2>2 DEF Ended
    <3> QED BY <2>3, <2>8, <2>9, <3>1 DEF EndedInv, At
  <2>11. PollInv'
    BY <2>9 DEF PollInv, At
  <2>12. StoryInv'
    <3>1. \A q \in Runs : q # r => ~At(q, {"mend"})
      BY <1>r DEF At
    <3>2. r \notin torn =>
            /\ announced[r] = "none" /\ \A t \in FinalStates : ~Flying(r, t)
      BY <1>3 DEF Told
    <3> QED BY <1>1, <2>2, <2>3, <2>7, <2>8, <2>9, <3>1, <3>2
            DEF StoryInv, Unfinished
  <2>13. SeenInv'
    BY <1>1, <2>1 DEF SeenInv, SeenBySome
  <2> QED BY <2>6, <2>10, <2>11, <2>12, <2>13
<1>5. CASE PollRepairs
  <2> DEFINE g == [f EXCEPT !.result = "failed"]
  <2>1. SetFile(r, g) /\ Watched(r) /\ PollGoes("mend") /\ asks' = asks \ {r}
    BY <1>r, <1>5 DEF PollRepairs
  <2>2. /\ g \in FileType /\ g.phase = f.phase /\ g.result = "failed"
        /\ g.status = f.status
    BY <1>2 DEF FileType, ResultStates, FinalStates
  <2>3. \A q \in Runs : files'[q] = IF q = r THEN g ELSE files[q]
    BY <2>1 DEF SetFile, TypeOK
  <2>4. /\ poll' \in PollType /\ poll'.run = r
        /\ poll'.read = poll.read /\ poll'.at = "mend" /\ jobs' = jobs
    BY <1>1, <1>r, <2>1, PollRecord DEF PollGoes
  <2>5. files' \in [Runs -> FileType]
    BY <2>1, <2>2 DEF SetFile, TypeOK
  <2>6. /\ inst' \in [Loads -> InstanceType] /\ missed' \subseteq Runs
        /\ \A q \in Runs :
             /\ SeenBySome(q)' => SeenBySome(q)
             /\ \A t \in FinalStates : Flying(q, t)' => Flying(q, t)
    BY <1>2, <2>1, WatchedEffect
  <2> HIDE DEF f, g
  <2>7. TypeOK'
    BY <1>1, <2>1, <2>4, <2>5, <2>6 DEF TypeOK
  <2>8. \A q \in Runs : Told(q)' => Told(q)
    BY <1>1, <2>6 DEF Told
  <2>9. EndedInv'
    <3>1. g.phase \in Ended /\ "settled" \notin Ended
      BY <1>2, <2>2 DEF Ended
    <3> QED BY <2>3, <2>4, <2>8, <3>1 DEF EndedInv, At
  <2>10. PollInv'
    BY <1>2, <2>2, <2>3, <2>4 DEF PollInv, At, Unfinished
  <2>11. StoryInv'
    <3>1. \A q \in Runs : q # r => ~At(q, {"mend"}) /\ poll'.run # q
      BY <1>r, <2>4 DEF At
    <3>2. r \notin torn =>
            /\ announced[r] = "none" /\ \A t \in FinalStates : ~Flying(r, t)'
            /\ ~Told(r)'
      BY <1>3, <2>6, <2>8 DEF Told
    <3>3. At(r, {"mend"})'
      BY <2>4 DEF At
    <3> QED BY <1>1, <2>3, <2>4, <2>6, <2>8, <3>1, <3>2, <3>3 DEF StoryInv
  <2>12. SeenInv'
    BY <1>1, <2>6 DEF SeenInv
  <2> QED BY <2>7, <2>9, <2>10, <2>11, <2>12
<1> QED BY <1>4, <1>5
-----------------------------------------------------------------------------
LEMMA StepKeepsInv == Inv /\ [Next]_vars => Inv'
<1> SUFFICES ASSUME Inv, [Next]_vars PROVE Inv' OBVIOUS
<1>1. ASSUME NEW r \in Runs,
             Start(r) \/ Runner(r) \/ PidIsTaken(r) \/ PidIsFreed(r)
             \/ PollBegins(r) \/ CleanupTimer(r)
      PROVE  Inv'
  BY <1>1, StartStep, RunnerSteps, PidOrCleanupSteps, PollBeginsStep
<1>2. ASSUME NEW r \in Runs, NEW i \in Loads, Handlers(i, r) PROVE Inv'
  BY <1>2, HandleStep, AnswerSteps DEF Handlers
<1>3. CASE UNCHANGED vars
  <2>1. Quiet
    BY <1>3, SameInst DEF vars
  <2>2. TypeOK'
    BY <1>3 DEF vars, Inv, TypeOK
  <2> QED BY <1>3, <2>1, <2>2, FilesSame DEF vars
<1>4. CASE PollSteps
  BY <1>4, LookSteps, RepairSteps DEF PollSteps
<1> QED BY <1>1, <1>2, <1>3, <1>4, LoadStep, SessionSteps, HostEndsStep,
        WatcherSteps DEF Next

LEMMA InvAlways == Spec => []Inv
BY InitInv, StepKeepsInv, PTL DEF Spec

\* The types of the two files, of the memory of every instance and of the
\* poller hold for any runs, sessions and bounds (async-job-tracker.ts,
\* result-watcher.ts, stale-run-reconciler.ts).
THEOREM TypesHold == Spec => []TypeOK
<1>1. Inv => TypeOK
  BY DEF Inv
<1> QED BY <1>1, InvAlways, PTL

\* Whatever runner, reconciler and watcher do between each other's steps, the
\* user was told what the status file says, unless the host died between the
\* two writes of a repair (writeFailedRepair).
THEOREM OneStory == Spec => []ToldMatchesStatus
<1>1. Inv => ToldMatchesStatus
  BY DEF Inv, StoryInv, ToldMatchesStatus
<1> QED BY <1>1, InvAlways, PTL
-----------------------------------------------------------------------------
(***************************************************************************)
(* A result is removed by Finish only, which tells of it or knows that it  *)
(* was told.                                                               *)
(***************************************************************************)
TellsFirst ==
  \A r \in Runs : files[r].result # "none" /\ files'[r].result = "none"
    => announced'[r] # "none"

LEMMA RemovesToldOnly ==
  ASSUME Inv, NEW i \in Loads, NEW q \in Runs,
         HandleResult(i, q) \/ Delivered(i, q)
  PROVE  TellsFirst
<1> USE DEF Inv
<1>1. \/ UNCHANGED files
      \/ \E x, s : /\ x.seen = inst[i].seen /\ s # "none"
                   /\ Finish(i, x, q, s)
  <2>1. Turn(i) /\ inst[i] \in InstanceType
    <3>1. Turn(i)
      BY DEF HandleResult, Delivered
    <3> QED BY <3>1, TurnFacts
  <2>2. CASE HandleResult(i, q)
    <3> DEFINE x == [inst[i] EXCEPT !.due = @ \ {q}]
    <3>1. x.seen = inst[i].seen
      BY <2>1 DEF InstanceType
    <3>2. \/ UNCHANGED files
          \/ files[q].result # "none" /\ Finish(i, x, q, files[q].result)
      BY <2>2 DEF HandleResult, Fly
    <3> HIDE DEF x
    <3> QED BY <3>1, <3>2
  <2>3. CASE Delivered(i, q)
    <3>1. PICK s \in FinalStates :
            /\ inst[i].flight[q][s] > 0
            /\ Finish(i, [inst[i] EXCEPT !.flight[q][s] = @ - 1], q, s)
      BY <2>3 DEF Delivered
    <3> DEFINE x == [inst[i] EXCEPT !.flight[q][s] = @ - 1]
    <3>2. x.seen = inst[i].seen
      BY <2>1, <3>1, OneLess
    <3>3. s # "none"
      BY DEF FinalStates
    <3> HIDE DEF x
    <3>4. Finish(i, x, q, s)
      BY <3>1 DEF x
    <3> QED BY <3>2, <3>3, <3>4
  <2> QED BY <2>2, <2>3
<1>2. CASE UNCHANGED files
  BY <1>2 DEF TellsFirst
<1>3. CASE \E x, s : /\ x.seen = inst[i].seen /\ s # "none"
                     /\ Finish(i, x, q, s)
  <2>1. PICK x, s : /\ x.seen = inst[i].seen /\ s # "none"
                    /\ Finish(i, x, q, s)
    BY <1>3
  <2>2. \A r \in Runs : r # q => files'[r] = files[r]
    BY <2>1 DEF Finish, SetFile, TypeOK
  <2>3. announced'[q] # "none"
    <3>1. CASE q \in x.seen
      BY <2>1, <3>1 DEF Finish, SeenInv, SeenBySome
    <3>2. CASE q \notin x.seen
      BY <2>1, <3>2 DEF Finish, Announce, SeenInv, TypeOK
    <3> QED BY <3>1, <3>2
  <2> QED BY <2>2, <2>3 DEF TellsFirst
<1> QED BY <1>1, <1>2, <1>3

LEMMA OthersRemoveNothing ==
  ASSUME Inv, NEW r \in Runs, NEW g, SetFile(r, g),
         files[r].result # "none" => g.result # "none"
  PROVE  TellsFirst
BY DEF Inv, SetFile, TypeOK, TellsFirst

LEMMA StepTellsFirst == Inv /\ [Next]_vars => TellsFirst
<1> SUFFICES ASSUME Inv, [Next]_vars PROVE TellsFirst OBVIOUS
<1> USE DEF Inv
<1>1. UNCHANGED files => TellsFirst
  BY DEF TellsFirst
<1>2. ASSUME NEW r \in Runs, Start(r) \/ Runner(r) PROVE TellsFirst
  <2>1. files[r].result = "none"
    <3>1. files[r].phase \notin Ended
      BY <1>2 DEF Start, Runner, RunnerBegins, RunnerFailsToBegin, RunnerWorks,
         RunnerEnds, Leaving, Settling, Dying, Ending, Ended
    <3> QED BY <3>1 DEF EndedInv
  <2>2. \E g : SetFile(r, g)
    BY <1>2 DEF Start, Runner, RunnerBegins, RunnerFailsToBegin, RunnerWorks,
       RunnerEnds
  <2> QED BY <2>1, <2>2, OthersRemoveNothing
<1>3. ASSUME NEW r \in Runs, NEW i \in Loads, Handlers(i, r) PROVE TellsFirst
  BY <1>1, <1>3, RemovesToldOnly DEF Handlers, NotDelivered, RetryTimer
<1>4. CASE PollSteps
  <2>1. CASE PollLooks \/ PollChecksPid
    BY <1>1, <2>1 DEF PollLooks, PollChecksPid
  <2>2. CASE PollCopies \/ PollRepairs \/ PollMends
    <3>1. poll.run \in Runs /\ files[poll.run] \in FileType
      BY <2>2, PollRecord DEF PollCopies, PollRepairs, PollMends
    <3>2. \E g : /\ SetFile(poll.run, g)
                 /\ files[poll.run].result # "none" => g.result # "none"
      BY <2>2, <3>1 DEF PollCopies, PollRepairs, PollMends, FileType
    <3> QED BY <3>1, <3>2, OthersRemoveNothing
  <2> QED BY <1>4, <2>1, <2>2 DEF PollSteps
<1>5. ASSUME NEW r \in Runs,
             PidIsTaken(r) \/ PidIsFreed(r) \/ PollBegins(r) \/ CleanupTimer(r)
      PROVE  UNCHANGED files
  BY <1>5 DEF PidIsTaken, PidIsFreed, PollBegins, CleanupTimer
<1>6. ASSUME Load \/ SessionCompact \/ HostEnds \/ Watcher
             \/ (\E s \in Sessions : SessionStart(s)) \/ UNCHANGED vars
      PROVE  UNCHANGED files
  BY <1>6 DEF Load, SessionCompact, HostEnds, Watcher, WatcherFails,
     WatcherRestarts, PollResults, SessionStart, vars
<1> QED BY <1>1, <1>2, <1>3, <1>4, <1>5, <1>6 DEF Next

\* A result file is removed only when its user has been told of the run
\* (result-watcher.ts, handleResult), for any number of handlers, reloads and
\* crashes.
THEOREM RemovedMeansTold == Spec => TakenMeansTold
<1>1. Inv /\ [Next]_vars => [TellsFirst]_vars
  BY StepTellsFirst
<1> QED BY <1>1, InvAlways, PTL DEF Spec, TakenMeansTold, TellsFirst
=============================================================================
