--------------------------- MODULE VerdictProofs ---------------------------
(* Proofs of what the watchers tell and of what the gates let through, for   *)
(* any agents, tickets, checks, reviewers and bounds.                        *)
EXTENDS Federation, CheckRuns, Watchers, FiniteSetTheorems, SequenceTheorems, WellFoundedInduction, TLAPS

-----------------------------------------------------------------------------
(* Watchers: whatever is in flight has a run that has not been recorded as  *)
(* done, and came before the last pulse.                                     *)
RunGoes(r) == run[r].at \in {"setup", "pulsing", "stopping"}
RunRecords == [at : RunAt, status : RunStatuses]

LivingInv ==
  /\ clock \in Nat /\ run \in [AgentRuns -> RunRecords]
  /\ \A k \in DOMAIN flight :
       /\ \E r \in AgentRuns : KeyOf[r] = k /\ RunGoes(r)
       /\ flight[k] \in Nat /\ beat \in Nat /\ flight[k] <= beat /\ beat <= clock

(* LEMMA: the invariant is what was promised of the watched agents.          *)
LEMMA LivingIsWatched == LivingInv => OnlyTheLivingAreWatched
  BY DEF LivingInv, OnlyTheLivingAreWatched, ActiveAgents, RunGoes

(* LEMMA: no agent is in flight.                                             *)
LEMMA LivingInit == WatchersInit => LivingInv
<1> SUFFICES ASSUME WatchersInit PROVE LivingInv OBVIOUS
<1>1. NotRunning \in RunRecords BY DEF NotRunning, RunRecords, RunAt, RunStatuses
<1>2. DOMAIN flight = {} BY DEF WatchersInit
<1> QED BY <1>1, <1>2 DEF WatchersInit, LivingInv

(* LEMMA: where flights and the pulse stay and no run ends, the invariant    *)
(* stays.                                                                    *)
LEMMA FlightsUntouched ==
  ASSUME LivingInv, flight' = flight, beat' = beat, clock' \in Nat, clock' >= clock,
         run' \in [AgentRuns -> RunRecords], \A r \in AgentRuns : RunGoes(r) => RunGoes(r)'
  PROVE  LivingInv'
  BY DEF LivingInv

(* LEMMA: a record of a run moves. *)
LEMMA RunMoves ==
  ASSUME LivingInv, NEW r \in AgentRuns, NEW v \in RunRecords, run' = [run EXCEPT ![r] = v],
         RunGoes(r) => v.at \in {"setup", "pulsing", "stopping"}
  PROVE  run' \in [AgentRuns -> RunRecords] /\ \A q \in AgentRuns : RunGoes(q) => RunGoes(q)'
  BY DEF LivingInv, RunGoes

(* LEMMA: an agent that starts or pulses is in flight at the latest pulse.   *)
LEMMA FlightAdded ==
  ASSUME LivingInv, NEW r \in AgentRuns, beat' = clock, clock' = clock,
         flight' = IfAbsent(flight, KeyOf[r], clock), run' \in [AgentRuns -> RunRecords],
         RunGoes(r)', \A q \in AgentRuns : RunGoes(q) => RunGoes(q)'
  PROVE  LivingInv'
<1>1. ASSUME NEW k \in DOMAIN flight'
      PROVE  (k = KeyOf[r] /\ flight'[k] = clock) \/ (k \in DOMAIN flight /\ flight'[k] = flight[k])
  BY DEF IfAbsent, With
<1>2. ASSUME NEW k \in DOMAIN flight'
      PROVE  /\ \E q \in AgentRuns : KeyOf[q] = k /\ RunGoes(q)'
             /\ flight'[k] \in Nat /\ flight'[k] <= clock
  BY <1>1 DEF LivingInv
<1> QED BY <1>2 DEF LivingInv

(* LEMMA: a heartbeat enters only who runs, and the end of a run takes it    *)
(* out.                                                                      *)
LEMMA LivingStep ==
  ASSUME LivingInv, [WatchersNext]_watchVars
  PROVE  LivingInv'
<1>a. clock \in Nat /\ run \in [AgentRuns -> RunRecords] BY DEF LivingInv
<1>1. ASSUME UNCHANGED <<flight, beat, run>>, clock' = clock \/ clock' = clock + 1 PROVE LivingInv'
  BY <1>1, <1>a, FlightsUntouched DEF RunGoes
<1>2. ASSUME NEW r \in AgentRuns, StartRun(r) PROVE LivingInv'
  <2> DEFINE v == [at |-> "setup", status |-> "failed"]
  <2>1. /\ run' = [run EXCEPT ![r] = v] /\ beat' = clock /\ clock' = clock
        /\ flight' = IfAbsent(flight, KeyOf[r], clock)
    BY <1>2 DEF StartRun
  <2>2. v \in RunRecords /\ v.at = "setup" BY DEF RunRecords, RunAt, RunStatuses
  <2> HIDE DEF v
  <2>3. run' \in [AgentRuns -> RunRecords] /\ \A q \in AgentRuns : RunGoes(q) => RunGoes(q)'
    BY <2>1, <2>2, RunMoves
  <2>4. RunGoes(r)' BY <1>a, <2>1, <2>2 DEF RunGoes
  <2> QED BY <2>1, <2>3, <2>4, FlightAdded
<1>3. ASSUME NEW r \in AgentRuns, Pulse(r) PROVE LivingInv'
  <2>1. /\ run' = run /\ RunGoes(r) /\ beat' = clock /\ clock' = clock
        /\ flight' = IfAbsent(flight, KeyOf[r], clock)
    BY <1>3 DEF Pulse, Pulses, RunGoes, runVars
  <2>2. RunGoes(r)' /\ \A q \in AgentRuns : RunGoes(q) => RunGoes(q)' BY <2>1 DEF RunGoes
  <2> QED BY <1>a, <2>1, <2>2, FlightAdded
<1>4. ASSUME NEW r \in AgentRuns, NEW s \in RunStatuses, BeginPulse(r) \/ StopPulse(r, s) PROVE LivingInv'
  <2>1. PICK v : /\ run' = [run EXCEPT ![r] = v] /\ UNCHANGED <<flight, beat, clock>>
                 /\ \/ v = [run[r] EXCEPT !.at = "pulsing"]
                    \/ v = [at |-> "stopping", status |-> s]
    BY <1>4 DEF BeginPulse, StopPulse
  <2>2. v \in RunRecords /\ v.at \in {"setup", "pulsing", "stopping"}
    BY <1>a, <2>1 DEF RunRecords, RunAt
  <2>3. run' \in [AgentRuns -> RunRecords] /\ \A q \in AgentRuns : RunGoes(q) => RunGoes(q)'
    BY <2>1, <2>2, RunMoves
  <2> QED BY <1>a, <2>1, <2>3, FlightsUntouched
<1>5. ASSUME NEW r \in AgentRuns, EndRun(r) PROVE LivingInv'
  <2>1. PICK v : /\ run' = [run EXCEPT ![r] = v] /\ UNCHANGED <<beat, clock>>
                 /\ v = NotRunning \/ v = [run[r] EXCEPT !.at = "promoting"]
    BY <1>5 DEF EndRun
  <2>2. flight' = Without(flight, KeyOf[r]) BY <1>5 DEF EndRun
  <2>3. v \in RunRecords BY <1>a, <2>1 DEF NotRunning, RunRecords, RunAt, RunStatuses
  <2>4. run' \in [AgentRuns -> RunRecords] BY <1>a, <2>1, <2>3
  <2>5. \A q \in AgentRuns : q # r /\ RunGoes(q) => RunGoes(q)' BY <1>a, <2>1 DEF RunGoes
  <2>6. \A k \in DOMAIN flight' : k \in DOMAIN flight /\ k # KeyOf[r] /\ flight'[k] = flight[k]
    BY <2>2 DEF Without, Restrict
  <2>7. ASSUME NEW k \in DOMAIN flight' PROVE \E q \in AgentRuns : KeyOf[q] = k /\ RunGoes(q)'
    <3>1. PICK q \in AgentRuns : KeyOf[q] = k /\ RunGoes(q) BY <2>6 DEF LivingInv
    <3>2. q # r BY <2>6, <3>1
    <3> QED BY <2>5, <3>1, <3>2
  <2> QED BY <1>a, <2>1, <2>4, <2>6, <2>7 DEF LivingInv
<1>6. CASE StoreWrites
  <2>1. PICK w : /\ run' = [run EXCEPT ![w.run] = IF @.at = "promoting" THEN NotRunning ELSE @]
                 /\ UNCHANGED <<flight, beat, clock>>
    BY <1>6 DEF StoreWrites
  <2>2. NotRunning \in RunRecords BY DEF NotRunning, RunRecords, RunAt, RunStatuses
  <2>3. \A q \in AgentRuns : run'[q] = run[q] \/ (run[q].at = "promoting" /\ run'[q] = NotRunning)
    BY <1>a, <2>1
  <2>4. run' \in [AgentRuns -> RunRecords] BY <1>a, <2>1, <2>2, <2>3
  <2>5. \A q \in AgentRuns : RunGoes(q) => RunGoes(q)' BY <2>3 DEF RunGoes
  <2> QED BY <1>a, <2>1, <2>4, <2>5, FlightsUntouched
<1>7. CASE KillScan
  <2>1. /\ run' = [r \in AgentRuns |-> IF run[r].at = "pulsing" THEN [at |-> "stopping", status |-> "failed"] ELSE run[r]]
        /\ UNCHANGED <<flight, beat, clock>>
    BY <1>7 DEF KillScan
  <2>2. run' \in [AgentRuns -> RunRecords] BY <1>a, <2>1 DEF RunRecords, RunAt, RunStatuses
  <2>3. \A q \in AgentRuns : RunGoes(q) => RunGoes(q)' BY <2>1 DEF RunGoes
  <2> QED BY <1>a, <2>1, <2>2, <2>3, FlightsUntouched
<1>8. ASSUME EmergencyReset \/ Shutdown PROVE LivingInv'
  <2>1. run' = [r \in AgentRuns |-> Cancelled(r)] /\ UNCHANGED <<flight, beat, clock>>
    BY <1>8 DEF EmergencyReset, Shutdown, CancelAll
  <2>2. \A r \in AgentRuns : Cancelled(r) \in RunRecords
    BY DEF Cancelled, NotRunning, RunRecords, RunAt, RunStatuses
  <2>3. \A q \in AgentRuns : RunGoes(q) => Cancelled(q).at = "stopping" BY DEF RunGoes, Cancelled
  <2>4. \A q \in AgentRuns : RunGoes(q) => RunGoes(q)' BY <2>1, <2>3 DEF RunGoes
  <2> QED BY <1>a, <2>1, <2>2, <2>4, FlightsUntouched
<1>9. ASSUME \/ StallPoll \/ TimePasses \/ StartupEnds \/ Reload
             \/ \E t \in WatchTickets, to \in Statuses : OperatorMoves(t, to)
             \/ \E t \in tasks, to \in Statuses \ {"open", "proposed", "closed"} : TaskMoves(t, to)
             \/ \E seen \in Loaded : ReconcileTick(seen)
      PROVE  LivingInv'
  <2>1. UNCHANGED runVars /\ (clock' = clock \/ clock' = clock + 1)
    BY <1>9 DEF StallPoll, TimePasses, StartupEnds, Reload, OperatorMoves, TaskMoves, Move, ReconcileTick
  <2> QED BY <1>1, <2>1 DEF runVars
<1>10. CASE UNCHANGED watchVars BY <1>1, <1>10 DEF watchVars, runVars
<1>11. "success" \in RunStatuses BY DEF RunStatuses
<1> QED BY <1>2, <1>3, <1>4, <1>5, <1>6, <1>7, <1>8, <1>9, <1>10, <1>11 DEF WatchersNext, StallNext, StuckNext

(* THEOREM: only agents that still run are in flight, none of them started   *)
(* after the last pulse.                                                     *)
THEOREM WatchOnlyTheLiving == WatchersSpec => []OnlyTheLivingAreWatched
<1> QED BY LivingIsWatched, LivingInit, LivingStep, PTL DEF WatchersSpec

-----------------------------------------------------------------------------
(* Watchers: the watchdog's timer and its memory of what it announced are    *)
(* those of the silence itself; it announced something only when the silence *)
(* had lasted for the grace.                                                 *)
ToldInv ==
  /\ clock \in 0..MaxTime
  /\ stuckSince = quiet /\ (quiet \in 0..clock \/ quiet = Never)
  /\ stuckFor = told /\ (told # {} => quiet # Never /\ Since(quiet) >= StuckGrace)
  /\ StuckIsTold

(* LEMMA: nothing has been watched yet.                                      *)
LEMMA ToldInit == WatchersInit => ToldInv
  BY WatchAssumption DEF WatchersInit, ToldInv, StuckIsTold

(* LEMMA: while the watchdog does not look, time only lengthens the silence. *)
LEMMA ToldUntouched ==
  ASSUME ToldInv, UNCHANGED stuckVars, clock' = clock \/ (clock < MaxTime /\ clock' = clock + 1)
  PROVE  ToldInv'
<1>1. clock' \in 0..MaxTime /\ clock' >= clock BY WatchAssumption DEF ToldInv
<1>2. stuckSince' = quiet' /\ (quiet' \in 0..clock' \/ quiet' = Never)
  BY <1>1, WatchAssumption DEF ToldInv, stuckVars, Never
<1>3. told' # {} => quiet' # Never /\ Since(quiet)' >= StuckGrace
  BY <1>1, WatchAssumption DEF ToldInv, stuckVars, Never, Since
<1> QED BY <1>1, <1>2, <1>3 DEF ToldInv, stuckVars, StuckIsTold

(* LEMMA: a look that sees no life judges the silence as the timer does. *)
LEMMA LookJudges ==
  ASSUME ToldInv, clock' = clock, NEW s, NEW now, CheckStuck(s, now)
  PROVE  ToldInv'
<1>a. clock \in 0..MaxTime /\ MaxTime \in Nat /\ StuckGrace \in Nat BY WatchAssumption DEF ToldInv
<1> DEFINE stuck == Candidates(s)
<1>1. CASE /\ NotStuck /\ quiet' = Never /\ told' = {} /\ UNCHANGED misjudged
  BY <1>1, <1>a DEF ToldInv, NotStuck, StuckIsTold, Never
<1>2. CASE /\ ~Alive(s, now) /\ stuck # {}
           /\ stuckSince' = IF stuckSince = Never THEN clock ELSE stuckSince
           /\ stuckFor' = IF Announces(stuck) THEN stuck ELSE stuckFor
           /\ quiet' = IF quiet = Never THEN clock ELSE quiet
           /\ told' = IF Announces(stuck) THEN stuck ELSE told
           /\ misjudged' = (misjudged \/ (told' = stuck) # (quiet # Never /\ Since(quiet) >= StuckGrace))
  <2> HIDE DEF stuck
  <2>0. /\ quiet' = IF quiet = Never THEN clock ELSE quiet
        /\ stuckSince' = IF stuckSince = Never THEN clock ELSE stuckSince
    BY <1>2
  <2>q. stuckSince = quiet /\ (quiet \in 0..clock \/ quiet = Never) BY DEF ToldInv
  <2>c. clock \in 0..clock /\ \A n \in 0..clock : n # Never BY <1>a DEF Never
  <2>1. stuckSince' = quiet' /\ quiet' \in 0..clock /\ quiet' # Never
    <3>1. CASE quiet = Never BY <2>0, <2>q, <2>c, <3>1
    <3>2. CASE quiet # Never BY <2>0, <2>q, <2>c, <3>2
    <3> QED BY <3>1, <3>2
  <2>2. stuckFor' = told' BY <1>2 DEF ToldInv
  <2>3. CASE quiet # Never /\ Since(quiet) >= StuckGrace
    <3>1. told' = stuck BY <1>2, <2>3 DEF Announces, ToldInv
    <3>2. ~misjudged' BY <1>2, <2>3, <3>1 DEF ToldInv, StuckIsTold
    <3>3. quiet' = quiet BY <1>2, <2>3
    <3> QED BY <1>a, <2>1, <2>2, <2>3, <3>2, <3>3 DEF ToldInv, StuckIsTold, Since
  <2>4. CASE ~(quiet # Never /\ Since(quiet) >= StuckGrace)
    <3>1. told' = {} BY <1>2, <2>4 DEF Announces, ToldInv
    <3>2. told' # stuck BY <1>2, <3>1
    <3>3. ~misjudged' BY <1>2, <2>4, <3>2 DEF ToldInv, StuckIsTold
    <3> QED BY <1>a, <2>1, <2>2, <3>1, <3>3 DEF ToldInv, StuckIsTold
  <2> QED BY <2>3, <2>4
<1> QED BY <1>1, <1>2 DEF CheckStuck

(* LEMMA: a tick announces by what it and the ticks before it have seen.     *)
LEMMA ToldStep ==
  ASSUME ToldInv, [WatchersNext]_watchVars
  PROVE  ToldInv'
<1>1. ASSUME NEW r \in AgentRuns, StartRun(r) \/ BeginPulse(r) \/ Pulse(r) \/ EndRun(r) PROVE ToldInv'
  BY <1>1, ToldUntouched DEF StartRun, BeginPulse, Pulse, EndRun
<1>2. ASSUME NEW r \in AgentRuns, NEW s \in RunStatuses, StopPulse(r, s) PROVE ToldInv'
  BY <1>2, ToldUntouched DEF StopPulse
<1>3. ASSUME StoreWrites \/ StallPoll \/ KillScan \/ StartupEnds \/ Shutdown \/ EmergencyReset \/ Reload
      PROVE  ToldInv'
  BY <1>3, ToldUntouched DEF StoreWrites, StallPoll, KillScan, StartupEnds, Shutdown, EmergencyReset, Reload
<1>4. CASE TimePasses BY <1>4, ToldUntouched DEF TimePasses
<1>5. ASSUME NEW t, NEW to, OperatorMoves(t, to) \/ TaskMoves(t, to) PROVE ToldInv'
  BY <1>5, ToldUntouched DEF OperatorMoves, TaskMoves, Move
<1>6. ASSUME NEW seen, ReconcileTick(seen) PROVE ToldInv'
  <2>1. PICK now : CheckStuck(now, tasks') BY <1>6 DEF ReconcileTick
  <2>2. clock' = clock BY <1>6 DEF ReconcileTick
  <2> QED BY <2>1, <2>2, LookJudges
<1>7. CASE UNCHANGED watchVars BY <1>7, ToldUntouched DEF watchVars
<1> QED BY <1>1, <1>2, <1>3, <1>4, <1>5, <1>6, <1>7 DEF WatchersNext, StallNext, StuckNext

(* THEOREM: a tick announces exactly the tickets that are stuck when no tick *)
(* saw life for the grace, and none before.                                  *)
THEOREM StuckProjectsTold == WatchersSpec => []StuckIsTold
<1>1. ToldInv => StuckIsTold BY DEF ToldInv
<1> QED BY <1>1, ToldInit, ToldStep, PTL DEF WatchersSpec

-----------------------------------------------------------------------------
(* Federation: the number of a finding.  It counts the first appearances up *)
(* to its own, so later comments leave it and no two findings share it.      *)
Comments == [rv : Reviewers, at : Anchors, sev : Severities, cycle : Nat, n : Nat, turn : Nat]
Firsts(cs) == {i \in DOMAIN cs : FirstSeen(cs, i)}
UpTo(cs, i) == {j \in Firsts(cs) : j <= i}
NumberOf(cs, i) == Cardinality(UpTo(cs, i))

(* LEMMA: a finding's number counts the first appearances up to its own.     *)
LEMMA NumbersAre ==
  ASSUME NEW cs
  PROVE  /\ ComputeFindingIds(cs) = {[fid |-> NumberOf(cs, i), sig |-> SignatureOf(cs[i])] : i \in Firsts(cs)}
         /\ \A fid : FindById(cs, fid) = {SignatureOf(cs[i]) : i \in {k \in Firsts(cs) : NumberOf(cs, k) = fid}}
<1>1. ComputeFindingIds(cs) = {[fid |-> NumberOf(cs, i), sig |-> SignatureOf(cs[i])] : i \in Firsts(cs)}
  BY DEF ComputeFindingIds, NumberOf, UpTo, Firsts, NumberedFrom
<1>2. ASSUME NEW fid
      PROVE  FindById(cs, fid) = {SignatureOf(cs[i]) : i \in {k \in Firsts(cs) : NumberOf(cs, k) = fid}}
  <2>1. {y \in ComputeFindingIds(cs) : y.fid = fid}
        = {[fid |-> NumberOf(cs, i), sig |-> SignatureOf(cs[i])] : i \in {k \in Firsts(cs) : NumberOf(cs, k) = fid}}
    BY <1>1
  <2>2. FindById(cs, fid) = {x.sig : x \in {[fid |-> NumberOf(cs, i), sig |-> SignatureOf(cs[i])] :
                                             i \in {k \in Firsts(cs) : NumberOf(cs, k) = fid}}}
    BY <2>1 DEF FindById
  <2>3. \A i : [fid |-> NumberOf(cs, i), sig |-> SignatureOf(cs[i])].sig = SignatureOf(cs[i]) OBVIOUS
  <2> HIDE DEF NumberOf
  <2> QED BY <2>2, <2>3, Zenon
<1> QED BY <1>1, <1>2

(* LEMMA: no two findings share a number. *)
LEMMA NumbersDiffer ==
  ASSUME NEW C, NEW cs \in Seq(C), NEW i \in Firsts(cs), NEW k \in Firsts(cs)
  PROVE  /\ NumberOf(cs, i) \in Nat
         /\ NumberOf(cs, i) = NumberOf(cs, k) => i = k
<1>1. Firsts(cs) \subseteq 1..Len(cs) /\ Len(cs) \in Nat BY LenProperties DEF Firsts
<1>2. IsFiniteSet(Firsts(cs))
  <2>1. IsFiniteSet(1..Len(cs)) BY <1>1, FS_Interval
  <2> QED BY <1>1, <2>1, FS_Subset
<1>3. \A j : IsFiniteSet(UpTo(cs, j)) /\ NumberOf(cs, j) \in Nat
  BY <1>2, FS_Subset, FS_CardinalityType DEF UpTo, NumberOf
<1>4. ASSUME NEW a \in Firsts(cs), NEW b \in Firsts(cs), a < b PROVE NumberOf(cs, a) # NumberOf(cs, b)
  <2>1. UpTo(cs, a) \subseteq UpTo(cs, b) /\ b \in UpTo(cs, b) /\ b \notin UpTo(cs, a)
    BY <1>1, <1>4 DEF UpTo
  <2> QED BY <1>3, <2>1, FS_Subset DEF NumberOf
<1>5. i < k \/ k < i \/ i = k BY <1>1
<1> QED BY <1>3, <1>4, <1>5

(* LEMMA: a number names one finding.                                        *)
LEMMA NumberNamesOne ==
  ASSUME NEW C, NEW cs \in Seq(C), NEW x \in ComputeFindingIds(cs)
  PROVE  x.fid \in Nat /\ FindById(cs, x.fid) = {x.sig}
<1>1. PICK i \in Firsts(cs) : x = [fid |-> NumberOf(cs, i), sig |-> SignatureOf(cs[i])] BY NumbersAre
<1>2. x.fid = NumberOf(cs, i) /\ x.sig = SignatureOf(cs[i]) BY <1>1
<1>3. \A k \in Firsts(cs) : NumberOf(cs, k) = NumberOf(cs, i) => k = i BY NumbersDiffer
<1>4. {k \in Firsts(cs) : NumberOf(cs, k) = x.fid} = {i} BY <1>2, <1>3
<1>5. FindById(cs, x.fid) = {SignatureOf(cs[k]) : k \in {j \in Firsts(cs) : NumberOf(cs, j) = x.fid}}
  BY NumbersAre
<1> QED BY <1>2, <1>4, <1>5, NumbersDiffer

(* LEMMA: a later comment leaves every number as it was. *)
LEMMA NumbersStay ==
  ASSUME NEW C, NEW cs \in Seq(C), NEW c \in C
  PROVE  ComputeFindingIds(cs) \subseteq ComputeFindingIds(Append(cs, c))
<1> DEFINE more == Append(cs, c)
<1>1. /\ Len(cs) \in Nat /\ DOMAIN cs = 1..Len(cs) /\ DOMAIN more = 1..(Len(cs) + 1)
      /\ \A i \in DOMAIN cs : more[i] = cs[i]
  BY AppendProperties, LenProperties
<1> HIDE DEF more
<1>2. \A i \in DOMAIN cs : i \in DOMAIN more /\ (FirstSeen(more, i) <=> FirstSeen(cs, i))
  BY <1>1 DEF FirstSeen, NumberedFrom, SignatureOf
<1>3. Firsts(cs) \subseteq Firsts(more) BY <1>2 DEF Firsts
<1>4. ASSUME NEW i \in Firsts(cs) PROVE NumberOf(more, i) = NumberOf(cs, i) /\ more[i] = cs[i]
  <2>1. \A j \in DOMAIN more : j <= i => j \in DOMAIN cs BY <1>1 DEF Firsts
  <2>2. UpTo(more, i) = UpTo(cs, i) BY <1>2, <2>1 DEF UpTo, Firsts
  <2> QED BY <1>1, <2>2 DEF NumberOf, Firsts
<1>5. \A i \in Firsts(cs) : SignatureOf(more[i]) = SignatureOf(cs[i]) BY <1>4
<1>6. ASSUME NEW x \in ComputeFindingIds(cs) PROVE x \in ComputeFindingIds(more)
  <2>1. PICK i \in Firsts(cs) : x = [fid |-> NumberOf(cs, i), sig |-> SignatureOf(cs[i])] BY NumbersAre
  <2>2. x = [fid |-> NumberOf(more, i), sig |-> SignatureOf(more[i])] BY <1>4, <1>5, <2>1
  <2> QED BY <1>3, <2>2, NumbersAre
<1> QED BY <1>6 DEF more

-----------------------------------------------------------------------------
(* Federation: shapes, and the acknowledgements' numbers. *)
Workers == [rv : Reviewers, n : Nat, turn : Nat, cycle : Nat]
AckKinds == {"addressed", "resolved", "dismissed", "reraised"}
AckRecords == [fid : Nat, kind : AckKinds, cycle : Nat, meant : Reviewers \X Anchors]
RoundFields == DOMAIN NoRound

FedShape ==
  /\ comments \in Seq(Comments) /\ rounds \in Nat /\ cyc \in Nat
  /\ working \subseteq Workers /\ \A w \in working : w.n <= rounds
  /\ \A i \in DOMAIN comments : comments[i].n <= rounds
  /\ DOMAIN round = RoundFields /\ round.n \in 0..rounds /\ round.start \in 0..Len(comments)
  /\ round.pass \in Nat /\ round.tries \in Nat
HeldBy(a) == [fid |-> a.fid, sig |-> a.meant] \in ComputeFindingIds(comments)
AcksHeld == acks \in Seq(AckRecords) /\ \A i \in DOMAIN acks : HeldBy(acks[i])

(* LEMMA: the fields of a round.                                             *)
LEMMA RoundFieldsAre ==
  RoundFields = {"at", "kind", "n", "pass", "start", "pre", "mech", "got", "tries", "result"}
  BY DEF RoundFields, NoRound

(* LEMMA: an update of the round that leaves its number and its start. *)
LEMMA RoundMoves ==
  ASSUME FedShape, UNCHANGED <<comments, rounds>>, DOMAIN round' = RoundFields,
         round'.n = round.n, round'.start = round.start, round'.pass \in Nat, round'.tries \in Nat, working' \subseteq working, cyc' \in Nat
  PROVE  FedShape'
  BY DEF FedShape

(* LEMMA: no comment and no acknowledgement has been written.                *)
LEMMA FedInitShape == FedInit => FedShape /\ AcksHeld
<1> SUFFICES ASSUME FedInit PROVE FedShape /\ AcksHeld OBVIOUS
<1>1. comments = <<>> /\ acks = <<>> /\ round = NoRound /\ cyc = 0 /\ working = {} /\ rounds = 0
  BY DEF FedInit
<1>2. comments \in Seq(Comments) /\ acks \in Seq(AckRecords) /\ Len(comments) = 0 /\ DOMAIN acks = {}
  BY <1>1, EmptySeq
<1>3. DOMAIN round = RoundFields /\ round.n = 0 /\ round.start = 0 /\ round.pass = 0 /\ round.tries = 0
  BY <1>1 DEF RoundFields, NoRound
<1> QED BY <1>1, <1>2, <1>3 DEF FedShape, AcksHeld

(* LEMMA: every step of a review keeps the shape of its records.             *)
LEMMA FedShapeStep ==
  ASSUME FedShape, [FedNext]_fedVars
  PROVE  FedShape'
<1>a. /\ comments \in Seq(Comments) /\ Len(comments) \in Nat /\ rounds \in Nat /\ cyc \in Nat
      /\ round.n \in Nat /\ round.pass \in Nat /\ round.tries \in Nat /\ DOMAIN round = RoundFields
  BY LenProperties DEF FedShape
<1>b. RoundCycle \in Nat /\ Turn \in Nat BY <1>a DEF RoundCycle, Turn
<1>1. ASSUME NEW kind \in {"phase", "final"}, StartRound(kind) PROVE FedShape'
  <2>1. /\ round' = [NoRound EXCEPT !.at = "dispatch", !.kind = kind, !.n = rounds + 1, !.start = Len(comments)]
        /\ rounds' = rounds + 1 /\ UNCHANGED <<comments, working, cyc>>
    BY <1>1 DEF StartRound
  <2>2. DOMAIN round' = RoundFields /\ round'.n = rounds + 1 /\ round'.start = Len(comments)
        /\ round'.pass = 0 /\ round'.tries = 0
    BY <2>1 DEF RoundFields, NoRound
  <2>3. \A w \in working : w.n \in Nat BY DEF FedShape, Workers
  <2>4. \A i \in DOMAIN comments : comments[i].n \in Nat
    <3>1. \A i \in DOMAIN comments : comments[i] \in Comments BY <1>a
    <3> QED BY <3>1 DEF Comments
  <2> QED BY <1>a, <2>1, <2>2, <2>3, <2>4 DEF FedShape
<1>2. ASSUME NEW m, DispatchReviewers(m) PROVE FedShape'
  <2>1. /\ round' = [round EXCEPT !.at = "gather", !.mech = m,
                       !.pre = {CommentSignature(comments[i]) : i \in DOMAIN comments}]
        /\ working' = working \cup 
             {[rv |-> r, n |-> round.n, turn |-> Turn, cycle |-> RoundCycle] : r \in Reviewers}
        /\ UNCHANGED <<comments, rounds, cyc>>
    BY <1>2 DEF DispatchReviewers
  <2>2. /\ DOMAIN round' = RoundFields /\ round'.n = round.n /\ round'.start = round.start
        /\ round'.pass \in Nat /\ round'.tries \in Nat
    BY <1>a, <2>1, RoundFieldsAre
  <2>3. \A w \in working' : w \in working \/ (w \in Workers /\ w.n = round.n)
    BY <1>a, <1>b, <2>1 DEF Workers
  <2> QED BY <1>a, <2>1, <2>2, <2>3 DEF FedShape
<1>3. ASSUME NEW w \in working, NEW a \in Anchors, NEW sev \in {"critical", "notable"}, ReviewerPostComment(w, a, sev)
      PROVE  FedShape'
  <2> DEFINE c == [rv |-> w.rv, at |-> a, sev |-> sev, cycle |-> w.cycle, n |-> w.n, turn |-> w.turn]
  <2>1. comments' = Append(comments, c) /\ UNCHANGED <<round, cyc, working, rounds>>
    BY <1>3 DEF ReviewerPostComment
  <2>2. c \in Comments /\ c.n <= rounds BY DEF FedShape, Workers, Comments, Severities
  <2> HIDE DEF c
  <2>3. /\ comments' \in Seq(Comments) /\ Len(comments') = Len(comments) + 1
        /\ \A i \in DOMAIN comments' : comments'[i] = c \/ (i \in DOMAIN comments /\ comments'[i] = comments[i])
    BY <1>a, <2>1, <2>2, AppendProperties, LenProperties
  <2>4. \A i \in DOMAIN comments' : comments'[i].n <= rounds' BY <2>1, <2>2, <2>3 DEF FedShape
  <2>5. round' = round /\ round.start \in 0..Len(comments') BY <1>a, <2>1, <2>3 DEF FedShape
  <2> QED BY <1>a, <2>1, <2>3, <2>4, <2>5 DEF FedShape
<1>4. ASSUME NEW w \in working, ReviewerEnds(w) PROVE FedShape'
  BY <1>4, RoundMoves DEF ReviewerEnds, FedShape
<1>5. ASSUME NEW w \in working, ReviewerFails(w) PROVE FedShape'
  <2>1. /\ \/ round' = [round EXCEPT !.at = "dispatch", !.tries = 1, !.got = {}]
           \/ round' = [round EXCEPT !.at = "idle", !.result = "error"]
           \/ round' = [round EXCEPT !.at = "judge", !.tries = 1]
           \/ round' = [round EXCEPT !.at = "idle", !.result = "unreviewed"]
        /\ working' \subseteq working /\ UNCHANGED <<comments, rounds, cyc>>
    BY <1>5 DEF ReviewerFails
  <2>2. /\ DOMAIN round' = RoundFields /\ round'.n = round.n /\ round'.start = round.start
        /\ round'.pass \in Nat /\ round'.tries \in Nat
    <3>1. DOMAIN round' = RoundFields /\ round'.n = round.n /\ round'.start = round.start
      BY <1>a, <2>1, RoundFieldsAre
    <3>2. round'.pass = round.pass /\ round'.tries \in {1, round.tries} BY <1>a, <2>1, RoundFieldsAre
    <3> QED BY <1>a, <3>1, <3>2
  <2> QED BY <1>a, <2>1, <2>2, RoundMoves
<1>6. CASE EndPass
  <2>1. PICK to : /\ round' = [round EXCEPT !.got = Gathered, !.mech = {}, !.pass = @ + 1, !.at = to]
                  /\ UNCHANGED <<comments, rounds, cyc, working>>
    BY <1>6 DEF EndPass
  <2>2. /\ DOMAIN round' = RoundFields /\ round'.n = round.n /\ round'.start = round.start
        /\ round'.pass \in Nat /\ round'.tries \in Nat
    BY <1>a, <2>1, RoundFieldsAre
  <2> QED BY <1>a, <2>1, <2>2, RoundMoves
<1>7. ASSUME JudgePhase \/ JudgeFinal PROVE FedShape'
  <2>1. PICK res : /\ round' = [round EXCEPT !.at = "idle", !.result = res]
                   /\ UNCHANGED <<comments, rounds, working>> /\ cyc' \in {0, cyc, cyc + 1}
    BY <1>7 DEF JudgePhase, JudgeFinal
  <2>2. /\ DOMAIN round' = RoundFields /\ round'.n = round.n /\ round'.start = round.start
        /\ round'.pass \in Nat /\ round'.tries \in Nat
    BY <1>a, <2>1, RoundFieldsAre
  <2> QED BY <1>a, <2>1, <2>2, RoundMoves
<1>8. CASE FedRestart
  <2>1. round' = [NoRound EXCEPT !.n = round.n] /\ cyc' = 0 /\ working' = {} /\ UNCHANGED <<comments, rounds>>
    BY <1>8 DEF FedRestart
  <2>2. /\ DOMAIN round' = RoundFields /\ round'.n = round.n /\ round'.start = 0
        /\ round'.pass = 0 /\ round'.tries = 0
    BY <2>1 DEF RoundFields, NoRound
  <2> QED BY <1>a, <2>1, <2>2 DEF FedShape
<1>9. ASSUME NEW x \in ComputeFindingIds(comments), NEW kind, WriteAck(x, kind) PROVE FedShape'
  BY <1>9, RoundMoves DEF WriteAck, FedShape
<1>10. CASE UNCHANGED fedVars BY <1>10, RoundMoves DEF fedVars, FedShape
<1> QED BY <1>1, <1>2, <1>3, <1>4, <1>5, <1>6, <1>7, <1>8, <1>9, <1>10
        DEF FedNext, MarkFindingAddressed, MarkFindingResolved, DismissFinding

(* LEMMA: the image of a finite set under a function is finite. *)
LEMMA FiniteImage ==
  ASSUME NEW S, IsFiniteSet(S), NEW f, DOMAIN f = S
  PROVE  IsFiniteSet({f[x] : x \in S})
<1> DEFINE T == {f[x] : x \in S}
           g == [x \in S |-> f[x]]
<1>1. g \in Surjection(S, T) BY DEF Surjection
<1> QED BY <1>1, FS_Surjection

(* LEMMA: a finite set laid out is a sequence of its elements. *)
LEMMA LaidOut ==
  ASSUME NEW S, IsFiniteSet(S)
  PROVE  SetToSeq(S) \in Seq(S)
<1>1. Cardinality(S) \in Nat /\ ExistsBijection(1..Cardinality(S), S) BY FS_CardinalityType
<1>2. \E f \in [1..Cardinality(S) -> S] : IsInjective(f)
  BY <1>1 DEF ExistsBijection, Bijection, Injection, IsInjective
<1>3. SetToSeq(S) \in [1..Cardinality(S) -> S] BY <1>2 DEF SetToSeq
<1> QED BY <1>1, <1>3

(* LEMMA: the findings are finitely many pairs of a number and a signature.  *)
LEMMA FindingsAre ==
  ASSUME FedShape
  PROVE  /\ IsFiniteSet(ComputeFindingIds(comments))
         /\ \A x \in ComputeFindingIds(comments) :
              DOMAIN x = {"fid", "sig"} /\ x.fid \in Nat /\ x.sig \in Reviewers \X Anchors
                /\ x = [fid |-> x.fid, sig |-> x.sig]
<1>1. comments \in Seq(Comments) /\ Len(comments) \in Nat /\ DOMAIN comments = 1..Len(comments)
  BY LenProperties DEF FedShape
<1>2. Firsts(comments) \subseteq 1..Len(comments) BY <1>1 DEF Firsts
<1>3. IsFiniteSet(Firsts(comments))
  <2>1. IsFiniteSet(1..Len(comments)) BY <1>1, FS_Interval
  <2> QED BY <1>2, <2>1, FS_Subset
<1> DEFINE f == [i \in Firsts(comments) |-> [fid |-> NumberOf(comments, i), sig |-> SignatureOf(comments[i])]]
<1>4. {f[i] : i \in Firsts(comments)} = ComputeFindingIds(comments) BY NumbersAre
<1>5. IsFiniteSet(ComputeFindingIds(comments))
  <2>1. DOMAIN f = Firsts(comments) OBVIOUS
  <2> HIDE DEF f
  <2>2. IsFiniteSet({f[i] : i \in Firsts(comments)}) BY <1>3, <2>1, FiniteImage
  <2> QED BY <1>4, <2>2
<1>6. ASSUME NEW x \in ComputeFindingIds(comments)
      PROVE  DOMAIN x = {"fid", "sig"} /\ x.fid \in Nat /\ x.sig \in Reviewers \X Anchors
               /\ x = [fid |-> x.fid, sig |-> x.sig]
  <2>1. PICK i \in Firsts(comments) : x = [fid |-> NumberOf(comments, i), sig |-> SignatureOf(comments[i])]
    BY NumbersAre
  <2>2. comments[i] \in Comments BY <1>1, <1>2
  <2>3. SignatureOf(comments[i]) \in Reviewers \X Anchors BY <2>2 DEF Comments, SignatureOf
  <2>4. x.fid \in Nat BY <1>1, NumberNamesOne
  <2> QED BY <2>1, <2>3, <2>4
<1> QED BY <1>5, <1>6

(* LEMMA: an acknowledgement is written with the number of its finding. *)
LEMMA AckHolds ==
  ASSUME FedShape, NEW x \in ComputeFindingIds(comments), NEW kind \in AckKinds
  PROVE  Ack(x, kind) \in AckRecords /\ HeldBy(Ack(x, kind))
<1>1. RoundCycle \in Nat BY DEF RoundCycle, FedShape
<1> QED BY <1>1, FindingsAre DEF Ack, AckRecords, HeldBy

(* LEMMA: an acknowledgement written now names its finding, and comments     *)
(* appended later renumber none.                                             *)
LEMMA AckStep ==
  ASSUME FedShape, AcksHeld, [FedNext]_fedVars
  PROVE  AcksHeld'
<1>a. acks \in Seq(AckRecords) /\ Len(acks) \in Nat /\ DOMAIN acks = 1..Len(acks)
  BY LenProperties DEF AcksHeld
<1>1. ASSUME UNCHANGED <<comments, acks>> PROVE AcksHeld' BY <1>1 DEF AcksHeld, HeldBy
<1>2. ASSUME NEW w \in working, NEW a \in Anchors, NEW sev \in {"critical", "notable"}, ReviewerPostComment(w, a, sev)
      PROVE  AcksHeld'
  <2> DEFINE c == [rv |-> w.rv, at |-> a, sev |-> sev, cycle |-> w.cycle, n |-> w.n, turn |-> w.turn]
  <2>1. comments' = Append(comments, c) /\ acks' = acks BY <1>2 DEF ReviewerPostComment
  <2>2. c \in Comments BY DEF FedShape, Workers, Comments, Severities
  <2> HIDE DEF c
  <2>3. ComputeFindingIds(comments) \subseteq ComputeFindingIds(comments')
    BY <2>1, <2>2, NumbersStay DEF FedShape
  <2>4. ComputeFindingIds(comments') = ComputeFindingIds(comments)' OBVIOUS
  <2> QED BY <2>1, <2>3, <2>4 DEF AcksHeld, HeldBy
<1>3. ASSUME NEW x \in ComputeFindingIds(comments), NEW kind \in AckKinds, WriteAck(x, kind) PROVE AcksHeld'
  <2>d. PICK r : r = Ack(x, kind) OBVIOUS
  <2>1. acks' = Append(acks, r) /\ comments' = comments BY <1>3, <2>d DEF WriteAck
  <2>2. r \in AckRecords /\ HeldBy(r) BY <2>d, AckHolds
  <2>3. /\ acks' \in Seq(AckRecords) /\ DOMAIN acks' = 1..(Len(acks) + 1)
        /\ \A i \in DOMAIN acks' : (i \in DOMAIN acks /\ acks'[i] = acks[i]) \/ acks'[i] = r
    BY <1>a, <2>1, <2>2, AppendProperties
  <2>4. \A b : HeldBy(b) => HeldBy(b)' BY <2>1 DEF HeldBy
  <2> QED BY <2>2, <2>3, <2>4 DEF AcksHeld
<1>4. CASE JudgePhase
  <2>d. PICK S : S = {Ack(x, "reraised") : x \in Reraised} OBVIOUS
  <2>1. acks' = acks \o SetToSeq(S) /\ comments' = comments BY <1>4, <2>d DEF JudgePhase
  <2>2. Reraised \subseteq ComputeFindingIds(comments) BY DEF Reraised
  <2>3. \A b \in S : b \in AckRecords /\ HeldBy(b) BY <2>d, <2>2, AckHolds DEF AckKinds
  <2>4. IsFiniteSet(S)
    <3>1. IsFiniteSet(Reraised) BY <2>2, FindingsAre, FS_Subset
    <3> DEFINE f == [x \in Reraised |-> Ack(x, "reraised")]
    <3>2. {f[x] : x \in Reraised} = S BY <2>d
    <3> QED BY <3>1, <3>2, FiniteImage
  <2>d2. PICK s : s = SetToSeq(S) OBVIOUS
  <2>5. s \in Seq(S) /\ s \in Seq(AckRecords) BY <2>3, <2>4, <2>d2, LaidOut
  <2>6. /\ acks' \in Seq(AckRecords) /\ Len(s) \in Nat /\ DOMAIN acks' = 1..(Len(acks) + Len(s))
        /\ \A i \in DOMAIN acks' : acks'[i] = IF i <= Len(acks) THEN acks[i] ELSE s[i - Len(acks)]
    BY <1>a, <2>1, <2>5, <2>d2, ConcatProperties, LenProperties
  <2>7. ASSUME NEW i \in DOMAIN acks' PROVE HeldBy(acks'[i])
    <3>1. CASE i <= Len(acks) BY <1>a, <2>6, <3>1 DEF AcksHeld
    <3>2. CASE ~(i <= Len(acks))
      <4>1. i - Len(acks) \in DOMAIN s BY <1>a, <2>5, <2>6, <3>2, LenProperties
      <4> QED BY <2>3, <2>5, <2>6, <3>2, <4>1
    <3> QED BY <3>1, <3>2
  <2>8. \A b : HeldBy(b) => HeldBy(b)' BY <2>1 DEF HeldBy
  <2> QED BY <2>6, <2>7, <2>8 DEF AcksHeld
<1>5. ASSUME \/ \E kind \in {"phase", "final"} : StartRound(kind)
             \/ \E m \in Mechanical : DispatchReviewers(m)
             \/ \E w \in working : ReviewerEnds(w) \/ ReviewerFails(w)
             \/ EndPass \/ JudgeFinal \/ FedRestart \/ UNCHANGED fedVars
      PROVE  AcksHeld'
  BY <1>1, <1>5 DEF StartRound, DispatchReviewers, ReviewerEnds, ReviewerFails, EndPass, JudgeFinal, FedRestart, fedVars
<1>6. {"addressed", "resolved", "dismissed"} \subseteq AckKinds BY DEF AckKinds
<1> QED BY <1>2, <1>3, <1>4, <1>5, <1>6 DEF FedNext, MarkFindingAddressed, MarkFindingResolved, DismissFinding

(* THEOREM: the number in an acknowledgement stays its finding's. *)
THEOREM AcksKeepTheirFinding == FedSpec => []AckNamesItsFinding
<1>1. ASSUME FedShape, AcksHeld PROVE AckNamesItsFinding
  <2>1. ASSUME NEW i \in DOMAIN acks PROVE FindById(comments, acks[i].fid) = {acks[i].meant}
    <3> DEFINE x == [fid |-> acks[i].fid, sig |-> acks[i].meant]
    <3>1. x \in ComputeFindingIds(comments) BY <1>1 DEF AcksHeld, HeldBy
    <3>2. x.fid = acks[i].fid /\ x.sig = acks[i].meant OBVIOUS
    <3> HIDE DEF x
    <3>3. FindById(comments, x.fid) = {x.sig} BY <1>1, <3>1, NumberNamesOne DEF FedShape
    <3> QED BY <3>2, <3>3
  <2> QED BY <2>1 DEF AckNamesItsFinding
<1> QED BY <1>1, FedInitShape, FedShapeStep, AckStep, PTL DEF FedSpec

-----------------------------------------------------------------------------
(* Federation: what was posted in a dispatch that came to its end is         *)
(* gathered, or repeats a comment that was there; while its reviewers work, a *)
(* comment is so or will be, because its signature was not there before.      *)
Covered(i) == comments[i] \in round.got \/ Repeats(i)
Answered(i) == comments[i].sev \in BlockingSev => Excused(i)
Known == {CommentSignature(comments[i]) : i \in DOMAIN comments}
Posted == {comments[i] : i \in DOMAIN comments}
EndedOnes == {i \in DOMAIN comments : Ended(comments[i])}
TurnOnes == {i \in DOMAIN comments : InRound(comments[i])}

FreshInv ==
  /\ round.at \in {"idle", "dispatch", "gather", "judge"} /\ round.kind \in {"phase", "final"}
  /\ round.tries \in {0, 1}
  /\ round.at \in {"dispatch", "gather"} => IF round.kind = "final" THEN round.pass = 0 ELSE round.tries = 0
  /\ \A w \in working : ~Ended(w)
  /\ round.at = "dispatch" => \A x \in working \cup Posted : x.n = round.n => x.turn < Turn
  /\ round.at = "gather" => \A x \in working \cup Posted : x.n = round.n => x.turn <= Turn
  /\ round.at = "gather" => round.pre \subseteq Known
  /\ round.at = "gather" => \A i \in TurnOnes : Covered(i) \/ CommentSignature(comments[i]) \notin round.pre
  /\ round.at \in {"dispatch", "gather", "judge"} => \A i \in EndedOnes : Covered(i)
  /\ LetThrough => \A i \in EndedOnes : Answered(i)

(* LEMMA: the invariant is what was promised of a round let through.         *)
LEMMA FreshIsBlocked == FreshInv => FreshFindingsBlock
  BY DEF FreshInv, FreshFindingsBlock, EndedOnes, Answered

(* LEMMA: no round has begun.                                                *)
LEMMA FreshInit == FedInit => FreshInv
<1> SUFFICES ASSUME FedInit PROVE FreshInv OBVIOUS
<1>1. round.at = "idle" /\ round.kind = "phase" /\ round.result = "none" /\ round.tries = 0 BY DEF FedInit, NoRound
<1>2. working = {} BY DEF FedInit
<1> QED BY <1>1, <1>2 DEF FreshInv, LetThrough

(* LEMMA: where no comment is posted, it stays a repetition. *)
LEMMA RepeatsStays ==
  ASSUME comments' = comments
  PROVE  \A i : Repeats(i)' <=> Repeats(i)
  BY DEF Repeats

(* LEMMA: a dismissal stays when acknowledgements are added. *)
LEMMA DismissedStays ==
  ASSUME DOMAIN acks \subseteq DOMAIN acks', \A i \in DOMAIN acks : acks'[i] = acks[i]
  PROVE  Dismissed \subseteq Dismissed'
  BY DEF Dismissed

(* LEMMA: the acknowledgements judging writes keep the earlier ones.         *)
LEMMA JudgedAcks ==
  ASSUME FedShape, AcksHeld, JudgePhase
  PROVE  Dismissed \subseteq Dismissed'
<1>d. PICK s : s = SetToSeq({Ack(x, "reraised") : x \in Reraised}) OBVIOUS
<1>1. acks' = acks \o s BY <1>d DEF JudgePhase
<1>2. acks \in Seq(AckRecords) /\ Len(acks) \in Nat /\ DOMAIN acks = 1..Len(acks)
  BY LenProperties DEF AcksHeld
<1>3. IsFiniteSet({Ack(x, "reraised") : x \in Reraised})
  <2>1. IsFiniteSet(Reraised)
    <3>1. Reraised \subseteq ComputeFindingIds(comments) BY DEF Reraised
    <3> QED BY <3>1, FindingsAre, FS_Subset
  <2> DEFINE f == [x \in Reraised |-> Ack(x, "reraised")]
  <2>2. DOMAIN f = Reraised /\ {f[x] : x \in Reraised} = {Ack(x, "reraised") : x \in Reraised} OBVIOUS
  <2> HIDE DEF f
  <2>3. IsFiniteSet({f[x] : x \in Reraised}) BY <2>1, <2>2, FiniteImage
  <2> QED BY <2>2, <2>3
<1>4. PICK S : s \in Seq(S) BY <1>d, <1>3, LaidOut
<1>5. Len(s) \in Nat BY <1>4, LenProperties
<1>6. DOMAIN acks' = 1..(Len(acks) + Len(s)) /\ \A i \in 1..Len(acks) : acks'[i] = acks[i]
  BY <1>1, <1>2, <1>5
<1> QED BY <1>2, <1>5, <1>6, DismissedStays

(* LEMMA: what a posted comment leaves: its dispatch had not ended, and if it *)
(* is the one the gather waits for, its signature is new or a repetition.    *)
LEMMA FreshPosts ==
  ASSUME FedShape, FreshInv, NEW w \in working, NEW a \in Anchors, NEW sev \in {"critical", "notable"},
         ReviewerPostComment(w, a, sev)
  PROVE  FreshInv'
<1> DEFINE c == [rv |-> w.rv, at |-> a, sev |-> sev, cycle |-> w.cycle, n |-> w.n, turn |-> w.turn]
<1>a. /\ comments \in Seq(Comments) /\ Len(comments) \in Nat /\ DOMAIN comments = 1..Len(comments)
  BY LenProperties DEF FedShape
<1>d. PICK m : m = Len(comments) + 1 OBVIOUS
<1>1. comments' = Append(comments, c) /\ UNCHANGED <<round, working, acks, ticket>> BY DEF ReviewerPostComment
<1>2. c \in Comments /\ c.n = w.n /\ c.turn = w.turn BY DEF FedShape, Workers, Comments, Severities
<1> HIDE DEF c
<1>3. /\ Len(comments') = m /\ DOMAIN comments' = 1..m /\ comments'[m] = c
      /\ \A i \in 1..Len(comments) : comments'[i] = comments[i]
  BY <1>a, <1>d, <1>1, <1>2, AppendProperties, LenProperties
<1>4. \A i \in DOMAIN comments : (Repeats(i)' <=> Repeats(i)) /\ (Covered(i)' <=> Covered(i))
                                 /\ (Answered(i)' <=> Answered(i))
  <2>1. ASSUME NEW i \in 1..Len(comments) PROVE Repeats(i)' <=> Repeats(i)
    <3>1. \A j \in 1..i - 1 : comments'[j] = comments[j] BY <1>a, <1>3
    <3> QED BY <1>a, <1>3, <3>1 DEF Repeats
  <2> QED BY <1>a, <1>1, <1>3, <2>1 DEF Covered, Answered, Excused, Dismissed
<1>5. \A x : (Ended(x)' <=> Ended(x)) /\ (InRound(x)' <=> InRound(x)) BY <1>1 DEF Ended, InRound, Turn
<1>6. ~Ended(w) /\ ~Ended(c) /\ (InRound(c) <=> InRound(w)) BY <1>2 DEF FreshInv, Ended, InRound
<1>7. EndedOnes' = EndedOnes
  <2>1. \A i \in DOMAIN comments' : Ended(comments'[i]) <=> i \in DOMAIN comments /\ Ended(comments[i])
    BY <1>a, <1>d, <1>3, <1>6
  <2>2. \A i \in DOMAIN comments : i \in DOMAIN comments' BY <1>a, <1>d, <1>3
  <2>3. EndedOnes' = {i \in DOMAIN comments' : Ended(comments'[i])} BY <1>1 DEF EndedOnes, Ended
  <2> QED BY <2>1, <2>2, <2>3 DEF EndedOnes
<1>8. \A i \in TurnOnes' : i \in TurnOnes \/ i = m
  BY <1>a, <1>d, <1>1, <1>3 DEF TurnOnes, InRound, Turn
<1>9. Posted' \subseteq Posted \cup {c} /\ Known \subseteq Known'
  <2>1. Posted' \subseteq Posted \cup {c} BY <1>a, <1>d, <1>3 DEF Posted
  <2>2. Known \subseteq Known' BY <1>a, <1>d, <1>3 DEF Known, CommentSignature
  <2> QED BY <2>1, <2>2
<1>10. ASSUME round.at = "gather", CommentSignature(c) \in round.pre PROVE Repeats(m)'
  <2>1. PICK j \in 1..Len(comments) : CommentSignature(comments[j]) = CommentSignature(c)
    BY <1>a, <1>10 DEF FreshInv, Known
  <2>2. SignatureOf(comments[j]) = SignatureOf(c) /\ comments[j].cycle = c.cycle
    BY <2>1 DEF CommentSignature, SignatureOf
  <2>3. j \in 1..m - 1 /\ comments'[j] = comments[j] /\ comments'[m] = c BY <1>a, <1>d, <1>3
  <2>4. SignatureOf(comments'[j]) = SignatureOf(comments'[m]) /\ comments'[j].cycle = comments'[m].cycle
    BY <2>2, <2>3
  <2> QED BY <2>3, <2>4 DEF Repeats, SignatureOf
<1>11. ASSUME round.at = "gather", NEW i \in TurnOnes'
       PROVE  Covered(i)' \/ (CommentSignature(comments[i]) \notin round.pre)'
  <2>1. CASE i \in TurnOnes
    <3>1. Covered(i) \/ CommentSignature(comments[i]) \notin round.pre BY <1>11, <2>1 DEF FreshInv
    <3>2. i \in DOMAIN comments /\ comments'[i] = comments[i] BY <1>a, <1>3, <2>1 DEF TurnOnes
    <3>3. CASE Covered(i) BY <1>4, <3>2, <3>3
    <3>4. CASE CommentSignature(comments[i]) \notin round.pre BY <1>1, <3>2, <3>4 DEF CommentSignature
    <3> QED BY <3>1, <3>3, <3>4
  <2>2. CASE i = m
    <3>1. CASE CommentSignature(c) \in round.pre BY <1>10, <1>11, <2>2, <3>1 DEF Covered
    <3>2. CASE CommentSignature(c) \notin round.pre BY <1>1, <1>3, <2>2, <3>2 DEF CommentSignature
    <3> QED BY <3>1, <3>2
  <2> QED BY <1>8, <2>1, <2>2
<1>12. LetThrough' <=> LetThrough BY <1>1 DEF LetThrough
<1>13. Turn' = Turn BY <1>1 DEF Turn
<1>14. \A x \in working' \cup Posted' : \E y \in working \cup Posted : y.n = x.n /\ y.turn = x.turn
  BY <1>1, <1>2, <1>9
<1>15. \A i \in EndedOnes : i \in DOMAIN comments BY DEF EndedOnes
<1>16. /\ round.at = "dispatch" => \A x \in working' \cup Posted' : x.n = round'.n => x.turn < Turn'
       /\ round.at = "gather" => \A x \in working' \cup Posted' : x.n = round'.n => x.turn <= Turn'
  BY <1>1, <1>13, <1>14 DEF FreshInv
<1>17. \A x \in working' : ~Ended(x)' BY <1>1, <1>5 DEF FreshInv
<1>18. /\ round.at \in {"dispatch", "gather", "judge"} => \A i \in EndedOnes' : Covered(i)'
       /\ LetThrough' => \A i \in EndedOnes' : Answered(i)'
  BY <1>4, <1>7, <1>12, <1>15 DEF FreshInv
<1>19. round.at = "gather" => round'.pre \subseteq Known' BY <1>1, <1>9 DEF FreshInv
<1>20. /\ round'.at \in {"idle", "dispatch", "gather", "judge"} /\ round'.kind \in {"phase", "final"}
       /\ round'.tries \in {0, 1}
       /\ round'.at \in {"dispatch", "gather"} => IF round'.kind = "final" THEN round'.pass = 0 ELSE round'.tries = 0
  BY <1>1 DEF FreshInv
<1> QED BY <1>1, <1>11, <1>16, <1>17, <1>18, <1>19, <1>20 DEF FreshInv

(* LEMMA: every blocking comment of a dispatch stays collected, known from   *)
(* before, or yet to be collected.                                           *)
LEMMA FreshStep ==
  ASSUME FedShape, AcksHeld, FreshInv, [FedNext]_fedVars
  PROVE  FreshInv'
<1>a. /\ comments \in Seq(Comments) /\ Len(comments) \in Nat /\ DOMAIN comments = 1..Len(comments)
      /\ DOMAIN round = RoundFields /\ rounds \in Nat /\ round.pass \in Nat /\ round.tries \in {0, 1}
      /\ Turn \in Nat /\ Turn = round.pass + round.tries
  BY LenProperties DEF FedShape, FreshInv, Turn
<1>b. acks \in Seq(AckRecords) /\ Len(acks) \in Nat /\ DOMAIN acks = 1..Len(acks)
  BY LenProperties DEF AcksHeld
<1>c. \A x \in working \cup Posted : x.n \in Nat /\ x.n <= rounds /\ x.turn \in Nat
  <2>1. \A i \in DOMAIN comments : comments[i] \in Comments BY <1>a
  <2> QED BY <2>1 DEF FedShape, Workers, Comments, Posted
<1>e. EndedOnes \subseteq DOMAIN comments /\ TurnOnes \subseteq DOMAIN comments
      /\ \A i \in DOMAIN comments : comments[i] \in Posted
  BY DEF EndedOnes, TurnOnes, Posted
<1>q. ASSUME UNCHANGED <<comments, acks, round, ticket>>, working' \subseteq working PROVE FreshInv'
  <2>1. /\ EndedOnes' = EndedOnes /\ TurnOnes' = TurnOnes /\ Posted' = Posted /\ Known' = Known /\ Turn' = Turn
        /\ (LetThrough' <=> LetThrough) /\ \A x : Ended(x)' <=> Ended(x)
    BY <1>q DEF EndedOnes, TurnOnes, Posted, Known, Turn, LetThrough, Ended, InRound
  <2>2. \A i : (Covered(i)' <=> Covered(i)) /\ (Answered(i)' <=> Answered(i))
               /\ CommentSignature(comments[i])' = CommentSignature(comments[i])
    BY <1>q DEF Covered, Answered, Excused, Repeats, Dismissed, CommentSignature
  <2> QED BY <1>q, <2>1, <2>2 DEF FreshInv
<1>1. ASSUME NEW kind \in {"phase", "final"}, StartRound(kind) PROVE FreshInv'
  <2>1. /\ round' = [NoRound EXCEPT !.at = "dispatch", !.kind = kind, !.n = rounds + 1, !.start = Len(comments)]
        /\ UNCHANGED <<comments, working, acks>>
    BY <1>1 DEF StartRound
  <2>2. /\ round'.at = "dispatch" /\ round'.kind = kind /\ round'.n = rounds + 1
        /\ round'.pass = 0 /\ round'.tries = 0
    BY <2>1 DEF NoRound
  <2>3. Posted' = Posted /\ working' = working BY <2>1 DEF Posted
  <2>4. \A x \in working \cup Posted : x.n # round'.n BY <1>a, <1>c, <2>2
  <2>5. EndedOnes' = {} /\ \A w \in working' : ~Ended(w)' BY <1>e, <2>1, <2>3, <2>4 DEF EndedOnes, Ended
  <2>6. ~LetThrough' BY <2>2 DEF LetThrough
  <2> QED BY <2>2, <2>3, <2>4, <2>5, <2>6 DEF FreshInv
<1>2. ASSUME NEW m, DispatchReviewers(m) PROVE FreshInv'
  <2>1. /\ round' = [round EXCEPT !.at = "gather", !.mech = m, !.pre = Known]
        /\ UNCHANGED <<comments, acks>> /\ round.at = "dispatch"
        /\ working' = working \cup {[rv |-> r, n |-> round.n, turn |-> Turn, cycle |-> RoundCycle] : r \in Reviewers}
    BY <1>2 DEF DispatchReviewers, Known
  <2>2. /\ round'.at = "gather" /\ round'.got = round.got /\ round'.pre = Known
        /\ round'.n = round.n /\ round'.kind = round.kind /\ round'.tries = round.tries /\ round'.pass = round.pass
    BY <1>a, <2>1, RoundFieldsAre
  <2>3. /\ Posted' = Posted /\ Known' = Known /\ EndedOnes' = EndedOnes /\ TurnOnes' = TurnOnes /\ Turn' = Turn
        /\ \A x : Ended(x)' <=> Ended(x)
    BY <2>1, <2>2 DEF Posted, Known, EndedOnes, TurnOnes, Turn, Ended, InRound
  <2>4. \A x \in working' : x \in working \/ (x.n = round.n /\ x.turn = Turn) BY <2>1
  <2>5. \A x : x.turn = Turn => ~Ended(x) BY <1>a, <2>1 DEF FreshInv, Ended
  <2>6. \A w \in working' : ~Ended(w)' BY <2>3, <2>4, <2>5 DEF FreshInv
  <2>7. \A x \in working \cup Posted : x.n = round.n => x.turn < Turn BY <2>1 DEF FreshInv
  <2>8. TurnOnes = {} BY <1>a, <1>c, <1>e, <2>7 DEF TurnOnes, InRound
  <2>9. \A x \in working' \cup Posted' : x.n = round'.n => x.turn <= Turn'
    BY <1>a, <1>c, <2>2, <2>3, <2>4, <2>7
  <2>10. \A i \in EndedOnes : Covered(i)' BY <2>1, <2>2, RepeatsStays DEF FreshInv, Covered
  <2>11. ~LetThrough' BY <2>2 DEF LetThrough
  <2>12. /\ round'.kind \in {"phase", "final"} /\ round'.tries \in {0, 1}
         /\ IF round'.kind = "final" THEN round'.pass = 0 ELSE round'.tries = 0
    BY <2>1, <2>2 DEF FreshInv
  <2> QED BY <2>2, <2>3, <2>6, <2>8, <2>9, <2>10, <2>11, <2>12 DEF FreshInv
<1>3. ASSUME NEW w \in working, NEW a \in Anchors, NEW sev \in {"critical", "notable"}, ReviewerPostComment(w, a, sev)
      PROVE  FreshInv'
  BY <1>3, FreshPosts
<1>4. ASSUME NEW w \in working, ReviewerEnds(w) PROVE FreshInv' BY <1>4, <1>q DEF ReviewerEnds
<1>5. ASSUME NEW w \in working, ReviewerFails(w) PROVE FreshInv'
  <2>1. /\ \/ /\ round.kind = "final" /\ round.tries = 0
              /\ round' = [round EXCEPT !.at = "dispatch", !.tries = 1, !.got = {}]
           \/ round.kind = "final" /\ round' = [round EXCEPT !.at = "idle", !.result = "error"]
           \/ round.kind = "phase" /\ round' = [round EXCEPT !.at = "judge", !.tries = 1]
           \/ round.kind = "phase" /\ round' = [round EXCEPT !.at = "idle", !.result = "unreviewed"]
        /\ ticket' = IF round'.result = "error" THEN "failed" ELSE ticket
        /\ UNCHANGED <<comments, acks>> /\ working' \subseteq working /\ round.at = "gather"
    <3>1. round.kind = "final" \/ round.kind = "phase" BY DEF FreshInv
    <3> QED BY <1>5, <1>a, <3>1 DEF ReviewerFails
  <2>2. Posted' = Posted /\ \A x \in working' : x \in working BY <2>1 DEF Posted
  <2>3. \A x \in working \cup Posted : x.n = round.n => x.turn <= Turn BY <2>1 DEF FreshInv
  <2>4. ASSUME round.kind = "final", round.tries = 0, round' = [round EXCEPT !.at = "dispatch", !.tries = 1, !.got = {}]
        PROVE  FreshInv'
    <3>1. /\ round'.at = "dispatch" /\ round'.kind = "final" /\ round'.tries = 1 /\ round'.pass = round.pass
          /\ round'.n = round.n /\ round.pass = 0
      BY <1>a, <2>1, <2>4, RoundFieldsAre DEF FreshInv
    <3>2. Turn = 0 /\ Turn' = 1 BY <1>a, <2>4, <3>1 DEF Turn
    <3>3. \A x : ~Ended(x)' BY <3>1 DEF Ended
    <3>4. EndedOnes' = {} BY <3>1 DEF EndedOnes, Ended
    <3>5. \A x \in working' \cup Posted' : x.n = round'.n => x.turn < Turn' BY <1>c, <2>2, <2>3, <3>1, <3>2
    <3>6. ~LetThrough' BY <3>1 DEF LetThrough
    <3> QED BY <3>1, <3>3, <3>4, <3>5, <3>6 DEF FreshInv
  <2>5. ASSUME \/ round.kind = "final" /\ round' = [round EXCEPT !.at = "idle", !.result = "error"]
               \/ round.kind = "phase" /\ round' = [round EXCEPT !.at = "idle", !.result = "unreviewed"]
        PROVE  FreshInv'
    <3>1. /\ round'.at = "idle" /\ round'.kind = round.kind /\ round'.tries = round.tries
          /\ round'.pass = round.pass /\ round'.n = round.n
          /\ round'.result = IF round.kind = "final" THEN "error" ELSE "unreviewed"
      BY <1>a, <2>5, RoundFieldsAre
    <3>2. ~LetThrough' BY <2>1, <3>1 DEF LetThrough
    <3>3. \A x \in working' : ~Ended(x)' BY <2>2, <3>1 DEF FreshInv, Ended
    <3> QED BY <1>a, <3>1, <3>2, <3>3 DEF FreshInv
  <2>6. ASSUME round.kind = "phase", round' = [round EXCEPT !.at = "judge", !.tries = 1] PROVE FreshInv'
    <3>1. /\ round'.at = "judge" /\ round'.kind = "phase" /\ round'.tries = 1
          /\ round'.pass = round.pass /\ round'.n = round.n /\ round'.got = round.got
      BY <1>a, <2>6, RoundFieldsAre
    <3>2. \A x : Ended(x)' <=> Ended(x) BY <2>6, <3>1 DEF Ended
    <3>3. EndedOnes' = EndedOnes BY <2>1, <2>6, <3>1 DEF EndedOnes, Ended
    <3>4. \A i \in EndedOnes : Covered(i)' BY <2>1, <3>1, RepeatsStays DEF FreshInv, Covered
    <3>5. ~LetThrough' BY <3>1 DEF LetThrough
    <3>6. \A x \in working' : ~Ended(x)' BY <2>2, <3>2 DEF FreshInv
    <3> QED BY <3>1, <3>3, <3>4, <3>5, <3>6 DEF FreshInv
  <2> QED BY <2>1, <2>4, <2>5, <2>6
<1>6. CASE EndPass
  <2>1. /\ round' = [round EXCEPT !.got = Gathered, !.mech = {}, !.pass = @ + 1,
                       !.at = IF round.pass + 1 < PassesDue THEN "dispatch" ELSE "judge"]
        /\ round.at = "gather" /\ {w \in working : InRound(w)} = {} /\ UNCHANGED <<comments, acks, working>>
    BY <1>6 DEF EndPass
  <2>2. /\ round'.at = (IF round.pass + 1 < PassesDue THEN "dispatch" ELSE "judge") /\ round'.got = Gathered
        /\ round'.n = round.n /\ round'.pass = round.pass + 1
        /\ round'.kind = round.kind /\ round'.tries = round.tries
    BY <1>a, <2>1, RoundFieldsAre
  <2>3. IF round.kind = "final" THEN round.pass = 0 ELSE round.tries = 0 BY <2>1 DEF FreshInv
  <2>4. round.kind = "final" => round'.at = "judge" BY <2>2, <2>3 DEF PassesDue
  <2>5. \A x \in working \cup Posted : Ended(x)' => Ended(x) \/ InRound(x)
    BY <1>a, <1>c, <2>2, <2>3 DEF Ended, InRound
  <2>6. Posted' = Posted /\ working' = working BY <2>1 DEF Posted
  <2>7. \A w \in working' : ~Ended(w)' BY <2>1, <2>5, <2>6 DEF FreshInv
  <2>8. Turn' = Turn + 1 BY <1>a, <2>2 DEF Turn
  <2>9. \A x \in working' \cup Posted' : x.n = round'.n => x.turn < Turn'
    <3>1. \A x \in working \cup Posted : x.n = round.n => x.turn <= Turn BY <2>1 DEF FreshInv
    <3> QED BY <1>a, <1>c, <2>2, <2>6, <2>8, <3>1
  <2>10. EndedOnes' \subseteq EndedOnes \cup TurnOnes
    <3>1. ASSUME NEW i \in EndedOnes' PROVE i \in EndedOnes \cup TurnOnes
      <4>1. PICK x : x = comments[i] OBVIOUS
      <4>2. i \in DOMAIN comments /\ Ended(x)' /\ x \in Posted BY <1>e, <2>1, <3>1, <4>1 DEF EndedOnes, Ended
      <4>3. Ended(x) \/ InRound(x) BY <2>5, <4>2
      <4> QED BY <4>1, <4>2, <4>3 DEF EndedOnes, TurnOnes
    <3> QED BY <3>1
  <2>11. ASSUME NEW i \in EndedOnes \cup TurnOnes PROVE Covered(i)'
    <3>1. Covered(i) \/ CommentSignature(comments[i]) \notin round.pre BY <2>1, <2>11 DEF FreshInv
    <3>2. i \in DOMAIN comments BY <1>e, <2>11
    <3>3. comments[i] \in Comments BY <1>a, <3>2
    <3>4. comments[i].rv \in Reviewers BY <3>3 DEF Comments
    <3>5. CommentSignature(comments[i]) \notin round.pre => comments[i] \in Collected BY <3>2, <3>4 DEF Collected
    <3> QED BY <2>1, <2>2, <3>1, <3>5, RepeatsStays DEF Covered, Gathered
  <2>12. ~LetThrough' /\ round'.at \in {"dispatch", "judge"} BY <2>2 DEF LetThrough
  <2>13. /\ round'.kind \in {"phase", "final"} /\ round'.tries \in {0, 1}
         /\ round'.at = "dispatch" => round'.kind = "phase" /\ round'.tries = 0
    BY <1>a, <2>2, <2>3, <2>4 DEF FreshInv
  <2> QED BY <2>7, <2>9, <2>10, <2>11, <2>12, <2>13 DEF FreshInv
<1>7. CASE JudgePhase
  <2>1. /\ round.at = "judge" /\ round.kind = "phase" /\ UNCHANGED <<comments, working>>
        /\ round' = [round EXCEPT !.at = "idle", !.result = IF BlockingNow = {} THEN "passed" ELSE "blocked"]
    BY <1>7 DEF JudgePhase
  <2>2. /\ round'.at = "idle" /\ round'.n = round.n /\ round'.kind = "phase" /\ round'.pass = round.pass
        /\ round'.tries = round.tries /\ (round'.result = "passed" => BlockingNow = {})
    BY <1>a, <2>1, RoundFieldsAre
  <2>3. EndedOnes' = EndedOnes /\ \A x \in working' : ~Ended(x)'
    BY <2>1, <2>2 DEF FreshInv, EndedOnes, Ended
  <2>4. Dismissed \subseteq Dismissed' BY <1>7, JudgedAcks
  <2>5. LetThrough' => BlockingNow = {} BY <2>2 DEF LetThrough
  <2>6. ASSUME BlockingNow = {}, NEW i \in EndedOnes PROVE Answered(i)'
    <3>1. Covered(i) BY <2>1, <2>6 DEF FreshInv
    <3>2. CASE Repeats(i) BY <2>1, <3>2, RepeatsStays DEF Answered, Excused
    <3>3. CASE comments[i] \in round.got
      <4>1. comments[i].sev \in BlockingSev => ~InScope(comments[i]) \/ SignatureOf(comments[i]) \in Dismissed
        BY <2>6, <3>3 DEF BlockingNow
      <4> QED BY <2>1, <2>2, <2>4, <4>1 DEF Answered, Excused
    <3> QED BY <3>1, <3>2, <3>3 DEF Covered
  <2> QED BY <1>a, <2>2, <2>3, <2>5, <2>6 DEF FreshInv
<1>8. CASE JudgeFinal
  <2> DEFINE has(s) == \E c \in round.got : c.sev = s
  <2>1. /\ ticket' = CASE has("critical") -> "failed" [] has("important") /\ ~has("critical") -> "blocked"
                       [] OTHER -> ticket
        /\ round.at = "judge" /\ round.kind = "final" /\ UNCHANGED <<comments, acks, working>>
    BY <1>8 DEF JudgeFinal
  <2>2. PICK res : round' = [round EXCEPT !.at = "idle", !.result = res] BY <1>8 DEF JudgeFinal
  <2>3. /\ round'.at = "idle" /\ round'.n = round.n /\ round'.kind = "final" /\ round'.pass = round.pass
        /\ round'.tries = round.tries
    BY <1>a, <2>1, <2>2, RoundFieldsAre
  <2>4. EndedOnes' = EndedOnes /\ \A x \in working' : ~Ended(x)'
    BY <2>1, <2>3 DEF FreshInv, EndedOnes, Ended
  <2>5. LetThrough' => ticket' = "resolved" BY <2>3 DEF LetThrough
  <2>6. ticket' = "resolved" => ~has("critical") /\ ~has("important")
    <3> HIDE DEF has
    <3>1. CASE has("critical") BY <2>1, <3>1
    <3>2. CASE ~has("critical") /\ has("important") BY <2>1, <3>2
    <3> QED BY <3>1, <3>2
  <2>7. ASSUME ticket' = "resolved", NEW i \in EndedOnes PROVE Answered(i)'
    <3>1. Covered(i) BY <2>1, <2>7 DEF FreshInv
    <3>2. CASE Repeats(i) BY <2>1, <3>2, RepeatsStays DEF Answered, Excused
    <3>3. CASE comments[i] \in round.got
      <4>1. comments[i].sev \notin BlockingSev BY <2>6, <2>7, <3>3 DEF BlockingSev
      <4> QED BY <2>1, <4>1 DEF Answered
    <3> QED BY <3>1, <3>2, <3>3 DEF Covered
  <2> QED BY <1>a, <2>3, <2>4, <2>5, <2>7 DEF FreshInv
<1>9. CASE FedRestart
  <2>1. /\ round'.at = "idle" /\ round'.kind = "phase" /\ round'.result = "none" /\ round'.tries = 0
        /\ working' = {}
    BY <1>9 DEF FedRestart, NoRound
  <2>2. ~LetThrough' BY <2>1 DEF LetThrough
  <2> QED BY <2>1, <2>2 DEF FreshInv
<1>10. ASSUME NEW x \in ComputeFindingIds(comments), NEW kind \in AckKinds, WriteAck(x, kind) PROVE FreshInv'
  <2>d. PICK r : r = Ack(x, kind) OBVIOUS
  <2>1. acks' = Append(acks, r) /\ UNCHANGED <<comments, round, working, ticket>> BY <1>10, <2>d DEF WriteAck
  <2>2. r \in AckRecords BY <2>d, AckHolds
  <2>3. DOMAIN acks \subseteq DOMAIN acks' /\ \A i \in DOMAIN acks : acks'[i] = acks[i]
    BY <1>b, <2>1, <2>2, AppendProperties
  <2>4. Dismissed \subseteq Dismissed' BY <2>3, DismissedStays
  <2>5. \A i : (Covered(i)' <=> Covered(i)) /\ (Answered(i) => Answered(i)')
               /\ CommentSignature(comments[i])' = CommentSignature(comments[i])
    BY <2>1, <2>4, RepeatsStays DEF Covered, Answered, Excused, CommentSignature
  <2>6. /\ EndedOnes' = EndedOnes /\ TurnOnes' = TurnOnes /\ Posted' = Posted /\ Known' = Known /\ Turn' = Turn
        /\ (LetThrough' <=> LetThrough) /\ \A y : Ended(y)' <=> Ended(y)
    BY <2>1 DEF EndedOnes, TurnOnes, Posted, Known, Turn, LetThrough, Ended, InRound
  <2> QED BY <2>1, <2>5, <2>6 DEF FreshInv
<1>11. CASE UNCHANGED fedVars BY <1>11, <1>q DEF fedVars
<1>12. {"addressed", "resolved", "dismissed"} \subseteq AckKinds BY DEF AckKinds
<1> QED BY <1>1, <1>2, <1>3, <1>4, <1>5, <1>6, <1>7, <1>8, <1>9, <1>10, <1>11, <1>12
        DEF FedNext, MarkFindingAddressed, MarkFindingResolved, DismissFinding

(* THEOREM: no phase passes and no gate leaves its ticket resolved over a     *)
(* blocking finding of a dispatch whose reviewers ended, unless it repeats    *)
(* one of a cycle with the same number or, in a phase, is dismissed or out of *)
(* scope.                                                                    *)
THEOREM FreshBlock == FedSpec => []FreshFindingsBlock
<1> QED BY FreshIsBlocked, FedInitShape, FedShapeStep, AckStep, FreshInit, FreshStep, PTL DEF FedSpec

-----------------------------------------------------------------------------
(* Checks: the gate's sweep has run every check it passed by, its scoring has *)
(* found every check it passed by clear or holds it against the handoff.      *)
LEMMA LatestExists ==
  ASSUME NEW n \in Nat, NEW S, S \subseteq 1..n, S # {}
  PROVE  \E m \in S : \A k \in S : k <= m
<1> DEFINE T == {n - k : k \in S}
<1>0. \A k \in S : k \in Nat /\ k <= n /\ n - k \in Nat OBVIOUS
<1>1. T \subseteq Nat /\ T # {} BY <1>0
<1> HIDE DEF T
<1>2. PICK d \in T : \A e \in T : <<e, d>> \notin OpToRel(<, Nat) BY <1>1, WFMin, NatLessThanWellFounded
<1>3. \A e \in T : ~(e < d) BY <1>1, <1>2 DEF OpToRel
<1>4. PICK m \in S : d = n - m BY DEF T
<1>5. \A k \in S : n - k \in T BY DEF T
<1>6. ASSUME NEW k \in S PROVE k <= m BY <1>0, <1>3, <1>4, <1>5
<1> QED BY <1>6

CheckNames == UNION {{WfPhases[i].checks[k] : k \in DOMAIN WfPhases[i].checks} : i \in DOMAIN WfPhases}
Verdicts == {"pass", "fail", "unfinished"}
GatePlaces == {"agent", "run", "running", "score", "passed", "bounce", "over", "failed", "done"}
Contexts == UNION {Catalog[c].context : c \in DOMAIN Catalog}
NameSets == SUBSET CheckNames
NameLists == Seq(CheckNames)
ToolSets == SUBSET {"verdict", "read"}
ContextSets == SUBSET Contexts
GateRecords == [at : GatePlaces, hid : Nat, names : NameLists, pos : Nat, sha : Nat,
                failing : NameSets, missing : NameSets, from : Nat, tools : ToolSets, sees : ContextSets]
ResultRows == [phase : DOMAIN WfPhases, check : CheckNames, verdict : Verdicts, sha : Nat]
FailureRows == [check : CheckNames, sha : Nat, severity : {"required"}, waived : BOOLEAN]
HandoffRows == [phase : DOMAIN WfPhases, author : Roles, state : {"pending", "accepted", "rejected"},
                by : Roles \cup {"harness", "nobody"}]

CheckShape ==
  /\ commits \in Seq(Changes \cup {{}}) /\ phaseNo \in DOMAIN WfPhases
  /\ handoffs \in Seq(HandoffRows) /\ results \in Seq(ResultRows) /\ failures \in Seq(FailureRows)
  /\ gate \in GateRecords /\ waiving \in {0} \cup DOMAIN failures
  /\ gate.at = "running" => gate.pos \in Sweep
  /\ gate.at = "score" => gate.pos >= 1

(* LEMMA: the phases of the workflow and their checks.                       *)
LEMMA PhasesAre ==
  /\ DOMAIN WfPhases = 1..Len(WfPhases) /\ Len(WfPhases) \in Nat \ {0}
  /\ \A i \in DOMAIN WfPhases : WfPhases[i].checks \in Seq(CheckNames)
<1>1. ASSUME NEW i \in DOMAIN WfPhases PROVE WfPhases[i].checks \in Seq(CheckNames)
  <2> DEFINE s == WfPhases[i].checks
             C == {s[k] : k \in DOMAIN s}
  <2>1. s \in Seq(C) BY <1>1, ChecksAssumption
  <2>2. C \subseteq CheckNames BY <1>1 DEF CheckNames
  <2> HIDE DEF s, C
  <2>3. s \in Seq(CheckNames) BY <2>1, <2>2
  <2> QED BY <2>3 DEF s
<1> QED BY <1>1, ChecksAssumption

(* LEMMA: a fresh gate, and each way a gate's record is updated, is a gate. *)
LEMMA GatesAre ==
  /\ \A at \in GatePlaces : GateAt(at) \in GateRecords
  /\ \A g \in GateRecords, n \in Nat, at \in GatePlaces :
       [g EXCEPT !.pos = n] \in GateRecords /\ [g EXCEPT !.at = at] \in GateRecords
<1>1. <<>> \in Seq(CheckNames) BY EmptySeq
<1>2. \A at \in GatePlaces : GateAt(at) \in GateRecords
  BY <1>1 DEF GateAt, GateRecords, NoSha, NameLists, NameSets, ToolSets, ContextSets
<1>3. \A g \in GateRecords, n \in Nat, at \in GatePlaces :
       [g EXCEPT !.pos = n] \in GateRecords /\ [g EXCEPT !.at = at] \in GateRecords
  BY DEF GateRecords
<1> QED BY <1>2, <1>3

(* LEMMA: the first state has the shape of the records.                      *)
LEMMA CheckInitShape == CheckInit => CheckShape
<1> SUFFICES ASSUME CheckInit PROVE CheckShape OBVIOUS
<1>1. <<{}>> \in Seq(Changes \cup {{}}) OBVIOUS
<1>2. "agent" \in GatePlaces BY DEF GatePlaces
<1>3. 1 \in DOMAIN WfPhases BY PhasesAre
<1>4. GateAt("agent").at = "agent" BY DEF GateAt
<1> QED BY <1>1, <1>2, <1>3, <1>4, GatesAre, EmptySeq DEF CheckInit, CheckShape

(* LEMMA: a check starts at a position of the sweep, and ends. *)
LEMMA GateFields ==
  ASSUME NEW A, NEW N, NEW Q, NEW F, NEW T, NEW U, NEW at \in A, NEW p \in N, NEW sha \in N, NEW t \in T, NEW u \in U,
         NEW g \in [at : A, hid : N, names : Q, pos : N, sha : N, failing : F, missing : F, from : N, tools : T, sees : U]
  PROVE  LET v == [g EXCEPT !.at = at, !.pos = p, !.sha = sha, !.tools = t, !.sees = u]
         IN  /\ v \in [at : A, hid : N, names : Q, pos : N, sha : N, failing : F, missing : F, from : N, tools : T, sees : U]
             /\ v.at = at /\ v.pos = p /\ v.sha = sha /\ v.names = g.names /\ v.from = g.from /\ v.hid = g.hid
  OBVIOUS

AtCheck(g, at, p, sha, t, u) == [g EXCEPT !.at = at, !.pos = p, !.sha = sha, !.tools = t, !.sees = u]

(* LEMMA: a gate that goes on to another check keeps the handoff and the     *)
(* checks it is about.                                                       *)
LEMMA GateRuns ==
  ASSUME NEW g \in GateRecords, NEW at \in GatePlaces, NEW p \in Nat, NEW sha \in Nat,
         NEW t \in ToolSets, NEW u \in ContextSets
  PROVE  /\ AtCheck(g, at, p, sha, t, u) \in GateRecords
         /\ AtCheck(g, at, p, sha, t, u).at = at /\ AtCheck(g, at, p, sha, t, u).pos = p
         /\ AtCheck(g, at, p, sha, t, u).names = g.names /\ AtCheck(g, at, p, sha, t, u).from = g.from
         /\ AtCheck(g, at, p, sha, t, u).hid = g.hid
  BY GateFields DEF GateRecords, AtCheck

(* LEMMA: both halves of the sweep go through the same checks in the same    *)
(* order.                                                                    *)
LEMMA SweepNames ==
  ASSUME gate \in GateRecords, NEW p \in Sweep
  PROVE  /\ p \in Nat /\ p <= 2 * Len(gate.names) /\ NameAt(p) \in CheckNames
         /\ \A i \in 1..Len(gate.names) : i \in Sweep /\ Len(gate.names) + i \in Sweep
                                        /\ NameAt(i) = gate.names[i] /\ NameAt(Len(gate.names) + i) = gate.names[i]
<1>1. gate.names \in Seq(CheckNames) /\ Len(gate.names) \in Nat BY LenProperties DEF GateRecords, NameLists
<1>d. PICK n \in Nat : n = Len(gate.names) BY <1>1
<1>2. p \in 1..2 * n BY <1>d DEF Sweep
<1>3. \A i \in 1..n : gate.names[i] \in CheckNames BY <1>1, <1>d, ElementOfSeq
<1>4. NameAt(p) \in CheckNames
  <2>1. CASE p <= n BY <1>2, <1>3, <1>d, <2>1 DEF NameAt
  <2>2. CASE ~(p <= n)
    <3>1. p - n \in 1..n BY <1>2, <2>2
    <3> QED BY <1>3, <1>d, <2>2, <3>1 DEF NameAt
  <2> QED BY <2>1, <2>2
<1>5. ASSUME NEW i \in 1..n
      PROVE  i \in Sweep /\ n + i \in Sweep /\ NameAt(i) = gate.names[i] /\ NameAt(n + i) = gate.names[i]
  <2>1. i <= n /\ ~(n + i <= n) /\ n + i - n = i /\ i \in 1..2 * n /\ n + i \in 1..2 * n OBVIOUS
  <2> QED BY <1>d, <2>1 DEF Sweep, NameAt
<1> QED BY <1>2, <1>4, <1>5, <1>d

(* LEMMA: where the gate stays, or is not at a check, only the rest counts. *)
LEMMA ShapeKept ==
  ASSUME CheckShape, gate' = gate \/ (gate' \in GateRecords /\ gate'.at # "running" /\ (gate'.at = "score" => gate'.pos >= 1)),
         commits' \in Seq(Changes \cup {{}}), phaseNo' \in DOMAIN WfPhases,
         handoffs' \in Seq(HandoffRows), results' \in Seq(ResultRows), failures' \in Seq(FailureRows),
         waiving' \in {0} \cup DOMAIN failures'
  PROVE  CheckShape'
  BY DEF CheckShape, Sweep

(* LEMMA: one entry of a sequence is replaced by another of its kind. *)
LEMMA EntryReplaced ==
  ASSUME NEW C, NEW s \in Seq(C), NEW i, NEW v, i \in DOMAIN s => v \in C
  PROVE  [s EXCEPT ![i] = v] \in Seq(C) /\ DOMAIN [s EXCEPT ![i] = v] = DOMAIN s
<1>1. s \in [1..Len(s) -> C] /\ Len(s) \in Nat BY LenProperties
<1>2. [s EXCEPT ![i] = v] \in [1..Len(s) -> C] BY <1>1
<1>3. [s EXCEPT ![i] = v] \in Seq(C) BY <1>1, <1>2, SeqDef
<1> QED BY <1>3

(* LEMMA: a check with results in the phase has a latest one. *)
LEMMA LatestIs ==
  ASSUME results \in Seq(ResultRows), NEW c, ResultsOf(c) # {}
  PROVE  /\ LatestResult(c) \in DOMAIN results /\ results[LatestResult(c)].check = c
         /\ \A i \in ResultsOf(c) : i <= LatestResult(c)
<1>1. Len(results) \in Nat /\ ResultsOf(c) \subseteq 1..Len(results) BY LenProperties DEF ResultsOf
<1>2. \E m \in ResultsOf(c) : \A k \in ResultsOf(c) : k <= m BY <1>1, LatestExists
<1>d. PICK m : m = CHOOSE i \in ResultsOf(c) : \A k \in ResultsOf(c) : k <= i OBVIOUS
<1>3. m \in ResultsOf(c) /\ \A k \in ResultsOf(c) : k <= m BY <1>2, <1>d, Zenon
<1>4. LatestResult(c) = m BY <1>d DEF LatestResult
<1> QED BY <1>3, <1>4 DEF ResultsOf

(* LEMMA: a handoff that is accepted or rejected stays a handoff.            *)
LEMMA ResolvesToRoles ==
  ASSUME CheckShape, NEW r \in Roles, NEW h \in DOMAIN handoffs
  PROVE  /\ handoffs[h] \in HandoffRows
         /\ \A state \in {"accepted", "rejected"} :
              [[handoffs[h] EXCEPT !.state = state] EXCEPT !.by = IF state = "accepted" THEN r ELSE "nobody"] \in HandoffRows
<1>1. handoffs[h] \in HandoffRows BY LenProperties DEF CheckShape
<1> QED BY <1>1 DEF HandoffRows

(* LEMMA: every step of the gate and the checks keeps the shape of the       *)
(* records.                                                                  *)
LEMMA CheckShapeStep ==
  ASSUME CheckShape, [CheckNext]_checkVars
  PROVE  CheckShape'
<1>a. /\ commits \in Seq(Changes \cup {{}}) /\ phaseNo \in DOMAIN WfPhases
      /\ handoffs \in Seq(HandoffRows) /\ results \in Seq(ResultRows) /\ failures \in Seq(FailureRows)
      /\ gate \in GateRecords /\ waiving \in {0} \cup DOMAIN failures
  BY DEF CheckShape
<1>b. GateAt("failed") \in GateRecords /\ GateAt("over") \in GateRecords /\ GateAt("agent") \in GateRecords
        /\ GateAt("done") \in GateRecords
  BY GatesAre DEF GatePlaces
<1>c. Len(commits) \in Nat /\ Len(results) \in Nat /\ Len(handoffs) \in Nat BY <1>a, LenProperties
<1>d. \A at : GateAt(at).at = at BY DEF GateAt
<1>1. ASSUME NEW change \in Changes, AgentCommits(change) PROVE CheckShape'
  <2>1. commits' \in Seq(Changes \cup {{}}) BY <1>1, <1>a, AppendProperties DEF AgentCommits
  <2> QED BY <1>1, <1>a, <2>1, ShapeKept DEF AgentCommits
<1>2. CASE AgentHandsOver
  <2> DEFINE v == [phase |-> phaseNo, author |-> Phase.role, state |-> "pending", by |-> "nobody"]
  <2>1. v \in HandoffRows BY <1>a DEF HandoffRows, Phase, Roles
  <2>2. handoffs' = Append(handoffs, v) BY <1>2 DEF AgentHandsOver
  <2> HIDE DEF v
  <2>3. handoffs' \in Seq(HandoffRows) BY <1>a, <2>1, <2>2, AppendProperties
  <2>4. UNCHANGED <<commits, phaseNo, results, failures, gate, waiving>> BY <1>2 DEF AgentHandsOver
  <2> QED BY <1>a, <2>3, <2>4, ShapeKept
<1>3. CASE BeginGate
  <2>1. UNCHANGED <<commits, phaseNo, handoffs, results, failures, waiving>> BY <1>3 DEF BeginGate
  <2>2. CASE PendingHandoffs = {}
    <3>1. gate' = GateAt("over") /\ GateAt("over").at = "over" BY <1>3, <2>2 DEF BeginGate, GateAt
    <3> QED BY <1>a, <1>b, <2>1, <3>1, ShapeKept
  <2>3. CASE PendingHandoffs # {}
    <3>1. PendingHandoffs \subseteq 1..Len(handoffs) BY <1>a, LenProperties DEF PendingHandoffs
    <3>2. \E m \in PendingHandoffs : \A k \in PendingHandoffs : k <= m BY <1>c, <2>3, <3>1, LatestExists
    <3>d. PICK h : h = CHOOSE g \in PendingHandoffs : \A k \in PendingHandoffs : k <= g OBVIOUS
    <3>h. h \in PendingHandoffs BY <3>2, <3>d, Zenon
    <3>3. h \in Nat BY <1>c, <3>1, <3>h
    <3>4. gate' = [GateAt("run") EXCEPT !.hid = h, !.names = Phase.checks, !.pos = 1, !.from = Len(results)]
      BY <1>3, <2>3, <3>d DEF BeginGate
    <3>5. Phase.checks \in Seq(CheckNames) BY <1>a, PhasesAre DEF Phase
    <3>6. GateAt("run") \in GateRecords BY GatesAre DEF GatePlaces
    <3>7. gate' \in GateRecords /\ gate'.at = "run" BY <1>c, <3>3, <3>4, <3>5, <3>6 DEF GateRecords, GateAt, NameLists
    <3> QED BY <1>a, <2>1, <3>7, ShapeKept
  <2> QED BY <2>2, <2>3
<1>4. ASSUME NEW p \in Sweep, NEW sha, StartCheck(p, sha) PROVE CheckShape'
  <2>1. /\ UNCHANGED <<commits, phaseNo, handoffs, results, failures, waiving>>
        /\ gate.at = "run" /\ sha \in {NoSha, Len(commits)}
    BY <1>4 DEF StartCheck
  <2>2. p \in Nat /\ sha \in Nat BY <1>a, <1>c, <2>1, SweepNames DEF NoSha
  <2>3. CASE gate' = GateAt("failed")
    <3>1. GateAt("failed").at = "failed" BY DEF GateAt
    <3> QED BY <1>a, <1>b, <2>1, <2>3, <3>1 DEF CheckShape
  <2>4. CASE gate' # GateAt("failed")
    <3>d. PICK c : c = NameAt(p) OBVIOUS
    <3>e. PICK t, u : t = ToolsOf(c) /\ u = {x \in Catalog[c].context : ~Excluded(c, x)} OBVIOUS
    <3>1. c \in DOMAIN Catalog BY <1>4, <2>4, <3>d DEF StartCheck, GateRaises, IsKnown
    <3>2. gate' = [gate EXCEPT !.at = "running", !.pos = p, !.sha = sha, !.tools = t, !.sees = u]
      BY <1>4, <3>1, <3>d, <3>e DEF StartCheck, IsKnown
    <3>3. t \in ToolSets BY <3>e DEF ToolsOf, ToolSets
    <3>4. u \in ContextSets BY <3>1, <3>e DEF Contexts, ContextSets
    <3>5. "running" \in GatePlaces BY DEF GatePlaces
    <3>6. gate' \in GateRecords /\ gate'.at = "running" /\ gate'.pos = p /\ gate'.names = gate.names
      <4>1. gate' = AtCheck(gate, "running", p, sha, t, u) BY <3>2 DEF AtCheck
      <4> QED BY <1>a, <2>2, <3>3, <3>4, <3>5, <4>1, GateRuns
    <3>7. Sweep' = Sweep BY <3>6 DEF Sweep
    <3> QED BY <1>a, <2>1, <3>6, <3>7 DEF CheckShape
  <2> QED BY <2>3, <2>4
<1>5. ASSUME NEW outcome, EndCheck(outcome) PROVE CheckShape'
  <2>1. UNCHANGED <<commits, phaseNo, handoffs, failures, waiving>> BY <1>5 DEF EndCheck
  <2>2. CASE outcome = "garbled"
    <3>1. GateAt("failed").at = "failed" BY DEF GateAt
    <3> QED BY <1>5, <1>a, <1>b, <2>1, <2>2, <3>1 DEF EndCheck, GateRaises, CheckShape
  <2>3. CASE outcome # "garbled"
    <3> DEFINE v == [phase |-> phaseNo, check |-> NameAt(gate.pos), verdict |-> outcome, sha |-> gate.sha]
    <3>1. results' = Append(results, v) /\ gate' = [gate EXCEPT !.at = "run", !.pos = @ + 1, !.tools = {}, !.sees = {}]
      BY <1>5, <2>3 DEF EndCheck
    <3>a. gate.at = "running" /\ gate.pos \in Sweep /\ gate.pos \in Nat /\ gate.sha \in Nat
      BY <1>5, <1>a DEF EndCheck, CheckShape, GateRecords
    <3>b. "run" \in GatePlaces /\ {} \in ContextSets /\ {} \in ToolSets /\ gate.pos + 1 \in Nat
      BY <3>a DEF GatePlaces, ContextSets, ToolSets
    <3>c. gate' = [gate EXCEPT !.at = "run", !.pos = gate.pos + 1, !.sha = gate.sha, !.tools = {}, !.sees = {}]
      BY <1>a, <3>1 DEF GateRecords
    <3>2. gate' \in GateRecords /\ gate'.at = "run"
      <4>1. gate' = AtCheck(gate, "run", gate.pos + 1, gate.sha, {}, {}) BY <3>c DEF AtCheck
      <4> QED BY <1>a, <3>a, <3>b, <4>1, GateRuns
    <3>3. outcome \in Verdicts
      BY <1>5, <2>3 DEF EndCheck, CheckOutcomes, DiffVerdict, Verdicts
    <3>4. NameAt(gate.pos) \in CheckNames BY <1>a, <3>a, SweepNames
    <3>5. v \in ResultRows BY <1>a, <3>3, <3>4 DEF ResultRows, GateRecords
    <3> HIDE DEF v
    <3>6. results' \in Seq(ResultRows) BY <1>a, <3>1, <3>5, AppendProperties
    <3> QED BY <1>a, <2>1, <3>2, <3>6, ShapeKept
  <2> QED BY <2>2, <2>3
<1>6. CASE BeginEvaluate
  <2>1. gate' \in GateRecords /\ gate'.at = "score" /\ gate'.pos = 1
    BY <1>6, <1>a DEF BeginEvaluate, GateRecords, GatePlaces
  <2> QED BY <1>6, <1>a, <2>1, ShapeKept DEF BeginEvaluate
<1>7. CASE ScoreCheck
  <2>1. UNCHANGED <<commits, phaseNo, handoffs, results, waiving>> BY <1>7 DEF ScoreCheck
  <2>d. PICK c : c = gate.names[gate.pos] OBVIOUS
  <2>g. gate.names \in Seq(CheckNames) /\ gate.pos \in Nat /\ gate.at = "score" /\ gate.pos <= Len(gate.names) /\ gate.pos >= 1
    BY <1>7, <1>a DEF ScoreCheck, CheckShape, GateRecords, NameLists
  <2>2. c \in CheckNames BY <2>d, <2>g, ElementOfSeq, LenProperties
  <2>3. gate' \in GateRecords /\ gate'.at = "score" /\ gate'.pos = gate.pos + 1
    <3>1. \/ gate' = [gate EXCEPT !.pos = gate.pos + 1]
          \/ gate' = [[gate EXCEPT !.pos = gate.pos + 1] EXCEPT !.missing = gate.missing \cup {c}]
          \/ gate' = [[gate EXCEPT !.pos = gate.pos + 1] EXCEPT !.failing = gate.failing \cup {c}]
      BY <1>7, <1>a, <2>d DEF ScoreCheck, GateRecords
    <3>2. gate.missing \cup {c} \in NameSets /\ gate.failing \cup {c} \in NameSets /\ gate.pos + 1 \in Nat
      BY <1>a, <2>2, <2>g DEF GateRecords, NameSets
    <3> QED BY <1>a, <2>g, <3>1, <3>2 DEF GateRecords
  <2>4. failures' \in Seq(FailureRows) /\ DOMAIN failures \subseteq DOMAIN failures'
    <3>1. CASE failures' = failures BY <1>a, <3>1
    <3>2. CASE failures' # failures
      <4>d. PICK r : r = results[LatestResult(c)] OBVIOUS
      <4>e. PICK v : v = [check |-> c, sha |-> r.sha, severity |-> "required", waived |-> FALSE] OBVIOUS
      <4>1. ResultsOf(c) # {} /\ failures' = Append(failures, v) BY <1>7, <2>d, <3>2, <4>d, <4>e DEF ScoreCheck
      <4>2. LatestResult(c) \in DOMAIN results BY <1>a, <4>1, LatestIs
      <4>3. r \in ResultRows BY <1>a, <4>2, <4>d, LenProperties
      <4>4. v \in FailureRows BY <2>2, <4>3, <4>e DEF ResultRows, FailureRows
      <4> QED BY <1>a, <4>1, <4>4, AppendProperties, LenProperties
    <3> QED BY <3>1, <3>2
  <2> QED BY <1>a, <2>1, <2>3, <2>4, <2>g, ShapeKept
<1>8. CASE GateVerdict
  <2>1. PICK at \in {"passed", "bounce"} : gate' = [gate EXCEPT !.at = at] BY <1>8 DEF GateVerdict
  <2>2. gate' \in GateRecords /\ gate'.at # "running" BY <1>a, <2>1 DEF GateRecords, GatePlaces
  <2> QED BY <1>8, <1>a, <2>2, ShapeKept DEF GateVerdict
<1>9. ASSUME NEW h, NEW state \in {"accepted", "rejected"}, Judged(h, state, "harness"),
             UNCHANGED <<commits, phaseNo, results, failures, waiving>>
      PROVE  CheckShape'
  <2>1. \/ gate' = GateAt("failed") /\ handoffs' = handoffs
        \/ gate' = GateAt("over") /\ handoffs' = [handoffs EXCEPT ![h].state = state, ![h].by = "harness"]
    BY <1>9 DEF Judged, GateRaises
  <2>2. gate' \in GateRecords /\ gate'.at \notin {"running", "score"} BY <1>b, <1>d, <2>1
  <2>3. handoffs' \in Seq(HandoffRows)
    <3>1. CASE handoffs' = handoffs BY <1>a, <3>1
    <3>2. CASE handoffs' # handoffs
      <4>d. PICK v : v = [[handoffs[h] EXCEPT !.state = state] EXCEPT !.by = "harness"] OBVIOUS
      <4>1. h \in DOMAIN handoffs => handoffs[h] \in HandoffRows BY <1>a, LenProperties
      <4>2. h \in DOMAIN handoffs => v \in HandoffRows BY <4>1, <4>d DEF HandoffRows
      <4>3. handoffs' = [handoffs EXCEPT ![h] = v] BY <2>1, <3>2, <4>d
      <4> QED BY <1>a, <4>2, <4>3, EntryReplaced
    <3> QED BY <3>1, <3>2
  <2> QED BY <1>9, <1>a, <2>2, <2>3, ShapeKept
<1>10. CASE BounceHandoff BY <1>9, <1>10 DEF BounceHandoff
<1>11. CASE GateAccepts BY <1>9, <1>11 DEF GateAccepts
<1>12. ASSUME NEW at \in {"over", "agent", "done"}, gate' = GateAt(at), phaseNo' \in DOMAIN WfPhases,
              UNCHANGED <<commits, handoffs, results, failures, waiving>>
       PROVE  CheckShape'
  <2>1. gate' \in GateRecords /\ gate'.at \notin {"running", "score"} BY <1>12, <1>b, <1>d
  <2> QED BY <1>12, <1>a, <2>1, ShapeKept
<1>13. CASE SpawnEvaluators BY <1>12, <1>13, <1>a DEF SpawnEvaluators
<1>14. CASE PhaseEnds
  <2>1. phaseNo' \in DOMAIN WfPhases BY <1>14, <1>a, PhasesAre DEF PhaseEnds
  <2> QED BY <1>12, <1>14, <2>1 DEF PhaseEnds
<1>15. CASE ReopenFailed BY <1>12, <1>15, <1>a DEF ReopenFailed
<1>16. CASE FinishWaive
  <2>d. PICK v : v = [failures[waiving] EXCEPT !.waived = TRUE] OBVIOUS
  <2>1. failures' = [failures EXCEPT ![waiving] = v] /\ waiving' = 0 BY <1>16, <2>d DEF FinishWaive
  <2>2. waiving \in DOMAIN failures => failures[waiving] \in FailureRows BY <1>a, LenProperties
  <2>3. waiving \in DOMAIN failures => v \in FailureRows BY <2>d, <2>2 DEF FailureRows
  <2>4. failures' \in Seq(FailureRows) BY <1>a, <2>1, <2>3, EntryReplaced
  <2> QED BY <1>16, <1>a, <2>1, <2>4, ShapeKept DEF FinishWaive
<1>17. ASSUME NEW f \in DOMAIN failures, BeginWaive(f) PROVE CheckShape'
  BY <1>17, <1>a, ShapeKept DEF BeginWaive
<1>18. ASSUME NEW r \in Roles, SpawnQaResponder(r) \/ ResponderStarts(r) \/ ResponderEnds(r) PROVE CheckShape'
  BY <1>18, <1>a, ShapeKept DEF SpawnQaResponder, ResponderStarts, ResponderEnds
<1>19. ASSUME NEW r \in Roles, NEW h \in DOMAIN handoffs, NEW state \in {"accepted", "rejected"},
              AgentJudges(r, h, state)
       PROVE  CheckShape'
  <2>d. PICK v : v = [[handoffs[h] EXCEPT !.state = state] EXCEPT !.by = IF state = "accepted" THEN r ELSE "nobody"]
    OBVIOUS
  <2>1. v \in HandoffRows BY <2>d, ResolvesToRoles
  <2>2. handoffs' = [handoffs EXCEPT ![h] = v] BY <1>19, <2>d DEF AgentJudges
  <2>3. handoffs' \in Seq(HandoffRows) BY <1>a, <2>1, <2>2, EntryReplaced
  <2>4. UNCHANGED <<commits, phaseNo, results, failures, gate, waiving>> BY <1>19 DEF AgentJudges
  <2> QED BY <1>a, <2>3, <2>4, ShapeKept
<1>20. CASE UNCHANGED checkVars BY <1>20, <1>a, ShapeKept DEF checkVars
<1> QED BY <1>1, <1>2, <1>3, <1>4, <1>5, <1>6, <1>7, <1>8, <1>10, <1>11, <1>13, <1>14, <1>15, <1>16, <1>17,
           <1>18, <1>19, <1>20 DEF CheckNext

\* The check has a result of this gate; its result holds nothing against the handoff.
RunFor(c) == \E i \in ResultsOf(c) : i > gate.from
CleanResult(r) ==
  \/ r.verdict = "pass"
  \/ r.sha # NoSha /\ \E f \in FailuresOf(r.check) : failures[f].waived /\ failures[f].sha = r.sha
CleanCheck(c) == Required(c) => CleanResult(results[LatestResult(c)])
GatedByHarness == \A h \in DOMAIN handoffs : handoffs[h].state = "accepted" /\ handoffs[h].by = "harness" => h \in gatePassed

PassInv ==
  /\ gate.at \in {"run", "running"} =>
       gate.from <= Len(results) /\ \A q \in Sweep : q < gate.pos /\ InOrder(q) => RunFor(NameAt(q))
  /\ gate.at \in {"score", "passed"} => \A i \in DOMAIN gate.names : RunFor(gate.names[i])
  /\ gate.at = "score" => \A i \in DOMAIN gate.names :
       i < gate.pos => gate.names[i] \in gate.failing \cup gate.missing \/ CleanCheck(gate.names[i])
  /\ gate.at = "passed" => gate.hid \in gatePassed /\ \A i \in DOMAIN gate.names : CleanCheck(gate.names[i])
  /\ GatedByHarness

(* LEMMA: the invariant gives what was promised of a handoff that passed.    *)
LEMMA PassIsChecked == CheckShape /\ PassInv => PassMeansChecked
<1> SUFFICES ASSUME CheckShape, PassInv PROVE PassMeansChecked OBVIOUS
<1>1. ASSUME gate.at = "passed", NEW i \in DOMAIN gate.names, Required(gate.names[i])
      PROVE  LatestResult(gate.names[i]) > gate.from /\ CleanResult(results[LatestResult(gate.names[i])])
  <2>d. PICK c : c = gate.names[i] OBVIOUS
  <2>1. RunFor(c) /\ CleanResult(results[LatestResult(c)]) BY <1>1, <2>d DEF PassInv, CleanCheck
  <2>2. PICK k \in ResultsOf(c) : k > gate.from BY <2>1 DEF RunFor
  <2>3. LatestResult(c) \in DOMAIN results /\ k <= LatestResult(c) BY <2>2, LatestIs DEF CheckShape
  <2>4. k \in Nat /\ LatestResult(c) \in Nat /\ gate.from \in Nat
    BY <2>2, <2>3, LenProperties DEF CheckShape, ResultsOf, GateRecords
  <2>5. LatestResult(c) > gate.from BY <2>2, <2>3, <2>4
  <2> QED BY <2>1, <2>5, <2>d
<1> QED BY <1>1 DEF PassMeansChecked, CleanResult, PassInv, GatedByHarness

(* LEMMA: the gate has not begun.                                            *)
LEMMA PassInit == CheckInit => PassInv
<1>1. CheckInit => gate.at = "agent" /\ DOMAIN handoffs = {} BY DEF CheckInit, GateAt
<1> QED BY <1>1 DEF PassInv, GatedByHarness

(* LEMMA: results stay clean while failures only come and are waived. *)
Grown == \A f \in DOMAIN failures :
  /\ f \in DOMAIN failures' /\ failures'[f].check = failures[f].check /\ failures'[f].sha = failures[f].sha
  /\ failures[f].waived => failures'[f].waived

(* LEMMA: a check that was clean stays so while its results do: a waiver is  *)
(* not taken back.                                                           *)
LEMMA CleanStays ==
  ASSUME Grown, UNCHANGED <<results, phaseNo>>, NEW c, CleanCheck(c)
  PROVE  CleanCheck(c)'
<1>1. LatestResult(c)' = LatestResult(c) BY DEF LatestResult, ResultsOf
<1>d. PICK r : r = results[LatestResult(c)] OBVIOUS
<1>2. CleanResult(r) => CleanResult(r)' BY DEF CleanResult, Grown, FailuresOf
<1>3. results'[LatestResult(c)'] = r BY <1>1, <1>d
<1> QED BY <1>2, <1>3, <1>d DEF CleanCheck, Required, IsKnown

(* LEMMA: the gate stays where it is, or is at none of its four places. *)
LEMMA PassKept ==
  ASSUME PassInv, Grown, UNCHANGED <<results, phaseNo, gate>>, gatePassed \subseteq gatePassed', GatedByHarness'
  PROVE  PassInv'
<1>1. \A c : RunFor(c)' <=> RunFor(c) BY DEF RunFor, ResultsOf
<1>2. Sweep' = Sweep /\ \A q : (InOrder(q)' <=> InOrder(q)) /\ NameAt(q)' = NameAt(q)
  BY DEF Sweep, InOrder, NameAt, IsScripted, IsAgentCheck, IsKnown
<1>3. gate'.at \in {"run", "running"} =>
        gate'.from <= Len(results') /\ \A q \in Sweep' : q < gate'.pos /\ InOrder(q)' => RunFor(NameAt(q))'
  BY <1>2 DEF PassInv, RunFor, ResultsOf
<1> QED BY <1>1, <1>3, CleanStays DEF PassInv

(* LEMMA: a gate that has left its sweep without passing owes nothing.       *)
LEMMA PassLeft ==
  ASSUME gate'.at \notin {"run", "running", "score", "passed"}, GatedByHarness'
  PROVE  PassInv'
  BY DEF PassInv

(* LEMMA: each step of the sweep and the scoring adds what the pass rests    *)
(* on.                                                                       *)
LEMMA PassStep ==
  ASSUME CheckShape, PassInv, [CheckNext]_checkVars
  PROVE  PassInv'
<1>a. /\ handoffs \in Seq(HandoffRows) /\ results \in Seq(ResultRows) /\ failures \in Seq(FailureRows)
      /\ gate \in GateRecords /\ waiving \in {0} \cup DOMAIN failures
  BY DEF CheckShape
<1>b. Len(results) \in Nat /\ DOMAIN results = 1..Len(results) /\ Len(failures) \in Nat /\ DOMAIN failures = 1..Len(failures)
  BY <1>a, LenProperties
<1>c. gate.names \in Seq(CheckNames) /\ gate.pos \in Nat /\ gate.from \in Nat /\ Len(gate.names) \in Nat
        /\ DOMAIN gate.names = 1..Len(gate.names)
  BY <1>a, LenProperties DEF GateRecords, NameLists
<1>d. \A at : GateAt(at).at = at BY DEF GateAt
<1>e. failures' = failures => Grown BY DEF Grown
<1>f. UNCHANGED <<handoffs, gatePassed>> => GatedByHarness' BY DEF PassInv, GatedByHarness
<1>1. ASSUME UNCHANGED <<phaseNo, handoffs, results, failures, gate, gatePassed>> PROVE PassInv'
  BY <1>1, <1>e, <1>f, PassKept
<1>2. ASSUME NEW change, AgentCommits(change) PROVE PassInv' BY <1>1, <1>2 DEF AgentCommits
<1>3. CASE AgentHandsOver
  <2> DEFINE v == [phase |-> phaseNo, author |-> Phase.role, state |-> "pending", by |-> "nobody"]
  <2>1. handoffs' = Append(handoffs, v) /\ UNCHANGED <<phaseNo, results, failures, gate, gatePassed>>
    BY <1>3 DEF AgentHandsOver
  <2>2. v.state = "pending" OBVIOUS
  <2>3. v \in HandoffRows BY DEF HandoffRows, Phase, Roles, CheckShape
  <2> HIDE DEF v
  <2>4. DOMAIN handoffs' = 1..Len(handoffs) + 1 /\ DOMAIN handoffs = 1..Len(handoffs) /\ handoffs'[Len(handoffs) + 1] = v
        /\ \A h \in 1..Len(handoffs) : handoffs'[h] = handoffs[h]
    BY <1>a, <2>1, <2>3, AppendProperties, LenProperties
  <2>5. GatedByHarness'
    <3>1. ASSUME NEW h \in DOMAIN handoffs' PROVE h \in DOMAIN handoffs \/ handoffs'[h].state = "pending"
      BY <1>a, <2>2, <2>4, LenProperties
    <3> QED BY <2>1, <2>4, <3>1 DEF GatedByHarness, PassInv
  <2> QED BY <2>1, <2>5, <1>e, PassKept
<1>4. CASE BeginGate
  <2>1. UNCHANGED <<handoffs, results, gatePassed>> BY <1>4 DEF BeginGate
  <2>2. CASE PendingHandoffs = {}
    <3>1. gate'.at = "over" BY <1>4, <1>d, <2>2 DEF BeginGate
    <3> QED BY <1>f, <2>1, <3>1, PassLeft
  <2>3. CASE PendingHandoffs # {}
    <3>1. PICK h, s : gate' = [GateAt("run") EXCEPT !.hid = h, !.names = s, !.pos = 1, !.from = Len(results)]
      BY <1>4, <2>3 DEF BeginGate
    <3>2. gate'.at = "run" /\ gate'.pos = 1 /\ gate'.from = Len(results) BY <3>1 DEF GateAt
    <3>3. \A q \in Sweep' : ~(q < 1) BY <3>2 DEF Sweep
    <3> QED BY <1>b, <1>f, <2>1, <3>2, <3>3 DEF PassInv
  <2> QED BY <2>2, <2>3
<1>5. ASSUME NEW p \in Sweep, NEW sha, StartCheck(p, sha) PROVE PassInv'
  <2>1. UNCHANGED <<phaseNo, handoffs, results, gatePassed>> /\ gate.at = "run" /\ SkippedTo(p)
    BY <1>5 DEF StartCheck
  <2>2. CASE gate' = GateAt("failed")
    <3>1. gate'.at = "failed" BY <1>d, <2>2
    <3> QED BY <1>f, <2>1, <3>1, PassLeft
  <2>3. CASE gate' # GateAt("failed")
    <3>1. PICK t, u : gate' = [gate EXCEPT !.at = "running", !.pos = p, !.sha = sha, !.tools = t, !.sees = u]
      BY <1>5, <2>3 DEF StartCheck, GateRaises
    <3>2. gate'.at = "running" /\ gate'.pos = p /\ gate'.names = gate.names /\ gate'.from = gate.from
      BY <1>a, <3>1 DEF GateRecords
    <3>3. Sweep' = Sweep /\ \A q : (InOrder(q)' <=> InOrder(q)) /\ NameAt(q)' = NameAt(q) /\ (RunFor(NameAt(q)) => RunFor(NameAt(q))')
      BY <2>1, <3>2 DEF Sweep, InOrder, NameAt, IsScripted, IsAgentCheck, IsKnown, RunFor, ResultsOf
    <3>4. ASSUME NEW q \in Sweep, q < p, InOrder(q) PROVE RunFor(NameAt(q))
      <4>1. q < gate.pos
        <5>1. q \in Nat /\ p \in Nat BY <1>a, SweepNames
        <5> QED BY <1>c, <2>1, <3>4, <5>1 DEF SkippedTo
      <4> QED BY <2>1, <3>4, <4>1 DEF PassInv
    <3>5. gate.from <= Len(results) BY <2>1 DEF PassInv
    <3> QED BY <1>f, <2>1, <3>2, <3>3, <3>4, <3>5 DEF PassInv
  <2> QED BY <2>2, <2>3
<1>6. ASSUME NEW outcome, EndCheck(outcome) PROVE PassInv'
  <2>1. UNCHANGED <<phaseNo, handoffs, gatePassed>> /\ gate.at = "running" BY <1>6 DEF EndCheck
  <2>2. CASE outcome = "garbled"
    <3>1. gate'.at = "failed" BY <1>6, <1>d, <2>2 DEF EndCheck, GateRaises
    <3> QED BY <1>f, <2>1, <3>1, PassLeft
  <2>3. CASE outcome # "garbled"
    <3>d. PICK v : v = [phase |-> phaseNo, check |-> NameAt(gate.pos), verdict |-> outcome, sha |-> gate.sha] OBVIOUS
    <3>1. results' = Append(results, v) /\ gate' = [gate EXCEPT !.at = "run", !.pos = @ + 1, !.tools = {}, !.sees = {}]
      BY <1>6, <2>3, <3>d DEF EndCheck
    <3>2. gate'.at = "run" /\ gate'.pos = gate.pos + 1 /\ gate'.names = gate.names /\ gate'.from = gate.from
      BY <1>a, <3>1 DEF GateRecords
    <3>3. gate.from <= Len(results) /\ \A q \in Sweep : q < gate.pos /\ InOrder(q) => RunFor(NameAt(q))
      BY <2>1 DEF PassInv
    <3>4. /\ Len(results') = Len(results) + 1 /\ DOMAIN results' = 1..Len(results) + 1 /\ results'[Len(results) + 1] = v
          /\ \A i \in 1..Len(results) : results'[i] = results[i]
      <4>1. results' \in Seq(ResultRows) BY CheckShapeStep DEF CheckShape
      <4>2. Len(results') = Len(results) + 1 BY <1>a, <3>1
      <4> QED BY <1>a, <1>b, <3>1, <4>1, <4>2, LenProperties
    <3>5. Sweep' = Sweep /\ \A q : (InOrder(q)' <=> InOrder(q)) /\ NameAt(q)' = NameAt(q)
      BY <3>2 DEF Sweep, InOrder, NameAt, IsScripted, IsAgentCheck, IsKnown
    <3>6. \A c : RunFor(c) => RunFor(c)' BY <1>b, <2>1, <3>2, <3>4 DEF RunFor, ResultsOf
    <3>c. PICK c : c = NameAt(gate.pos) OBVIOUS
    <3>7. RunFor(c)'
      <4>1. v.check = c /\ v.phase = phaseNo BY <3>c, <3>d
      <4>2. Len(results) + 1 \in ResultsOf(c)' BY <1>b, <2>1, <3>4, <4>1 DEF ResultsOf
      <4> QED BY <1>b, <1>c, <3>2, <3>3, <4>2 DEF RunFor
    <3>8. ASSUME NEW q \in Sweep, q < gate.pos + 1, InOrder(q) PROVE RunFor(NameAt(q))'
      <4>d. PICK d : d = NameAt(q) OBVIOUS
      <4>1. q \in Nat BY <1>a, SweepNames
      <4>2. q < gate.pos \/ q = gate.pos BY <1>c, <3>8, <4>1
      <4>3. RunFor(d)' BY <3>3, <3>6, <3>7, <3>8, <3>c, <4>2, <4>d
      <4> QED BY <3>5, <4>3, <4>d
    <3> QED BY <1>b, <1>c, <1>f, <2>1, <3>2, <3>3, <3>4, <3>5, <3>8 DEF PassInv
  <2> QED BY <2>2, <2>3
<1>7. CASE BeginEvaluate
  <2>1. /\ UNCHANGED <<phaseNo, handoffs, results, gatePassed>> /\ gate.at = "run" /\ SkippedTo(2 * Len(gate.names) + 1)
        /\ gate' = [gate EXCEPT !.at = "score", !.pos = 1]
    BY <1>7 DEF BeginEvaluate
  <2>2. gate'.at = "score" /\ gate'.pos = 1 /\ gate'.names = gate.names /\ gate'.from = gate.from
    BY <1>a, <2>1 DEF GateRecords
  <2>3. ASSUME NEW q \in Sweep, InOrder(q) PROVE RunFor(NameAt(q))
    <3>1. q \in Nat /\ q <= 2 * Len(gate.names) BY <1>a, SweepNames
    <3>2. CASE q < gate.pos BY <2>1, <2>3, <3>2 DEF PassInv
    <3>3. CASE ~(q < gate.pos)
      <4>1. q \in gate.pos..2 * Len(gate.names) + 1 - 1 BY <1>c, <3>1, <3>3
      <4> QED BY <2>1, <2>3, <4>1 DEF SkippedTo
    <3> QED BY <3>2, <3>3
  <2>4. ASSUME NEW i \in DOMAIN gate.names PROVE RunFor(gate.names[i])
    <3>d. PICK n \in Nat : n = Len(gate.names) BY <1>c
    <3>1. i \in 1..n BY <1>c, <3>d
    <3>2. 1 \in Sweep BY <3>1, <3>d DEF Sweep
    <3>3. i \in Sweep /\ n + i \in Sweep /\ NameAt(i) = gate.names[i] /\ NameAt(n + i) = gate.names[i]
      BY <1>a, <3>1, <3>2, <3>d, SweepNames
    <3>4. i <= n /\ ~(n + i <= n) BY <3>1
    <3>5. InOrder(i) \/ InOrder(n + i) BY <3>3, <3>4, <3>d DEF InOrder, IsAgentCheck
    <3> QED BY <2>3, <3>3, <3>5
  <2>5. \A c : RunFor(c) => RunFor(c)' BY <2>1, <2>2 DEF RunFor, ResultsOf
  <2>6. \A i \in DOMAIN gate.names : ~(i < 1) BY <1>c
  <2> QED BY <1>f, <2>1, <2>2, <2>4, <2>5, <2>6 DEF PassInv
<1>8. CASE ScoreCheck
  <2>1. UNCHANGED <<phaseNo, handoffs, results, gatePassed>> /\ gate.at = "score" /\ gate.pos <= Len(gate.names)
    BY <1>8 DEF ScoreCheck
  <2>d. PICK c : c = gate.names[gate.pos] OBVIOUS
  <2>e. PICK r : r = results[LatestResult(c)] OBVIOUS
  <2>2. /\ gate'.at = "score" /\ gate'.pos = gate.pos + 1 /\ gate'.names = gate.names /\ gate'.from = gate.from
        /\ gate.failing \cup gate.missing \subseteq gate'.failing \cup gate'.missing
        /\ \/ ~Required(c) /\ failures' = failures
           \/ c \in gate'.failing \cup gate'.missing /\ failures' = failures
           \/ NotBlocking(r) /\ failures' = failures
           \/ /\ c \in gate'.failing \cup gate'.missing
              /\ failures' = Append(failures, [check |-> c, sha |-> r.sha, severity |-> "required", waived |-> FALSE])
    <3>g. DOMAIN gate = {"at", "hid", "names", "pos", "sha", "failing", "missing", "from", "tools", "sees"}
      BY <1>a DEF GateRecords
    <3>n. PICK g : g = [gate EXCEPT !.pos = @ + 1] OBVIOUS
    <3>h. /\ DOMAIN g = DOMAIN gate /\ g.at = gate.at /\ g.pos = gate.pos + 1 /\ g.names = gate.names /\ g.from = gate.from
          /\ g.failing = gate.failing /\ g.missing = gate.missing
      BY <3>g, <3>n
    <3>1. CASE ~Required(c)
      <4>1. gate' = g /\ failures' = failures BY <1>8, <2>d, <3>1, <3>n DEF ScoreCheck
      <4> QED BY <2>1, <3>1, <3>h, <4>1
    <3>2. CASE Required(c) /\ ResultsOf(c) = {}
      <4>1. gate' = [g EXCEPT !.missing = @ \cup {c}] /\ failures' = failures
        BY <1>8, <2>d, <3>2, <3>n DEF ScoreCheck
      <4> QED BY <2>1, <3>g, <3>h, <4>1
    <3>3. CASE Required(c) /\ ResultsOf(c) # {} /\ NotBlocking(r)
      <4>1. gate' = g /\ failures' = failures BY <1>8, <2>d, <2>e, <3>3, <3>n DEF ScoreCheck
      <4> QED BY <2>1, <3>3, <3>h, <4>1
    <3>4. CASE Required(c) /\ ResultsOf(c) # {} /\ ~NotBlocking(r)
      <4>1. /\ gate' = [g EXCEPT !.failing = @ \cup {c}]
            /\ failures' = Append(failures, [check |-> c, sha |-> r.sha, severity |-> "required", waived |-> FALSE])
        BY <1>8, <2>d, <2>e, <3>4, <3>n DEF ScoreCheck
      <4> QED BY <2>1, <3>g, <3>h, <4>1
    <3> QED BY <3>1, <3>2, <3>3, <3>4
  <2>3. Grown
    <3>1. CASE failures' = failures BY <1>e, <3>1
    <3>2. CASE failures' # failures
      <4>d. PICK v : v = [check |-> c, sha |-> r.sha, severity |-> "required", waived |-> FALSE] OBVIOUS
      <4>1. failures' = Append(failures, v) BY <2>2, <3>2, <4>d
      <4>2. failures' \in Seq(FailureRows) /\ Len(failures') = Len(failures) + 1
        BY <1>a, <4>1, CheckShapeStep DEF CheckShape
      <4>3. DOMAIN failures' = 1..Len(failures) + 1 BY <4>2, LenProperties
      <4>4. \A f \in 1..Len(failures) : failures'[f] = failures[f] BY <1>a, <4>1
      <4> QED BY <1>b, <4>3, <4>4 DEF Grown
    <3> QED BY <3>1, <3>2
  <2>4. \A x : CleanCheck(x) => CleanCheck(x)' BY <2>1, <2>3, CleanStays
  <2>5. \A x : RunFor(x) => RunFor(x)' BY <2>1, <2>2 DEF RunFor, ResultsOf
  <2>p. gate.pos \in DOMAIN gate.names BY <1>c, <2>1 DEF CheckShape
  <2>6. c \in gate'.failing \cup gate'.missing \/ CleanCheck(c)
    <3>1. CASE ~Required(c) BY <3>1 DEF CleanCheck
    <3>2. CASE NotBlocking(r) /\ c \notin gate'.failing \cup gate'.missing /\ Required(c)
      <4>1. RunFor(c) BY <2>1, <2>d, <2>p DEF PassInv
      <4>2. r.check = c BY <1>a, <2>e, <4>1, LatestIs DEF RunFor
      <4>3. FailuresOf(c) # {} => LatestFailure(c) \in FailuresOf(c)
        <5>1. FailuresOf(c) \subseteq 1..Len(failures) BY <1>b DEF FailuresOf
        <5>2. FailuresOf(c) # {} => \E m \in FailuresOf(c) : \A k \in FailuresOf(c) : k <= m
          BY <1>b, <5>1, LatestExists
        <5> QED BY <5>2, Zenon DEF LatestFailure
      <4>4. CleanResult(r) BY <3>2, <4>2, <4>3 DEF NotBlocking, WaivedForResult, CleanResult
      <4> QED BY <2>e, <4>4 DEF CleanCheck
    <3> QED BY <2>2, <3>1, <3>2
  <2>7. ASSUME NEW i \in DOMAIN gate.names, i < gate.pos + 1
        PROVE  gate.names[i] \in gate'.failing \cup gate'.missing \/ CleanCheck(gate.names[i])
    <3>1. CASE i < gate.pos BY <2>1, <2>2, <3>1 DEF PassInv
    <3>2. CASE ~(i < gate.pos)
      <4>1. i = gate.pos BY <1>c, <2>7, <3>2
      <4> QED BY <2>6, <2>d, <4>1
    <3> QED BY <3>1, <3>2
  <2>8. ASSUME NEW i \in DOMAIN gate'.names
        PROVE  RunFor(gate.names[i])' /\ (i < gate'.pos => (gate.names[i] \in gate.failing \cup gate.missing \/ CleanCheck(gate.names[i]))')
    <3>d. PICK x : x = gate.names[i] OBVIOUS
    <3>1. x = gate'.names[i] /\ i \in DOMAIN gate.names BY <2>2, <3>d
    <3>2. RunFor(x)' BY <2>1, <2>5, <3>1, <3>d DEF PassInv
    <3>3. i < gate'.pos => x \in gate'.failing \cup gate'.missing \/ CleanCheck(x)' BY <2>2, <2>4, <2>7, <3>1, <3>d
    <3> QED BY <3>1, <3>2, <3>3
  <2> QED BY <1>f, <2>1, <2>2, <2>8 DEF PassInv
<1>9. CASE GateVerdict
  <2>1. UNCHANGED <<phaseNo, handoffs, results, failures>> /\ gate.at = "score" /\ gate.pos > Len(gate.names)
    BY <1>9 DEF GateVerdict
  <2>2. CASE gate.failing = {} /\ gate.missing = {}
    <3>1. gate' = [gate EXCEPT !.at = "passed"] /\ gatePassed' = gatePassed \cup {gate.hid} BY <1>9, <2>2 DEF GateVerdict
    <3>2. gate'.at = "passed" /\ gate'.names = gate.names /\ gate'.from = gate.from /\ gate'.hid = gate.hid
      BY <1>a, <3>1 DEF GateRecords
    <3>3. \A i \in DOMAIN gate.names : RunFor(gate.names[i]) /\ CleanCheck(gate.names[i])
      BY <1>c, <2>1, <2>2 DEF PassInv
    <3>4. \A x : (RunFor(x) => RunFor(x)') /\ (CleanCheck(x) => CleanCheck(x)')
      BY <1>e, <2>1, <3>2, CleanStays DEF RunFor, ResultsOf
    <3>5. GatedByHarness' BY <2>1, <3>1 DEF GatedByHarness, PassInv
    <3>6. ASSUME NEW i \in DOMAIN gate'.names PROVE RunFor(gate.names[i])' /\ CleanCheck(gate.names[i])'
      <4>d. PICK x : x = gate.names[i] OBVIOUS
      <4>1. x = gate'.names[i] /\ i \in DOMAIN gate.names BY <3>2, <4>d
      <4>2. RunFor(x)' /\ CleanCheck(x)' BY <3>3, <3>4, <4>1, <4>d
      <4> QED BY <4>1, <4>2
    <3> QED BY <3>1, <3>2, <3>5, <3>6 DEF PassInv
  <2>3. CASE ~(gate.failing = {} /\ gate.missing = {})
    <3>1. gate' = [gate EXCEPT !.at = "bounce"] /\ gatePassed' = gatePassed BY <1>9, <2>3 DEF GateVerdict
    <3>2. gate'.at = "bounce" BY <1>a, <3>1 DEF GateRecords
    <3> QED BY <1>f, <2>1, <3>1, <3>2, PassLeft
  <2> QED BY <2>2, <2>3
<1>10. CASE BounceHandoff
  <2>1. /\ gate'.at \in {"failed", "over"} /\ gatePassed' = gatePassed
        /\ \/ handoffs' = handoffs
           \/ handoffs' = [handoffs EXCEPT ![gate.hid].state = "rejected", ![gate.hid].by = "harness"]
    BY <1>10, <1>d DEF BounceHandoff, Judged, GateRaises
  <2>2. GatedByHarness'
    <3>1. CASE handoffs' = handoffs BY <1>f, <2>1, <3>1
    <3>2. CASE handoffs' # handoffs
      <4>1. ASSUME NEW h \in DOMAIN handoffs'
            PROVE  h \in DOMAIN handoffs /\ (handoffs'[h] = handoffs[h] \/ handoffs'[h].state = "rejected")
        <5>1. h \in DOMAIN handoffs BY <2>1, <3>2
        <5>2. handoffs[h] \in HandoffRows BY <1>a, <5>1, LenProperties
        <5> QED BY <2>1, <3>2, <5>1, <5>2 DEF HandoffRows
      <4> QED BY <2>1, <4>1 DEF GatedByHarness, PassInv
    <3> QED BY <3>1, <3>2
  <2> QED BY <2>1, <2>2, PassLeft
<1>11. CASE GateAccepts
  <2>1. /\ gate.at = "passed" /\ gate'.at \in {"failed", "over"} /\ gatePassed' = gatePassed
        /\ \/ handoffs' = handoffs
           \/ handoffs' = [handoffs EXCEPT ![gate.hid].state = "accepted", ![gate.hid].by = "harness"]
    BY <1>11, <1>d DEF GateAccepts, Judged, GateRaises
  <2>2. GatedByHarness'
    <3>1. \A h \in DOMAIN handoffs' : h \in DOMAIN handoffs /\ (handoffs'[h] = handoffs[h] \/ h = gate.hid) BY <2>1
    <3>2. gate.hid \in gatePassed BY <2>1 DEF PassInv
    <3> QED BY <2>1, <3>1, <3>2 DEF GatedByHarness, PassInv
  <2> QED BY <2>1, <2>2, PassLeft
<1>12. ASSUME NEW at \in {"over", "agent", "done"}, gate' = GateAt(at), UNCHANGED <<handoffs, gatePassed>> PROVE PassInv'
  <2>1. gate'.at = at BY <1>12, <1>d
  <2> QED BY <1>12, <1>f, <2>1, PassLeft
<1>13. CASE SpawnEvaluators BY <1>12, <1>13 DEF SpawnEvaluators
<1>14. CASE PhaseEnds BY <1>12, <1>14 DEF PhaseEnds
<1>15. CASE ReopenFailed BY <1>12, <1>15 DEF ReopenFailed
<1>16. CASE FinishWaive
  <2>1. failures' = [failures EXCEPT ![waiving].waived = TRUE] /\ UNCHANGED <<phaseNo, handoffs, results, gate, gatePassed>>
    BY <1>16 DEF FinishWaive
  <2>2. Grown
    <3>1. \A f \in DOMAIN failures : failures[f] \in FailureRows BY <1>a, LenProperties
    <3> QED BY <2>1, <3>1 DEF Grown, FailureRows
  <2> QED BY <1>f, <2>1, <2>2, PassKept
<1>17. ASSUME NEW f, BeginWaive(f) PROVE PassInv' BY <1>1, <1>17 DEF BeginWaive
<1>18. ASSUME NEW r, SpawnQaResponder(r) \/ ResponderStarts(r) \/ ResponderEnds(r) PROVE PassInv'
  BY <1>1, <1>18 DEF SpawnQaResponder, ResponderStarts, ResponderEnds
<1>19. ASSUME NEW r \in Roles, NEW h \in DOMAIN handoffs, NEW state \in {"accepted", "rejected"},
              AgentJudges(r, h, state)
       PROVE  PassInv'
  <2>1. /\ handoffs' = [handoffs EXCEPT ![h].state = state, ![h].by = IF state = "accepted" THEN r ELSE "nobody"]
        /\ UNCHANGED <<phaseNo, results, failures, gate, gatePassed>>
    BY <1>19 DEF AgentJudges
  <2>2. r # "harness" BY ChecksAssumption DEF Roles
  <2>3. ASSUME NEW k \in DOMAIN handoffs'
        PROVE  k \in DOMAIN handoffs /\ (handoffs'[k] = handoffs[k] \/ handoffs'[k].by # "harness")
    <3>1. k \in DOMAIN handoffs BY <2>1
    <3>2. handoffs[k] \in HandoffRows BY <1>a, <3>1, LenProperties
    <3> QED BY <2>1, <2>2, <3>1, <3>2 DEF HandoffRows
  <2>c. gatePassed' = gatePassed /\ GatedByHarness BY <2>1 DEF PassInv
  <2>4. GatedByHarness' BY <2>3, <2>c DEF GatedByHarness
  <2> QED BY <1>e, <2>1, <2>4, PassKept
<1>20. CASE UNCHANGED checkVars BY <1>1, <1>20 DEF checkVars
<1> QED BY <1>2, <1>3, <1>4, <1>5, <1>6, <1>7, <1>8, <1>9, <1>10, <1>11, <1>13, <1>14, <1>15, <1>16, <1>17,
           <1>18, <1>19, <1>20 DEF CheckNext

(* THEOREM: a handoff passes the gate only over required checks that were    *)
(* run for it and passed, or failed and were waived for that very commit;     *)
(* the harness accepts no other.                                              *)
THEOREM PassedIsChecked == CheckSpec => []PassMeansChecked
<1> QED BY PassIsChecked, CheckInitShape, CheckShapeStep, PassInit, PassStep, PTL DEF CheckSpec
=============================================================================
