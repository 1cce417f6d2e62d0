------------------------------ MODULE Measures ------------------------------
(***************************************************************************)
(* What the project measures about itself and how the measures feed back:   *)
(* the calibration samples of finished agents and the envelopes made of      *)
(* them, the Quartermaster's briefing over the analytics events and the       *)
(* thresholds the operator's feedback moves, and the log of the operator's     *)
(* overrides, which `jig pm` commands append in processes of their own.        *)
(*                                                                            *)
(* A sample is its size, status and duration (costs and turns are treated     *)
(* alike); a day is the unit of time.                                         *)
(***************************************************************************)
EXTENDS Integers, Sequences, FiniteSets, SequencesExt, FiniteSetsExt, TLC

CONSTANTS
  Sizes, UnknownSizes,      \* those with a default envelope, and others
  DefaultOf,                \* DEFAULT_ENVELOPES: size -> [median, p90], in tenths
  Durations,
  MinSamples,               \* MIN_SAMPLES_FOR_CALIBRATION
  ShiftPercent,             \* ENVELOPE_SHIFT_THRESHOLD
  DefaultThreshold,         \* _DEFAULT_THRESHOLDS: pattern -> Nat
  MaxMultiplier, DriftDays, \* _CALIBRATION_MAX_MULTIPLIER, _CALIBRATION_DRIFT_DAYS
  WindowDays,
  ModuleOf,                 \* ticket -> its module, or "none"
  Happenings,               \* the events there may be: [kind, ticket, what]
  CrossedBy,                \* boundaries crossed, for what an impact event says
  BonesOf,                  \* epic -> the states of its bones layer to try
  LowRiskEpics,             \* epics whose modules are all cascade_risk_low
  Commands,                 \* `jig pm plan unblock` processes
  MaxSamples, MaxFeedback, MaxEvents, MaxDay   \* bounds

ASSUME MeasuresAssumption ==
  /\ {MinSamples, ShiftPercent, MaxMultiplier, DriftDays, WindowDays,
      MaxSamples, MaxFeedback, MaxEvents, MaxDay} \subseteq Nat
  /\ MinSamples > 0 /\ DriftDays > 0 /\ Durations \subseteq Nat
  /\ MaxMultiplier > 0 /\ \A p \in DOMAIN DefaultThreshold : DefaultThreshold[p] \in Nat
  /\ \A s \in Sizes : DefaultOf[s].median <= DefaultOf[s].p90
  /\ IsFiniteSet(DOMAIN ModuleOf) /\ IsFiniteSet(Happenings)

VARIABLES
  day,
  samples,     \* calibration.jsonl
  shifts,      \* the sizes whose envelope the last sample shifted
  feedback,    \* feedback.jsonl: [useful, patterns, day]
  happened,    \* the analytics events: [kind, ticket, what, day]
  briefing,    \* the last briefing
  overrides,   \* overrides.jsonl: the commands recorded, as a set of entries
  unblocking   \* each command: [at, epic, still, low, loaded]

measureVars == <<day, samples, shifts, feedback, happened, briefing, overrides, unblocking>>

-----------------------------------------------------------------------------
(* Envelopes *)

\* current_envelopes keeps the successful samples of each size: their places.
Successes(all, size) == {i \in DOMAIN all : all[i].size = size /\ all[i].status = "success"}
\* Mutant: the durations in the order they were recorded.
NthAsRecorded(all, of, k) == all[CHOOSE i \in of : Cardinality({j \in of : j <= i}) = k].duration
\* The k-th of the sorted durations: fewer than k are shorter, k are no longer.
NthDuration(all, of, k) ==
  CHOOSE d \in {all[i].duration : i \in of} :
    /\ Cardinality({i \in of : all[i].duration < d}) < k
    /\ Cardinality({i \in of : all[i].duration <= d}) >= k
\* _percentile interpolates between ranks; values here are tenths.
Percentile(all, of, pct) ==
  LET n == Cardinality(of)  rank == (pct * (n - 1)) \div 10  lo == rank \div 10
      hi == Min({lo + 1, n - 1})
      low == NthDuration(all, of, lo + 1)
  IN  low * 10 + (NthDuration(all, of, hi + 1) - low) * (rank % 10)
MedianOf(all, of) ==
  LET n == Cardinality(of) IN
  IF n % 2 = 1 THEN NthDuration(all, of, (n + 1) \div 2) * 10
  ELSE (NthDuration(all, of, n \div 2) + NthDuration(all, of, n \div 2 + 1)) * 5
\* _envelope_from_samples
EnvelopeFrom(all, of) ==
  [count |-> Cardinality(of), median |-> MedianOf(all, of), p90 |-> Percentile(all, of, 90)]
DefaultEnvelope(size) == [count |-> 0, median |-> DefaultOf[size].median, p90 |-> DefaultOf[size].p90]
\* current_envelopes: a size without a default has one only when calibrated.
Calibrated(all) == {s \in Sizes \cup UnknownSizes : Cardinality(Successes(all, s)) >= MinSamples}
Envelopes(all) ==
  [s \in Sizes \cup Calibrated(all) |->
     IF s \in Calibrated(all) THEN EnvelopeFrom(all, Successes(all, s)) ELSE DefaultEnvelope(s)]
\* _envelope_shifted
Distance(a, b) == IF a < b THEN b - a ELSE a - b
Shifted(old, new, s) ==
  IF s \notin DOMAIN old \/ s \notin DOMAIN new THEN TRUE
  ELSE \E f \in {"median", "p90"} :
         IF old[s][f] = 0 THEN new[s][f] # 0
         ELSE Distance(old[s][f], new[s][f]) * 100 >= ShiftPercent * old[s][f]

\* _record_calibration_sample: a store of its own, loaded, compared, appended to
\* and rewritten without an await that suspends.
RecordSample(size, status, duration) ==
  /\ Len(samples) < MaxSamples
  /\ samples' = Append(samples, [size |-> size, status |-> status, duration |-> duration])
  /\ shifts' = IF Shifted(Envelopes(samples), Envelopes(samples'), size) THEN {size} ELSE {}
  /\ UNCHANGED <<day, feedback, happened, briefing, overrides, unblocking>>

-----------------------------------------------------------------------------
(* Feedback on the briefing's patterns *)

Patterns == DOMAIN DefaultThreshold
\* handle_record_feedback refuses a pattern it does not know.
RecordFeedback(useful, noisy) ==
  /\ Len(feedback) < MaxFeedback /\ noisy \subseteq Patterns
  /\ feedback' = Append(feedback, [useful |-> useful, patterns |-> noisy, day |-> day])
  /\ UNCHANGED <<day, samples, shifts, happened, briefing, overrides, unblocking>>

Cap(p) == DefaultThreshold[p] * MaxMultiplier
Noisy(rows, p) == {i \in DOMAIN rows : ~rows[i].useful /\ p \in rows[i].patterns}
\* compute_calibration: one up for every noisy mark up to the cap, one down for
\* every drift period since the last of them.
\* Mutant: no cap.
RaisedForever(p, marks) == DefaultThreshold[p] + Cardinality(marks)
Raised(p, marks) == Min({DefaultThreshold[p] + Cardinality(marks), Cap(p)})
Threshold(rows, p, now) ==
  LET marks == Noisy(rows, p)
      steps == (now - Max({rows[i].day : i \in marks})) \div DriftDays
  IN  IF marks = {} THEN DefaultThreshold[p]
      ELSE IF steps <= 0 THEN Raised(p, marks)
      ELSE Max({Raised(p, marks) - steps, DefaultThreshold[p]})

-----------------------------------------------------------------------------
(* The Quartermaster *)

Happens(e) ==
  /\ Len(happened) < MaxEvents
  /\ happened' = Append(happened, [kind |-> e.kind, ticket |-> e.ticket, what |-> e.what, day |-> day])
  /\ UNCHANGED <<day, samples, shifts, feedback, briefing, overrides, unblocking>>
InWindow == {i \in DOMAIN happened : day - happened[i].day <= WindowDays}
OfKind(k) == {i \in InWindow : happened[i].kind = k}
\* _headline_metrics
Headline ==
  [completed |-> Cardinality({i \in OfKind("state") : happened[i].what = "resolved"}),
   failed |-> Cardinality({i \in OfKind("state") : happened[i].what = "failed"}),
   escalations |-> Cardinality(OfKind("escalation"))]
\* A pattern found: its kind and the events that are its evidence.
Found(p, evidence) == IF evidence = {} THEN {} ELSE {[kind |-> p, evidence |-> evidence]}
ModuleEscalations(n) ==
  UNION {LET e == {i \in OfKind("escalation") : ModuleOf[happened[i].ticket] = m}
         IN  IF Cardinality(e) >= n THEN Found("module", e) ELSE {} :
         m \in {ModuleOf[t] : t \in DOMAIN ModuleOf} \ {"none"}}
ReviewerRepeats(n) ==
  UNION {LET e == {i \in OfKind("comment") : happened[i].what = w}
         IN  IF Cardinality(e) >= n THEN Found("reviewer", e) ELSE {} : w \in {x.what : x \in Happenings}}
\* The last state in the window is in_progress, and old.
LastState(t) == Max({0} \cup {i \in OfKind("state") : happened[i].ticket = t})
StalledTickets(n) ==
  Found("stalled", {i \in {LastState(t) : t \in DOMAIN ModuleOf} \ {0} :
                      happened[i].what = "in_progress" /\ day - happened[i].day >= n})
ComplexTickets(n) == Found("complex", {i \in OfKind("impact") : CrossedBy[happened[i].what] >= n})
SeverityRank == [module |-> 30, stalled |-> 20, reviewer |-> 10, complex |-> 25]
\* briefing(): thresholds from the feedback so far.
Detected ==
  LET at(p) == Threshold(feedback, p, day) IN
  ModuleEscalations(at("module")) \cup ReviewerRepeats(at("reviewer"))
    \cup StalledTickets(at("stalled")) \cup ComplexTickets(at("complex"))
\* _recommendations: the worst three.
Recommended(found) ==
  LET before(a, b) == \/ SeverityRank[a.kind] > SeverityRank[b.kind]
                      \/ SeverityRank[a.kind] = SeverityRank[b.kind] /\ Cardinality(a.evidence) > Cardinality(b.evidence)
      ranked == SetToSortSeq(found, before)
  IN  [k \in 1..Min({3, Cardinality(found)}) |-> ranked[k]]
Brief ==
  /\ briefing' = [headline |-> Headline, patterns |-> Detected, advice |-> Recommended(Detected)]
  /\ briefing' # briefing
  /\ UNCHANGED <<day, samples, shifts, feedback, happened, overrides, unblocking>>

-----------------------------------------------------------------------------
(* jig pm plan unblock: reads the plan and the architecture, then the log, and   *)
(* writes the log again with its entry. *)

BeginUnblock(c, epic, bones) ==
  /\ unblocking[c].at = "idle" /\ DOMAIN bones # {}
  /\ LET still == {e \in DOMAIN bones : bones[e] # "empty" /\ bones[e] # "done"} IN
     unblocking' = [unblocking EXCEPT ![c] =
       [at |-> "loaded", epic |-> epic, still |-> still, low |-> still \cap LowRiskEpics, loaded |-> overrides]]
  /\ UNCHANGED <<day, samples, shifts, feedback, happened, briefing, overrides>>
OverrideOf(c) == [by |-> c, epic |-> unblocking[c].epic, still |-> unblocking[c].still, low |-> unblocking[c].low]
EndUnblock(c) ==
  /\ unblocking[c].at = "loaded"
  /\ overrides' = unblocking[c].loaded \cup {OverrideOf(c)}
  /\ unblocking' = [unblocking EXCEPT ![c].at = "done"]
  /\ UNCHANGED <<day, samples, shifts, feedback, happened, briefing>>

NextDay ==
  /\ day < MaxDay /\ day' = day + 1
  /\ UNCHANGED <<samples, shifts, feedback, happened, briefing, overrides, unblocking>>

-----------------------------------------------------------------------------
NoBriefing == [headline |-> [completed |-> 0, failed |-> 0, escalations |-> 0], patterns |-> {}, advice |-> <<>>]
MeasuresInit ==
  /\ day = 0 /\ samples = <<>> /\ shifts = {} /\ feedback = <<>> /\ happened = <<>>
  /\ briefing = NoBriefing /\ overrides = {}
  /\ unblocking = [c \in Commands |-> [at |-> "idle", epic |-> "none", still |-> {}, low |-> {}, loaded |-> {}]]

SampleNext ==
  \E size \in Sizes \cup UnknownSizes, status \in {"success", "blocked"}, d \in Durations : RecordSample(size, status, d)
FeedbackNext ==
  \/ RecordFeedback(TRUE, {})
  \/ \E p \in Patterns : RecordFeedback(FALSE, {p})
  \/ \E e \in Happenings : Happens(e)
  \/ Brief \/ NextDay
OverrideNext ==
  \/ \E c \in Commands, epic \in DOMAIN BonesOf, bones \in [DOMAIN BonesOf -> UNION {BonesOf[e] : e \in DOMAIN BonesOf}] :
       (\A e \in DOMAIN BonesOf : bones[e] \in BonesOf[e]) /\ BeginUnblock(c, epic, bones)
  \/ \E c \in Commands : EndUnblock(c)
MeasuresNext == SampleNext \/ FeedbackNext \/ OverrideNext
MeasuresSpec == MeasuresInit /\ [][MeasuresNext]_measureVars

-----------------------------------------------------------------------------
MeasuresTypeOK ==
  /\ day \in 0..MaxDay /\ shifts \subseteq Sizes \cup UnknownSizes
  /\ \A i \in DOMAIN samples : samples[i].duration \in Durations
  /\ \A i \in DOMAIN feedback : feedback[i].patterns \subseteq Patterns /\ feedback[i].day <= day
  /\ Len(briefing.advice) <= 3 /\ \A o \in overrides : o.low \subseteq o.still

\* Whatever samples came in, in whatever order, an envelope's 90th percentile is
\* no less than its median, and both lie between the shortest and the longest of
\* its successes (calibration.py 338-412).
EnvelopesSane ==
  \A s \in Calibrated(samples) :
    LET e == Envelopes(samples)[s]  seen == {samples[i].duration : i \in Successes(samples, s)}
    IN  e.median <= e.p90 /\ Min(seen) * 10 <= e.median /\ e.p90 <= Max(seen) * 10
\* However the operator's marks fall, a pattern's threshold stays between its
\* default and the cap, and days without a mark only bring it back
\* (quartermaster.py 761-823).
ThresholdsSane ==
  \A p \in UNION {feedback[i].patterns : i \in DOMAIN feedback} :
    /\ Threshold(feedback, p, day) \in DefaultThreshold[p]..Cap(p)
    /\ Threshold(feedback, p, day + 1) \in (Threshold(feedback, p, day) - 1)..Threshold(feedback, p, day)
MeasuresSane == EnvelopesSane /\ ThresholdsSane
=============================================================================
