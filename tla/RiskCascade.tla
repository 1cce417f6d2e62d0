----------------------------- MODULE RiskCascade -----------------------------
(***************************************************************************)
(* The architect's risks, the spikes that examine them, and the cascade     *)
(* proposals a spike leaves behind when it overturns an assumption other     *)
(* contracts depend on.  A risk lives in architecture.yaml, a spike is a     *)
(* ticket, a cascade is a file of its own named after the risk and the       *)
(* second it was written in.  Every tool loads the file, changes it and      *)
(* writes it back; a file that no longer validates is refused by each of     *)
(* them.  The texts of findings, reasons and intents are left out, and so   *)
(* is the audit file, which the tools only append to and only the viewer   *)
(* reads.                                                                  *)
(***************************************************************************)
EXTENDS Naturals, Sequences, FiniteSets, SequencesExt, FiniteSetsExt

CONSTANTS
  Risks,        \* risk ids
  DepLists,     \* the lists of dependent contracts a risk is given
  ByHand,       \* the statuses the architect writes with arch_set_risk
  MaxSeconds,   \* bound: the wall clock, in the seconds a cascade id shows
  ChunkSizes    \* the chunk sizes the operator may stage with

VARIABLES
  risks,      \* architecture.yaml: the risks authored so far
  spikes,     \* the spike tickets: risk -> status
  cascades,   \* the proposal files: <<risk, second>> -> proposal
  spikeCall,  \* a propose or complete call between its two reads of the disk
  second      \* the clock

riskVars == <<risks, spikes, cascades, spikeCall, second>>

RiskStatuses == {"open", "spike_proposed", "spike_running", "mitigated",
                 "mitigated_with_constraints", "accepted", "confirmed_impossible"}
CascadeStates == {"pending", "staged", "holding", "rejected", "resolved"}
Outcomes == {"mitigated", "mitigated_with_constraints", "accepted", "confirmed_impossible"}
CascadeEmitting == {"confirmed_impossible", "mitigated_with_constraints"}
ASSUME CascadeAssumption == MaxSeconds \in Nat /\ ChunkSizes \subseteq Nat \ {0}
                            /\ ByHand \subseteq RiskStatuses
                            /\ \A d \in DepLists : d \in Seq(ToSet(d))

NoCall == [risk |-> "none"]
Idle == spikeCall = NoCall

-----------------------------------------------------------------------------
(* Validators. *)

\* The schema: a risk past "open" names its dependents and has an intent.
PrepStatuses == RiskStatuses \ {"open"}
RiskValid(r) == r.status \in PrepStatuses => r.deps # <<>> /\ r.intent
\* The tools' own check, whose list of statuses is one shorter.
CascadePrepped(r) ==
  r.status \in PrepStatuses \ {"mitigated_with_constraints"} => r.deps # <<>> /\ r.intent

\* load_architecture raises when one risk does not validate.
ArchLoads == \A r \in DOMAIN risks : RiskValid(risks[r])

StagesOf(c) == ToSet(cascades[c].stages)
ProposalValid(p) ==
  /\ p.state = "holding" => p.holdingFor # <<>>
  /\ p.state = "staged" => p.stages # <<>>
\* _find_cascade_path and _load_cascade_proposal.
CascadeLoads(c) == c \in DOMAIN cascades /\ ProposalValid(cascades[c])

Upsert(f, k, v) == [x \in DOMAIN f \cup {k} |-> IF x = k THEN v ELSE f[x]]

-----------------------------------------------------------------------------
(* Risks and spikes. *)

ArchSetRisk(id, status, deps, intent) ==
  LET r == [status |-> status, deps |-> deps, intent |-> intent]
  IN  /\ RiskValid(r) /\ CascadePrepped(r) /\ ArchLoads
      /\ risks' = Upsert(risks, id, r)
      /\ UNCHANGED <<spikes, cascades, spikeCall, second>>

\* handle_arch_propose_spike: the architecture is read, and the ticket made
\* or its description replaced, before the dependents are looked at.
ProposeSpike(id, deps) ==
  /\ Idle /\ ArchLoads /\ id \in DOMAIN risks
  /\ spikes' = IF id \in DOMAIN spikes THEN spikes ELSE Upsert(spikes, id, "open")
  /\ spikeCall' = [risk |-> id, does |-> "propose", arch |-> risks, deps |-> deps]
  /\ UNCHANGED <<risks, cascades, second>>
SpikeProposed ==
  /\ ~Idle /\ spikeCall.does = "propose"
  /\ LET id == spikeCall.risk
         r == [status |-> "spike_proposed", deps |-> spikeCall.deps, intent |-> TRUE]
     IN  risks' = IF CascadePrepped(r) THEN Upsert(spikeCall.arch, id, r) ELSE risks
  /\ spikeCall' = NoCall
  /\ UNCHANGED <<spikes, cascades, second>>

\* handle_arch_complete_spike: the finding is posted on the spike's thread
\* between reading the architecture and writing it.
CompleteSpike(id, outcome, constraint) ==
  /\ Idle /\ id \in DOMAIN spikes /\ ArchLoads /\ id \in DOMAIN risks
  /\ spikeCall' = [risk |-> id, does |-> "complete", arch |-> risks,
                   outcome |-> outcome, constraint |-> constraint]
  /\ UNCHANGED <<risks, spikes, cascades, second>>

\* The first proposal in flight that shares a dependent, in file order.
InFlight(deps) ==
  {c \in DOMAIN cascades :
     /\ ProposalValid(cascades[c]) /\ cascades[c].state \in {"pending", "staged", "holding"}
     /\ ToSet(cascades[c].contracts) \cap ToSet(deps) # {}}
DetectHoldingFor(deps, choice) ==
  IF InFlight(deps) = {} THEN choice = <<>> ELSE choice \in InFlight(deps)

\* The proposal and its audit lines; the same second and risk is the same file.
WriteCascadeProposal(id, deps, hold) ==
  /\ DetectHoldingFor(deps, hold)
  /\ cascades' = Upsert(cascades, <<id, second>>,
       [contracts |-> deps, stages |-> <<>>, holdingFor |-> hold,
        state |-> IF hold = <<>> THEN "pending" ELSE "holding"])

\* The new status is written unvalidated; a constrained outcome without its
\* constraint is refused only after that.
SpikeCompleted(hold) ==
  /\ ~Idle /\ spikeCall.does = "complete"
  /\ LET id == spikeCall.risk
         r == [spikeCall.arch[id] EXCEPT !.status = spikeCall.outcome]
         refused == r.status = "mitigated_with_constraints" /\ ~spikeCall.constraint
     IN  /\ risks' = Upsert(spikeCall.arch, id, r)
         /\ IF ~refused /\ r.status \in CascadeEmitting
            THEN WriteCascadeProposal(id, r.deps, hold)
            ELSE hold = <<>> /\ UNCHANGED cascades
         /\ spikes' = IF refused THEN spikes ELSE [spikes EXCEPT ![id] = "resolved"]
  /\ spikeCall' = NoCall
  /\ UNCHANGED second

-----------------------------------------------------------------------------
(* Cascades. *)

Save(c, p) ==
  /\ cascades' = [cascades EXCEPT ![c] = p]
  /\ UNCHANGED <<risks, spikes, spikeCall, second>>

\* No state is refused: a resolved cascade can be rejected.
RejectCascade(c) ==
  CascadeLoads(c) /\ Save(c, [cascades[c] EXCEPT !.state = "rejected"])

(* Mutant of SplitIntoStages: the range stops before a short last slice. *)
FullStagesOnly(contracts, n) ==
  [k \in 1..(Len(contracts) \div n) |->
     [uris |-> {contracts[i] : i \in (k - 1) * n + 1 .. k * n}, approved |-> FALSE]]
\* Slices of n contracts, the last one shorter.
SplitIntoStages(contracts, n) ==
  [k \in 1..((Len(contracts) + n - 1) \div n) |->
     [uris |-> {contracts[i] : i \in (k - 1) * n + 1 .. Min({k * n, Len(contracts)})},
      approved |-> FALSE]]

StageCascade(c, n) ==
  /\ CascadeLoads(c)
  /\ Save(c, [cascades[c] EXCEPT !.stages = SplitIntoStages(cascades[c].contracts, n),
                                 !.state = "staged"])

ApproveCascadeStage(c, k) ==
  /\ CascadeLoads(c)
  /\ LET stages == [cascades[c].stages EXCEPT ![k].approved = TRUE]
         all == \A i \in DOMAIN stages : stages[i].approved
     IN  Save(c, [cascades[c] EXCEPT !.stages = stages,
                                     !.state = IF all THEN "resolved" ELSE "staged"])

Tick == second < MaxSeconds /\ second' = second + 1
        /\ UNCHANGED <<risks, spikes, cascades, spikeCall>>

-----------------------------------------------------------------------------
RiskInit ==
  /\ risks = <<>> /\ spikes = <<>> /\ cascades = <<>> 
  /\ spikeCall = NoCall /\ second = 0

RiskNext ==
  \/ \E id \in Risks, s \in ByHand, d \in DepLists, i \in BOOLEAN :
       ArchSetRisk(id, s, d, i)
  \/ \E id \in Risks, d \in DepLists : ProposeSpike(id, d)
  \/ \E id \in Risks, o \in Outcomes, k \in BOOLEAN : CompleteSpike(id, o, k)
  \/ SpikeProposed
  \/ \E hold \in {<<>>} \cup DOMAIN cascades : SpikeCompleted(hold)
  \/ \E c \in DOMAIN cascades :
       \/ RejectCascade(c)
       \/ \E n \in ChunkSizes : StageCascade(c, n)
       \/ \E k \in DOMAIN cascades[c].stages : ApproveCascadeStage(c, k)
  \/ Tick

RiskSpec == RiskInit /\ [][RiskNext]_riskVars

RiskTypeOK ==
  /\ \A r \in DOMAIN risks : r \in Risks /\ risks[r].status \in RiskStatuses
  /\ DOMAIN spikes \subseteq Risks
  /\ \A c \in DOMAIN cascades : c \in Risks \X (0..MaxSeconds)
                                /\ cascades[c].state \in CascadeStates
  /\ second \in 0..MaxSeconds

\* A cascade is resolved only when the operator has approved a stage for each
\* contract the overturned assumption was holding up, however often it was
\* staged again with other chunks, rejected, or rewritten by a second spike.
ResolvedCoversAll ==
  \A c \in DOMAIN cascades :
    cascades[c].state = "resolved" =>
      ToSet(cascades[c].contracts)
        \subseteq UNION {s.uris : s \in {t \in StagesOf(c) : t.approved}}
=============================================================================
