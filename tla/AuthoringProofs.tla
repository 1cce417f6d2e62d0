--------------------------- MODULE AuthoringProofs ---------------------------
(* Proofs about how a project comes to be: what each level hands to the next *)
(* is complete, wherever a process is killed on the way.                     *)
EXTENDS MCAuthoring, FiniteSetTheorems, SequenceTheorems, WellFoundedInduction, TLAPS

-----------------------------------------------------------------------------
(* The architect's draft: while the rule files are written, each one on disk *)
(* is one the finalize compiled.                                             *)

RulesInv ==
  /\ rules = [m \in DOMAIN rules |-> rules[m]]
  /\ compiled = [m \in DOMAIN compiled |-> compiled[m]]
  /\ finStep = "write" => /\ DOMAIN rules \subseteq DOMAIN compiled
                          /\ \A m \in DOMAIN rules : rules[m] = compiled[m]
  /\ HandoffIsEnforced

(* LEMMA: the empty function is a function, as the provers like it written.  *)
LEMMA EmptyIsFunction == <<>> = [m \in DOMAIN <<>> |-> <<>>[m]] /\ DOMAIN <<>> = {}
  OBVIOUS

(* LEMMA: nothing is handed over at the start.                               *)
LEMMA RulesStart == DraftInit => RulesInv
  BY EmptyIsFunction DEF DraftInit, RulesInv, HandoffIsEnforced

(* LEMMA: every step of the tools, and a death between two writes, keeps it. *)
LEMMA RulesStep == ASSUME RulesInv, [DraftNext]_draftVars PROVE RulesInv'
<1>1. CASE DraftCall \/ UNCHANGED draftVars
  BY <1>1 DEF RulesInv, HandoffIsEnforced, DraftCall, draftVars
<1>2. ASSUME NEW m \in Modules, NEW e \in DraftEntries, NEW g, SaFinalize(m, e, g) PROVE RulesInv'
  BY <1>2 DEF SaFinalize, RulesInv, HandoffIsEnforced
<1>3. CASE ArchFinalizeChecks
  BY <1>3 DEF ArchFinalizeChecks, GenerateBoundaryRules, RulesInv, HandoffIsEnforced
<1>4. CASE ClearRules
  <2>1. CASE DOMAIN rules = {}
    BY <1>4, <2>1 DEF ClearRules, RulesInv, HandoffIsEnforced
  <2>2. CASE DOMAIN rules # {}
    BY <1>4, <2>2 DEF ClearRules, RulesInv, HandoffIsEnforced
  <2> QED BY <2>1, <2>2
<1>5. CASE WriteRule
  BY <1>5 DEF WriteRule, Put, RulesInv, HandoffIsEnforced
<1>6. CASE PostHandoff
  <2>1. CASE finStep = "bones"
    BY <1>6, <2>1 DEF PostHandoff, RulesInv, HandoffIsEnforced
  <2>2. CASE finStep = "write" /\ RulesWritten
    <3>1. rules = compiled BY <2>2 DEF RulesWritten, RulesInv
    <3> QED BY <1>6, <2>2, <3>1 DEF PostHandoff, RulesInv, HandoffIsEnforced
  <2> QED BY <1>6, <2>1, <2>2 DEF PostHandoff
<1>7. CASE DraftDies
  BY <1>7 DEF DraftDies, RulesInv, HandoffIsEnforced
<1> QED BY <1>1, <1>2, <1>3, <1>4, <1>5, <1>6, <1>7 DEF DraftNext, ArchSetModule,
        ArchSetCascadeRiskLow, ModuleSet, ModuleSetDataContract, SaWriteBoundaries, ArchSetSection

(* THEOREM: an architecture handed over by arch_finalize has its import      *)
(* rules complete on disk, through later finalizes and kills, except after a *)
(* second finalize that was killed over the rule files.                      *)
THEOREM DraftHandoffEnforced == DraftSpec => []HandoffIsEnforced
<1>1. RulesInv => HandoffIsEnforced BY DEF RulesInv
<1> QED BY <1>1, RulesStart, RulesStep, PTL DEF DraftSpec

(* LEMMA: the draft's files start well typed.                                *)
LEMMA DraftTypesStart == DraftInit => DraftTypeOK
  BY DraftAssumption, EmptyIsFunction DEF DraftInit, DraftTypeOK

(* LEMMA: and every call keeps them so.                                      *)
LEMMA DraftTypesStep == ASSUME DraftTypeOK, [DraftNext]_draftVars PROVE DraftTypeOK'
<1>1. CASE UNCHANGED draftVars BY <1>1 DEF DraftTypeOK, draftVars
<1>2. ASSUME NEW m \in Modules, NEW e \in DraftEntries, ArchSetModule(m, e) PROVE DraftTypeOK'
  BY <1>2, EntriesAssumption DEF ArchSetModule, DraftCall, Put, DraftTypeOK
<1>3. ASSUME NEW m \in Modules, NEW low \in BOOLEAN, ArchSetCascadeRiskLow(m, low) PROVE DraftTypeOK'
  BY <1>3 DEF ArchSetCascadeRiskLow, DraftCall, DraftTypeOK, Entry
<1>4. ASSUME NEW m \in Modules, NEW s \in Sections, contracts' = Put(contracts, m, SectionsOf(m) \cup {s}),
             models' \subseteq models \cup {m}, UNCHANGED <<entries, bounds>>, DraftCall
      PROVE  DraftTypeOK'
  BY <1>4 DEF DraftCall, SectionsOf, Put, DraftTypeOK
<1>5. ASSUME NEW m \in Modules, NEW s \in DraftSections, ModuleSet(m, s) PROVE DraftTypeOK'
  <2>1. s \in Sections BY DraftAssumption DEF Sections
  <2> QED BY <1>4, <1>5, <2>1 DEF ModuleSet
<1>6. ASSUME NEW m \in Modules, NEW f \in BOOLEAN, ModuleSetDataContract(m, f) PROVE DraftTypeOK'
  <2>1. "data_contracts" \in Sections BY DEF Sections
  <2> QED BY <1>4, <1>6, <2>1 DEF ModuleSetDataContract
<1>7. ASSUME NEW m \in Modules, NEW b \in DraftBounds, SaWriteBoundaries(m, b) PROVE DraftTypeOK'
  BY <1>7, EntriesAssumption DEF SaWriteBoundaries, DraftCall, Put, DraftTypeOK
<1>8. ASSUME NEW m \in Modules, NEW e \in DraftEntries, SaFinalize(m, e, {"owns", "integration_ac", "exposes"})
      PROVE  DraftTypeOK'
  BY <1>8, EntriesAssumption DEF SaFinalize, Put, DraftTypeOK, Sections
<1>9. ASSUME NEW s \in ArchSections, ArchSetSection(s) PROVE DraftTypeOK'
  BY <1>9 DEF ArchSetSection, DraftCall, DraftTypeOK
<1>10. CASE ArchFinalizeChecks BY <1>10 DEF ArchFinalizeChecks, DraftTypeOK
<1>11. CASE ClearRules BY <1>11 DEF ClearRules, DraftTypeOK
<1>12. CASE WriteRule BY <1>12 DEF WriteRule, DraftTypeOK
<1>13. CASE PostHandoff BY <1>13 DEF PostHandoff, DraftTypeOK
<1>14. CASE DraftDies BY <1>14, DraftAssumption DEF DraftDies, DraftTypeOK
<1> QED BY <1>1, <1>2, <1>3, <1>5, <1>6, <1>7, <1>8, <1>9, <1>10, <1>11, <1>12, <1>13, <1>14 DEF DraftNext

-----------------------------------------------------------------------------
(* The build plan: what a cycle has read as resolved has been resolved, and  *)
(* the layer it chose is due by what it read.                                *)

TicketStatuses == {"open", "in_progress", "resolved", "failed"}
Resolved(seen) == {t \in DOMAIN seen : seen[t] = "resolved"}

CycleInv ==
  \/ cycle = NoCycle
  \/ /\ cycle.at = "refresh"
     /\ cycle = [at |-> "refresh", plan |-> cycle.plan, seen |-> cycle.seen]
     /\ cycle.plan \in Plan /\ Resolved(cycle.seen) \subseteq everDone
  \/ /\ cycle.at = "create"
     /\ cycle = [at |-> "create", plan |-> cycle.plan, layer |-> cycle.layer]
     /\ cycle.plan \in Plan
LayersInv ==
  /\ planFile = <<>> \/ planFile \in Plan
  /\ \A t \in DOMAIN ticketOf : ticketOf[t] \in TicketStatuses
  /\ Resolved(ticketOf) \subseteq everDone
  /\ CycleInv
  /\ overrides \subseteq EpicIds
  /\ BonesFirst

(* LEMMA: the advice on a deferred ticket is one of three.                   *)
LEMMA TriageIsOneOfThree == \A t : Triage(t) \in {"close", "rematerialize", "leave_deferred"}
  BY DEF Triage

(* LEMMA: the plan's files are well typed.                                   *)
LEMMA LayersAreTyped == LayersInv => LayersTypeOK
<1> SUFFICES ASSUME LayersInv PROVE LayersTypeOK OBVIOUS
<1>1. cycle.at \in {"idle", "refresh", "create"} BY DEF LayersInv, CycleInv, NoCycle
<1>2. planFile = <<>> \/ planFile.rule \in {"bones_first", "per_epic"} BY DEF LayersInv, Plan
<1> QED BY <1>1, <1>2, TriageIsOneOfThree DEF LayersInv, LayersTypeOK, TicketStatuses

(* LEMMA: a status is made of what was read, and done of resolved tickets.   *)
LEMMA LayerStatusRead ==
  ASSUME NEW layer \in Layer, NEW seen
  PROVE  /\ ComputeLayerStatus(layer, seen) \in {"not_started", "in_progress", "done", "blocked"}
         /\ ComputeLayerStatus(layer, seen) = "done" =>
              \A t \in layer.tickets : seen[t] = "resolved"
<1>1. CASE layer.tickets = {} BY <1>1 DEF ComputeLayerStatus, Layer
<1>2. CASE layer.tickets # {}
  <2> DEFINE st == {IF seen[t] = "missing" THEN "open" ELSE seen[t] : t \in layer.tickets}
  <2>1. ComputeLayerStatus(layer, seen) =
          IF "failed" \in st THEN "blocked" ELSE IF st = {"resolved"} THEN "done"
          ELSE IF st # {"open"} THEN "in_progress" ELSE "not_started"
    BY <1>2 DEF ComputeLayerStatus
  <2>2. ASSUME st = {"resolved"}, NEW t \in layer.tickets PROVE seen[t] = "resolved"
    <3>1. (IF seen[t] = "missing" THEN "open" ELSE seen[t]) \in st OBVIOUS
    <3> QED BY <2>2, <3>1
  <2> HIDE DEF st
  <2> QED BY <2>1, <2>2
<1> QED BY <1>1, <1>2

(* LEMMA: refreshing a plan changes its statuses only.                       *)
LEMMA RefreshedPlan ==
  ASSUME NEW p \in Plan, NEW seen
  PROVE  /\ Refreshed(p, seen) \in Plan /\ Refreshed(p, seen).rule = p.rule
         /\ \A e \in EpicIds, l \in LayerNames :
              /\ Refreshed(p, seen).layers[e][l].tickets = p.layers[e][l].tickets
              /\ Refreshed(p, seen).layers[e][l].status = ComputeLayerStatus(p.layers[e][l], seen)
<1> DEFINE new(e, l) == [p.layers[e][l] EXCEPT !.status = ComputeLayerStatus(p.layers[e][l], seen)]
<1>1. ASSUME NEW e \in EpicIds, NEW l \in LayerNames
      PROVE  /\ new(e, l) \in Layer /\ new(e, l).tickets = p.layers[e][l].tickets
             /\ new(e, l).status = ComputeLayerStatus(p.layers[e][l], seen)
  <2>1. p.layers[e][l] \in Layer BY DEF Plan
  <2>2. ComputeLayerStatus(p.layers[e][l], seen) \in {"not_started", "in_progress", "done", "blocked"}
    BY <2>1, LayerStatusRead
  <2> QED BY <2>1, <2>2 DEF Layer
<1>2. Refreshed(p, seen) = [p EXCEPT !.layers = [e \in EpicIds |-> [l \in LayerNames |-> new(e, l)]]]
  BY DEF Refreshed
<1> HIDE DEF new
<1> QED BY <1>1, <1>2 DEF Plan

(* LEMMA: the first open layer is open, and those before it are not.         *)
LEMMA FirstOpenIsFirst ==
  ASSUME NEW open \in SUBSET LayerNames, open # {}
  PROVE  /\ FirstOpen(open) \in open
         /\ FirstOpen(open) # "bones" => "bones" \notin open
         /\ FirstOpen(open) = "final" => "mvp" \notin open
<1> DEFINE First(i) == LayerOrder[i] \in open /\ \A j \in 1..i-1 : LayerOrder[j] \notin open
<1>1. LayerOrder[1] = "bones" /\ LayerOrder[2] = "mvp" /\ LayerOrder[3] = "final" BY DEF LayerOrder
<1>2. \E i \in 1..3 : First(i)
  <2>1. CASE "bones" \in open BY <1>1, <2>1
  <2>2. CASE "bones" \notin open /\ "mvp" \in open
    <3>1. \A j \in 1..2-1 : j = 1 OBVIOUS
    <3> QED BY <1>1, <2>2, <3>1
  <2>3. CASE "bones" \notin open /\ "mvp" \notin open
    <3>1. \A j \in 1..3-1 : j = 1 \/ j = 2 OBVIOUS
    <3>2. "final" \in open BY <2>3 DEF LayerNames
    <3> QED BY <1>1, <2>3, <3>1, <3>2
  <2> QED BY <2>1, <2>2, <2>3
<1>3. PICK k \in 1..3 : First(k) /\ FirstOpen(open) = LayerOrder[k]
  <2> HIDE DEF First
  <2>1. FirstOpen(open) = LayerOrder[CHOOSE i \in 1..3 : First(i)] BY DEF FirstOpen, First
  <2> QED BY <1>2, <2>1
<1> QED BY <1>1, <1>3

(* LEMMA: a layer counted as done has only tickets read as resolved.         *)
LEMMA DoneWasRead ==
  ASSUME NEW p \in Plan, NEW seen, DOMAIN seen = TicketsIn(p), NEW e \in EpicIds, NEW l \in LayerNames,
         DoneOrEmpty(Refreshed(p, seen), e, l)
  PROVE  p.layers[e][l].tickets \subseteq Resolved(seen)
<1>1. p.layers[e][l] \in Layer BY DEF Plan
<1>2. p.layers[e][l].tickets \subseteq TicketsIn(p)
  BY DEF TicketsIn
<1> QED BY <1>1, <1>2, RefreshedPlan, LayerStatusRead DEF DoneOrEmpty, Resolved

(* LEMMA: under bones_first, the layer chosen by what was read comes after   *)
(* layers that were read as resolved, but for low-risk epics' bones.         *)
LEMMA ChosenLayerIsDue ==
  ASSUME NEW p \in Plan, p.rule = "bones_first", NEW e \in EpicIds, NEW l \in LayerNames,
         NextLayerReady(p) \notin {"none", "bones"}, l # "final", l # NextLayerReady(p),
         ~(NextLayerReady(p) = "mvp" /\ e \in LowEpics)
  PROVE  DoneOrEmpty(p, e, l)
<1> DEFINE open == {k \in LayerNames : ~AllEpicsDone(p, k)}
<1>1. NextLayerReady(p) = CASE open = {} -> "none"
                            [] "bones" \in open /\ CascadeRiskLowOverride(p) -> "mvp"
                            [] OTHER -> FirstOpen(open)
  BY DEF NextLayerReady
<1>2. l = "bones" \/ l = "mvp" BY DEF LayerNames
<1>3. open \in SUBSET LayerNames OBVIOUS
<1>4. ASSUME l \notin open PROVE DoneOrEmpty(p, e, l)
  BY <1>4 DEF AllEpicsDone
<1>5. CASE "bones" \in open /\ CascadeRiskLowOverride(p)
  <2>1. NextLayerReady(p) = "mvp" BY <1>1, <1>5
  <2>2. l = "bones" /\ e \notin LowEpics BY <1>2, <2>1
  <2>3. p.layers[e]["bones"].tickets = {} \/ p.layers[e]["bones"].status = "done"
    BY <1>5, <2>2 DEF CascadeRiskLowOverride
  <2> QED BY <2>2, <2>3 DEF DoneOrEmpty
<1>6. CASE ~("bones" \in open /\ CascadeRiskLowOverride(p))
  <2> HIDE DEF open
  <2>1. open # {} BY <1>1, <1>6
  <2>2. NextLayerReady(p) = FirstOpen(open) BY <1>1, <1>6, <2>1
  <2>3. NextLayerReady(p) \in {"mvp", "final"} BY <1>3, <2>1, <2>2, FirstOpenIsFirst DEF LayerNames
  <2>4. l \notin open BY <1>2, <1>3, <2>1, <2>2, <2>3, FirstOpenIsFirst
  <2> QED BY <1>4, <2>4
<1> QED BY <1>5, <1>6

(* LEMMA: no plan, no ticket, nothing due.                                   *)
LEMMA LayersStart == LayersInit => LayersInv
  BY EmptyIsFunction DEF LayersInit, LayersInv, CycleInv, NoCycle, BonesFirst, Resolved

(* LEMMA: while the plan's cycle stands, only its record counts.             *)
LEMMA CycleKept ==
  ASSUME CycleInv, BonesFirst, UNCHANGED cycle, everDone \subseteq everDone'
  PROVE  CycleInv' /\ BonesFirst'
<1>1. CycleInv' BY DEF CycleInv, NoCycle
<1>2. BonesFirst' BY DEF BonesFirst
<1> QED BY <1>1, <1>2

(* LEMMA: every step of the planner, the cycle and the agents keeps it.      *)
LEMMA LayersStep == ASSUME LayersInv, [LayersNext]_layerVars PROVE LayersInv'
<1> USE DEF LayersInv
<1>1. CASE UNCHANGED layerVars
  BY <1>1, CycleKept DEF layerVars, Resolved
<1>2. ASSUME NEW p \in PlanDrafts, PlanFinalize(p) PROVE LayersInv'
  BY <1>2, CycleKept, PlansAssumption DEF PlanFinalize, Resolved
<1>3. CASE BeginCycle
  <2>1. planFile \in Plan BY <1>3 DEF BeginCycle
  <2>2. Resolved(<<>>) = {} BY EmptyIsFunction DEF Resolved
  <2>3. CycleInv' BY <1>3, <2>1, <2>2 DEF BeginCycle, CycleInv
  <2>4. BonesFirst' BY <1>3 DEF BeginCycle, BonesFirst
  <2> QED BY <1>3, <2>3, <2>4 DEF BeginCycle, Resolved
<1>4. CASE ReadTicket
  <2> DEFINE t == FirstOf(TicketsIn(cycle.plan) \ DOMAIN cycle.seen)
             was == IF t \in DOMAIN ticketOf THEN ticketOf[t] ELSE "missing"
             seen == [x \in DOMAIN cycle.seen \cup {t} |-> IF x # t THEN cycle.seen[x] ELSE was]
  <2>1. cycle = [at |-> "refresh", plan |-> cycle.plan, seen |-> cycle.seen]
          /\ cycle.plan \in Plan /\ Resolved(cycle.seen) \subseteq everDone
    BY <1>4 DEF ReadTicket, CycleInv, NoCycle
  <2>2. cycle' = [cycle EXCEPT !.seen = seen] BY <1>4 DEF ReadTicket
  <2>3. Resolved(seen) \subseteq everDone BY <2>1 DEF Resolved
  <2> HIDE DEF seen
  <2>4. cycle' = [at |-> "refresh", plan |-> cycle.plan, seen |-> seen] BY <2>1, <2>2
  <2>5. CycleInv'
    <3>1. cycle'.plan = cycle.plan /\ cycle'.seen = seen BY <2>4
    <3>2. everDone' = everDone BY <1>4 DEF ReadTicket
    <3> QED BY <2>1, <2>3, <2>4, <3>1, <3>2 DEF CycleInv
  <2>6. BonesFirst' BY <2>4 DEF BonesFirst
  <2> QED BY <1>4, <2>5, <2>6 DEF ReadTicket, Resolved
<1>5. CASE AdvanceLayerStatus
  <2> DEFINE fresh == Refreshed(cycle.plan, cycle.seen)
             next == NextLayerReady(fresh)
  <2>1. cycle.plan \in Plan /\ Resolved(cycle.seen) \subseteq everDone
    BY <1>5 DEF AdvanceLayerStatus, CycleInv, NoCycle
  <2>2. fresh \in Plan BY <2>1, RefreshedPlan
  <2>3. planFile' = (IF fresh # cycle.plan THEN fresh ELSE planFile)
        /\ cycle' = (IF next = "none" THEN NoCycle
                     ELSE [at |-> "create", plan |-> fresh, layer |-> next])
        /\ DOMAIN cycle.seen = TicketsIn(cycle.plan)
        /\ UNCHANGED <<ticketOf, deferred, overrides, everDone, statusMoves>>
    BY <1>5 DEF AdvanceLayerStatus
  <2>4. CycleInv'
    <3> HIDE DEF fresh, next
    <3> QED BY <2>2, <2>3 DEF CycleInv
  <2>5. BonesFirst'
    <3> SUFFICES ASSUME cycle'.at = "create", cycle'.layer # "bones", cycle'.plan.rule = "bones_first",
                        NEW e \in EpicIds, NEW l \in LayerNames,
                        l # "final", l # cycle'.layer, ~(cycle'.layer = "mvp" /\ e \in LowEpics)
                 PROVE  cycle'.plan.layers[e][l].tickets \subseteq everDone
      BY <2>3 DEF BonesFirst
    <3>1. cycle' = [at |-> "create", plan |-> fresh, layer |-> next] /\ next # "none"
      BY <2>3 DEF NoCycle
    <3>2. DoneOrEmpty(fresh, e, l)
      <4> HIDE DEF fresh
      <4> QED BY <2>2, <3>1, ChosenLayerIsDue
    <3>3. cycle.plan.layers[e][l].tickets \subseteq Resolved(cycle.seen)
      BY <2>1, <2>3, <3>2, DoneWasRead
    <3>4. fresh.layers[e][l].tickets = cycle.plan.layers[e][l].tickets BY <2>1, RefreshedPlan
    <3> QED BY <2>1, <3>1, <3>3, <3>4
  <2> HIDE DEF fresh, next
  <2> QED BY <2>2, <2>3, <2>4, <2>5 DEF Resolved
<1>6. CASE MaterializeLayer
  <2>1. /\ \A t \in DOMAIN ticketOf' : ticketOf'[t] \in TicketStatuses
        /\ Resolved(ticketOf') \subseteq everDone
    BY <1>6 DEF MaterializeLayer, StatusIn, Resolved, TicketStatuses
  <2>2. cycle' = NoCycle \/ UNCHANGED cycle BY <1>6 DEF MaterializeLayer
  <2>3. CycleInv' /\ BonesFirst'
    <3>1. CASE UNCHANGED cycle BY <1>6, <3>1, CycleKept DEF MaterializeLayer
    <3>2. CASE cycle' = NoCycle BY <3>2 DEF CycleInv, BonesFirst, NoCycle
    <3> QED BY <2>2, <3>1, <3>2
  <2> QED BY <1>6, <2>1, <2>3 DEF MaterializeLayer
<1>7. CASE MaterializeReadyTickets
  <2>1. cycle' = [at |-> "create", plan |-> planFile, layer |-> "bones"] /\ planFile \in Plan
    BY <1>7 DEF MaterializeReadyTickets
  <2>2. CycleInv' BY <2>1 DEF CycleInv
  <2>3. BonesFirst' BY <2>1 DEF BonesFirst
  <2> QED BY <1>7, <2>2, <2>3 DEF MaterializeReadyTickets, Resolved
<1>8. ASSUME NEW t \in PlanTickets, DeferTicket(t) PROVE LayersInv'
  BY <1>8, CycleKept DEF DeferTicket, Resolved
<1>9. ASSUME NEW e \in EpicIds, RecordUnblockOverride(e) PROVE LayersInv'
  BY <1>9, CycleKept DEF RecordUnblockOverride, Resolved
<1>10. ASSUME NEW t \in PlanTickets, NEW s \in TicketStatuses, MoveTicket(t, s) PROVE LayersInv'
  <2>1. ticketOf' = [ticketOf EXCEPT ![t] = s] /\ UNCHANGED <<planFile, cycle, deferred, overrides>>
        /\ everDone' = IF s = "resolved" THEN everDone \cup {t} ELSE everDone
    BY <1>10 DEF MoveTicket
  <2>2. everDone \subseteq everDone' BY <2>1
  <2>3. CycleInv' /\ BonesFirst' BY <2>1, <2>2, CycleKept
  <2>4. Resolved(ticketOf') \subseteq everDone' BY <2>1 DEF Resolved
  <2> QED BY <2>1, <2>3, <2>4
<1> QED BY <1>1, <1>2, <1>3, <1>4, <1>5, <1>6, <1>7, <1>8, <1>9, <1>10 DEF LayersNext, TicketStatuses

(* THEOREM: under bones_first no ticket of a later layer is created while    *)
(* the bones it builds on have never been resolved, whatever planners and    *)
(* agents change while the cycle reads.                                      *)
THEOREM LayersBonesFirst == LayersSpec => []BonesFirst
<1>1. LayersInv => BonesFirst BY DEF LayersInv
<1> QED BY <1>1, LayersStart, LayersStep, PTL DEF LayersSpec

-----------------------------------------------------------------------------
(* The cascades: the stages of a proposal name all its contracts, and it is  *)
(* resolved only when every stage is approved.                               *)

RiskRecord == [status : RiskStatuses, deps : DepLists, intent : BOOLEAN]
RisksTyped(f) == \A r \in DOMAIN f : r \in Risks /\ f[r] \in RiskRecord
StageRecords(stages) ==
  stages = [k \in DOMAIN stages |-> [uris |-> stages[k].uris, approved |-> stages[k].approved]]
StagesCover(stages, list) ==
  \A i \in DOMAIN list : \E k \in DOMAIN stages : list[i] \in stages[k].uris
ProposalKept(p) ==
  /\ p = [contracts |-> p.contracts, stages |-> p.stages, holdingFor |-> p.holdingFor, state |-> p.state]
  /\ p.contracts \in DepLists /\ p.state \in CascadeStates
  /\ StageRecords(p.stages)
  /\ DOMAIN p.stages = {} \/ StagesCover(p.stages, p.contracts)
  /\ p.state = "resolved" => DOMAIN p.stages # {} /\ \A k \in DOMAIN p.stages : p.stages[k].approved
CallInv ==
  \/ spikeCall = NoCall
  \/ /\ spikeCall.risk \in Risks /\ RisksTyped(spikeCall.arch)
     /\ \/ spikeCall.does = "propose" /\ spikeCall.deps \in DepLists
        \/ /\ spikeCall.does = "complete" /\ spikeCall.outcome \in Outcomes
           /\ spikeCall.risk \in DOMAIN spikeCall.arch
RiskInv ==
  /\ RisksTyped(risks) /\ DOMAIN spikes \subseteq Risks
  /\ \A c \in DOMAIN cascades : c \in Risks \X (0..MaxSeconds) /\ ProposalKept(cascades[c])
  /\ CallInv
  /\ second \in 0..MaxSeconds

(* LEMMA: a resolved proposal has an approved stage for each contract.       *)
LEMMA KeptMeansCovered == RiskInv => ResolvedCoversAll
<1> SUFFICES ASSUME RiskInv, NEW c \in DOMAIN cascades, cascades[c].state = "resolved",
                    NEW u \in ToSet(cascades[c].contracts)
             PROVE  u \in UNION {s.uris : s \in {t \in StagesOf(c) : t.approved}}
  BY DEF ResolvedCoversAll
<1> DEFINE stages == cascades[c].stages
<1>1. PICK i \in DOMAIN cascades[c].contracts : u = cascades[c].contracts[i] BY DEF ToSet
<1>2. PICK k \in DOMAIN stages : u \in stages[k].uris
  BY <1>1 DEF RiskInv, ProposalKept, StagesCover
<1>3. stages[k].approved BY DEF RiskInv, ProposalKept
<1>4. stages[k] \in {t \in StagesOf(c) : t.approved} BY <1>3 DEF StagesOf, ToSet
<1> QED BY <1>2, <1>4

(* LEMMA: and the risks' files are well typed.                               *)
LEMMA RisksAreTyped == RiskInv => RiskTypeOK
  BY DEF RiskInv, RiskTypeOK, RisksTyped, RiskRecord, ProposalKept

(* LEMMA: quotient and remainder, as division on naturals defines them.      *)
LEMMA QuotientBounds ==
  ASSUME NEW a \in Nat, NEW n \in Nat \ {0}
  PROVE  a \div n \in Nat /\ (a \div n) * n <= a /\ a < (a \div n + 1) * n
<1>1. a = n * (a \div n) + (a % n) /\ 0 <= a % n /\ a % n < n /\ a \div n \in Int OBVIOUS
<1>2. a \div n >= 0 BY <1>1
<1> QED BY <1>1, <1>2

(* LEMMA: the slices of n contracts name each of them; no contract, no slice.*)
LEMMA SlicesCover ==
  ASSUME NEW T, NEW list \in Seq(T), NEW n \in Nat \ {0}
  PROVE  /\ StageRecords(SplitIntoStages(list, n))
         /\ StagesCover(SplitIntoStages(list, n), list)
         /\ \A k \in DOMAIN SplitIntoStages(list, n) : ~SplitIntoStages(list, n)[k].approved
<1> DEFINE L == Len(list)
           last == (L + n - 1) \div n
           uris(k) == {list[i] : i \in (k - 1) * n + 1 .. Min({k * n, L})}
           stages == SplitIntoStages(list, n)
<1>1. stages = [k \in 1..last |-> [uris |-> uris(k), approved |-> FALSE]] BY DEF SplitIntoStages
<1>2. L \in Nat /\ DOMAIN list = 1..L OBVIOUS
<1>3. ASSUME NEW i \in 1..L PROVE \E k \in 1..last : list[i] \in uris(k)
  <2> DEFINE q == (i - 1) \div n
             k == q + 1
  <2>1. i - 1 \in Nat /\ L + n - 1 \in Nat BY <1>2
  <2>2. q \in Nat /\ q * n <= i - 1 /\ i - 1 < (q + 1) * n BY <2>1, QuotientBounds
  <2>3. last \in Nat /\ L + n - 1 < (last + 1) * n BY <2>1, QuotientBounds
  <2> HIDE DEF q, last, L
  <2>4. k \in Nat /\ (k - 1) * n = q * n /\ k * n = q * n + n /\ k * n \in Nat BY <2>2
  <2>5. k * n < (last + 1) * n BY <1>2, <2>2, <2>3, <2>4
  <2>6. k < last + 1
    <3>1. SUFFICES ASSUME k >= last + 1 PROVE FALSE BY <2>3, <2>4
    <3>2. k * n >= (last + 1) * n BY <2>3, <2>4, <3>1
    <3>3. (last + 1) * n \in Int BY <2>3
    <3> QED BY <2>4, <2>5, <3>2, <3>3
  <2>7. k \in 1..last BY <2>2, <2>3, <2>4, <2>6
  <2>8. Min({k * n, L}) \in {k * n, L} BY <1>2, <2>4 DEF Min
  <2>9. Min({k * n, L}) \in Int /\ i <= Min({k * n, L}) BY <1>2, <2>2, <2>4, <2>8
  <2>10. i \in (k - 1) * n + 1 .. Min({k * n, L}) BY <2>2, <2>4, <2>9
  <2> QED BY <2>7, <2>10
<1> HIDE DEF last, uris
<1> QED BY <1>1, <1>2, <1>3 DEF StageRecords, StagesCover

(* LEMMA: what ProposalKept says, of a proposal written out.                 *)
LEMMA ProposalWritten ==
  ASSUME NEW d \in DepLists, NEW s, NEW h, NEW t \in CascadeStates, StageRecords(s),
         DOMAIN s = {} \/ StagesCover(s, d),
         t = "resolved" => DOMAIN s # {} /\ \A k \in DOMAIN s : s[k].approved
  PROVE  ProposalKept([contracts |-> d, stages |-> s, holdingFor |-> h, state |-> t])
  BY DEF ProposalKept

(* LEMMA: a new proposal has no stage.                                       *)
LEMMA NewProposalKept ==
  ASSUME NEW d \in DepLists, NEW h, NEW t \in {"pending", "holding"}
  PROVE  ProposalKept([contracts |-> d, stages |-> <<>>, holdingFor |-> h, state |-> t])
<1>1. StageRecords(<<>>) BY EmptyIsFunction DEF StageRecords
<1>2. t \in CascadeStates /\ t # "resolved" BY DEF CascadeStates
<1> QED BY <1>1, <1>2, ProposalWritten, EmptyIsFunction

(* LEMMA: two fields replaced at once are replaced one after the other.      *)
LEMMA TwoFields ==
  ASSUME NEW p, NEW s, NEW t
  PROVE  [p EXCEPT !.stages = s, !.state = t] = [[p EXCEPT !.stages = s] EXCEPT !.state = t]
  OBVIOUS

(* LEMMA: new stages and a new state leave the rest of a proposal alone.     *)
LEMMA ProposalFields ==
  ASSUME NEW p, ProposalKept(p), NEW s, NEW t
  PROVE  [p EXCEPT !.stages = s, !.state = t] =
           [contracts |-> p.contracts, stages |-> s, holdingFor |-> p.holdingFor, state |-> t]
<1>1. PICK c, g, h, b : p = [contracts |-> c, stages |-> g, holdingFor |-> h, state |-> b]
  BY DEF ProposalKept
<1> DEFINE q == [p EXCEPT !.stages = s]
<1>2. q = [contracts |-> c, stages |-> s, holdingFor |-> h, state |-> b] BY <1>1
<1>3. p.contracts = c /\ p.holdingFor = h BY <1>1
<1>4. [p EXCEPT !.stages = s, !.state = t] = [q EXCEPT !.state = t] BY TwoFields
<1> HIDE DEF q
<1>5. [q EXCEPT !.state = t] = [contracts |-> c, stages |-> s, holdingFor |-> h, state |-> t] BY <1>2
<1> QED BY <1>3, <1>4, <1>5

(* LEMMA: staging covers, rejecting keeps, approving resolves only at last.  *)
LEMMA ProposalStages ==
  ASSUME NEW p, ProposalKept(p), NEW n \in ChunkSizes
  PROVE  ProposalKept([p EXCEPT !.stages = SplitIntoStages(p.contracts, n), !.state = "staged"])
<1>1. p.contracts \in DepLists BY DEF ProposalKept
<1>2. p.contracts \in Seq(ToSet(p.contracts)) /\ n \in Nat \ {0} BY <1>1, CascadeAssumption
<1> DEFINE s == SplitIntoStages(p.contracts, n)
<1>3. StageRecords(s) /\ StagesCover(s, p.contracts) BY <1>2, SlicesCover
<1>4. [p EXCEPT !.stages = s, !.state = "staged"] =
        [contracts |-> p.contracts, stages |-> s, holdingFor |-> p.holdingFor, state |-> "staged"]
  BY ProposalFields
<1> HIDE DEF s
<1>5. "staged" \in CascadeStates BY DEF CascadeStates
<1> QED BY <1>1, <1>3, <1>4, <1>5, ProposalWritten DEF s

(* LEMMA: a rejected proposal keeps its stages.                              *)
LEMMA ProposalRejected ==
  ASSUME NEW p, ProposalKept(p)
  PROVE  ProposalKept([p EXCEPT !.state = "rejected"])
<1>1. [p EXCEPT !.state = "rejected"] =
        [contracts |-> p.contracts, stages |-> p.stages, holdingFor |-> p.holdingFor, state |-> "rejected"]
  BY DEF ProposalKept
<1>2. "rejected" \in CascadeStates BY DEF CascadeStates
<1> QED BY <1>1, <1>2, ProposalWritten DEF ProposalKept

(* LEMMA: approving one stage resolves the proposal when it was the last.    *)
LEMMA ProposalApproved ==
  ASSUME NEW p, ProposalKept(p), NEW k \in DOMAIN p.stages
  PROVE  LET stages == [p.stages EXCEPT ![k].approved = TRUE]
             all == \A i \in DOMAIN stages : stages[i].approved
         IN  ProposalKept([p EXCEPT !.stages = stages, !.state = IF all THEN "resolved" ELSE "staged"])
<1> DEFINE stages == [p.stages EXCEPT ![k].approved = TRUE]
           all == \A i \in DOMAIN stages : stages[i].approved
           t == IF all THEN "resolved" ELSE "staged"
<1>1. \A i \in DOMAIN p.stages :
        p.stages[i] = [uris |-> p.stages[i].uris, approved |-> p.stages[i].approved]
  BY DEF ProposalKept, StageRecords
<1>2. DOMAIN stages = DOMAIN p.stages OBVIOUS
<1>3. stages[k] = [uris |-> p.stages[k].uris, approved |-> TRUE]
  <2>1. stages[k] = [p.stages[k] EXCEPT !.approved = TRUE] OBVIOUS
  <2>2. PICK u, a : p.stages[k] = [uris |-> u, approved |-> a] BY <1>1
  <2> QED BY <2>1, <2>2
<1>4. \A i \in DOMAIN p.stages : i # k => stages[i] = p.stages[i] OBVIOUS
<1>5. p.stages = [i \in DOMAIN p.stages |-> p.stages[i]] BY DEF ProposalKept, StageRecords
<1>6. stages = [i \in DOMAIN stages |-> stages[i]] BY <1>2
<1> HIDE DEF stages
<1>7. StageRecords(stages)
  <2>1. \A i \in DOMAIN stages : stages[i] = [uris |-> stages[i].uris, approved |-> stages[i].approved]
    BY <1>1, <1>2, <1>3, <1>4
  <2> QED BY <1>6, <2>1 DEF StageRecords
<1>8. DOMAIN stages # {} /\ StagesCover(stages, p.contracts)
  <2>1. StagesCover(p.stages, p.contracts) BY DEF ProposalKept
  <2>2. \A i \in DOMAIN p.stages : stages[i].uris = p.stages[i].uris BY <1>3, <1>4
  <2> QED BY <1>2, <2>1, <2>2 DEF StagesCover
<1>9. t \in CascadeStates /\ (t = "resolved" => all) BY DEF CascadeStates
<1>10. [p EXCEPT !.stages = stages, !.state = t] =
         [contracts |-> p.contracts, stages |-> stages, holdingFor |-> p.holdingFor, state |-> t]
  BY ProposalFields
<1>11. p.contracts \in DepLists BY DEF ProposalKept
<1>12. ProposalKept([p EXCEPT !.stages = stages, !.state = t])
  <2> HIDE DEF t
  <2> QED BY <1>7, <1>8, <1>9, <1>10, <1>11, ProposalWritten
<1> QED BY <1>12 DEF stages

(* LEMMA: nothing is authored at the start.                                  *)
LEMMA RiskStart == RiskInit => RiskInv
  BY CascadeAssumption, EmptyIsFunction DEF RiskInit, RiskInv, RisksTyped, CallInv

(* LEMMA: a well-typed risk replaces or joins well-typed risks.              *)
LEMMA UpsertTyped ==
  ASSUME NEW f, RisksTyped(f), NEW id \in Risks, NEW r \in RiskRecord
  PROVE  RisksTyped(Upsert(f, id, r))
  BY DEF RisksTyped, Upsert

(* LEMMA: where one proposal is saved, the others stay.                      *)
LEMMA SaveKeeps ==
  ASSUME RiskInv, NEW c \in DOMAIN cascades, NEW p, Save(c, p), ProposalKept(p)
  PROVE  RiskInv'
<1>1. \A d \in DOMAIN cascades' : d \in Risks \X (0..MaxSeconds) /\ ProposalKept(cascades'[d])
  <2>1. DOMAIN cascades' = DOMAIN cascades /\ cascades'[c] = p
          /\ \A d \in DOMAIN cascades : d # c => cascades'[d] = cascades[d]
    BY DEF Save
  <2> QED BY <2>1 DEF RiskInv
<1> QED BY <1>1 DEF Save, RiskInv, CallInv

(* LEMMA: every step of the architect's and the operator's tools keeps it.   *)
LEMMA RiskStep == ASSUME RiskInv, [RiskNext]_riskVars PROVE RiskInv'
<1>1. CASE UNCHANGED riskVars
  BY <1>1 DEF riskVars, RiskInv, CallInv
<1>2. ASSUME NEW id \in Risks, NEW s \in ByHand, NEW d \in DepLists, NEW i \in BOOLEAN,
             ArchSetRisk(id, s, d, i)
      PROVE  RiskInv'
  <2>1. [status |-> s, deps |-> d, intent |-> i] \in RiskRecord BY CascadeAssumption DEF RiskRecord
  <2>2. RisksTyped(risks') BY <1>2, <2>1, UpsertTyped DEF ArchSetRisk, RiskInv
  <2> QED BY <1>2, <2>2 DEF ArchSetRisk, RiskInv, CallInv
<1>3. ASSUME NEW id \in Risks, NEW d \in DepLists, ProposeSpike(id, d) PROVE RiskInv'
  <2>1. DOMAIN spikes' \subseteq Risks BY <1>3 DEF ProposeSpike, RiskInv, Upsert
  <2>2. spikeCall' = [risk |-> id, does |-> "propose", arch |-> risks, deps |-> d]
    BY <1>3 DEF ProposeSpike
  <2>3. RisksTyped(risks) BY DEF RiskInv
  <2>4. CallInv' BY <2>2, <2>3 DEF CallInv
  <2> QED BY <1>3, <2>1, <2>4 DEF ProposeSpike, RiskInv
<1>4. CASE SpikeProposed
  <2>1. spikeCall.risk \in Risks /\ RisksTyped(spikeCall.arch) /\ spikeCall.deps \in DepLists
    BY <1>4 DEF SpikeProposed, RiskInv, CallInv, Idle
  <2>2. [status |-> "spike_proposed", deps |-> spikeCall.deps, intent |-> TRUE] \in RiskRecord
    BY <2>1 DEF RiskRecord, RiskStatuses
  <2>3. RisksTyped(risks') BY <1>4, <2>1, <2>2, UpsertTyped DEF SpikeProposed, RiskInv
  <2> QED BY <1>4, <2>3 DEF SpikeProposed, RiskInv, CallInv
<1>5. ASSUME NEW id \in Risks, NEW o \in Outcomes, NEW k \in BOOLEAN, CompleteSpike(id, o, k)
      PROVE  RiskInv'
  <2>1. spikeCall' = [risk |-> id, does |-> "complete", arch |-> risks, outcome |-> o, constraint |-> k]
          /\ id \in DOMAIN risks
    BY <1>5 DEF CompleteSpike
  <2>2. RisksTyped(risks) BY DEF RiskInv
  <2>3. CallInv' BY <2>1, <2>2 DEF CallInv
  <2> QED BY <1>5, <2>3 DEF CompleteSpike, RiskInv
<1>6. ASSUME NEW hold, SpikeCompleted(hold) PROVE RiskInv'
  <2> DEFINE id == spikeCall.risk
             r == [spikeCall.arch[id] EXCEPT !.status = spikeCall.outcome]
  <2>1. id \in Risks /\ RisksTyped(spikeCall.arch) /\ id \in DOMAIN spikeCall.arch
          /\ spikeCall.outcome \in Outcomes
    BY <1>6 DEF SpikeCompleted, RiskInv, CallInv, Idle
  <2>2. r \in RiskRecord
    BY <2>1 DEF RisksTyped, RiskRecord, Outcomes, RiskStatuses
  <2>3. /\ risks' = Upsert(spikeCall.arch, id, r)
        /\ WriteCascadeProposal(id, r.deps, hold) \/ UNCHANGED cascades
        /\ spikes' = spikes \/ spikes' = [spikes EXCEPT ![id] = "resolved"]
        /\ spikeCall' = NoCall /\ UNCHANGED second
    BY <1>6 DEF SpikeCompleted
  <2> HIDE DEF id, r
  <2>4. RisksTyped(risks') BY <2>1, <2>2, <2>3, UpsertTyped
  <2>5. \A d \in DOMAIN cascades' : d \in Risks \X (0..MaxSeconds) /\ ProposalKept(cascades'[d])
    <3>1. CASE UNCHANGED cascades BY <3>1 DEF RiskInv
    <3>2. CASE WriteCascadeProposal(id, r.deps, hold)
      <4> DEFINE p == [contracts |-> r.deps, stages |-> <<>>, holdingFor |-> hold,
                       state |-> IF hold = <<>> THEN "pending" ELSE "holding"]
      <4>1. ProposalKept(p) BY <2>2, NewProposalKept DEF RiskRecord
      <4>2. cascades' = Upsert(cascades, <<id, second>>, p) BY <3>2 DEF WriteCascadeProposal
      <4>3. <<id, second>> \in Risks \X (0..MaxSeconds) BY <2>1 DEF RiskInv
      <4> HIDE DEF p
      <4> QED BY <4>1, <4>2, <4>3 DEF Upsert, RiskInv
    <3> QED BY <2>3, <3>1, <3>2
  <2> QED BY <2>3, <2>4, <2>5 DEF RiskInv, CallInv
<1>7. ASSUME NEW c \in DOMAIN cascades, RejectCascade(c) PROVE RiskInv'
  <2>1. ProposalKept(cascades[c]) BY DEF RiskInv
  <2> QED BY <1>7, <2>1, ProposalRejected, SaveKeeps DEF RejectCascade
<1>8. ASSUME NEW c \in DOMAIN cascades, NEW n \in ChunkSizes, StageCascade(c, n) PROVE RiskInv'
  <2>1. ProposalKept(cascades[c]) BY DEF RiskInv
  <2> QED BY <1>8, <2>1, ProposalStages, SaveKeeps DEF StageCascade
<1>9. ASSUME NEW c \in DOMAIN cascades, NEW k \in DOMAIN cascades[c].stages, ApproveCascadeStage(c, k)
      PROVE  RiskInv'
  <2>1. ProposalKept(cascades[c]) BY DEF RiskInv
  <2> DEFINE stages == [cascades[c].stages EXCEPT ![k].approved = TRUE]
             p == [cascades[c] EXCEPT !.stages = stages,
                     !.state = IF \A i \in DOMAIN stages : stages[i].approved THEN "resolved" ELSE "staged"]
  <2>2. ProposalKept(p) BY <2>1, ProposalApproved
  <2>3. Save(c, p) BY <1>9 DEF ApproveCascadeStage
  <2> HIDE DEF p
  <2> QED BY <2>2, <2>3, SaveKeeps
<1>10. CASE Tick
  BY <1>10, CascadeAssumption DEF Tick, RiskInv, CallInv
<1> QED BY <1>1, <1>2, <1>3, <1>4, <1>5, <1>6, <1>7, <1>8, <1>9, <1>10 DEF RiskNext

(* THEOREM: a cascade is resolved only over approved stages for all of its   *)
(* contracts, whatever chunks it was cut in and however often.                *)
THEOREM RisksCovered == RiskSpec => []ResolvedCoversAll
  BY RiskStart, RiskStep, KeptMeansCovered, PTL DEF RiskSpec

-----------------------------------------------------------------------------
(* Discovery: the handoff is the last write of each finalize, so a level     *)
(* handed over has its documents; and nobody rewrites the discovery once the *)
(* suites that divide it are handed over.                                    *)

Walks == [saved : BOOLEAN, current : Journeys \cup {None}, candidates : SUBSET Journeys,
          pending : SUBSET (Caps \X Journeys), digest : 0..MaxEdits]
IsDoc(d) == d = [personas |-> d.personas, journeys |-> d.journeys, roster |-> d.roster]
Divided == DOMAIN suites # {} /\ Covers(suites, CapsOf(disco))

DiscoShape ==
  /\ md \in 0..MaxEdits /\ deaths \in 0..MaxDeaths
  /\ handed \subseteq {"l0", "l1", "l2"} \cup SuiteIds /\ specs \subseteq SuiteIds
  /\ suites \in Partial(SuiteIds, SUBSET Caps)
  /\ walk \in Walks /\ IsDoc(staged)
  /\ disco = <<>> \/ DocValid(disco)
  /\ agent \in {None, "l0", "l1", "l2"} \cup SuiteIds
HandedInv ==
  /\ "l1" \in handed => disco # <<>>
  /\ "l2" \in handed => "l1" \in handed /\ Divided
  /\ handed \cap SuiteIds \subseteq specs
  /\ agent = "l1" => "l2" \notin handed
  /\ agent = "l2" => "l1" \in handed

L1Writes ==
  /\ fin.doc # <<>> /\ DocValid(fin.doc)
  /\ \/ fin.todo = <<"md", "doc", "state", "drain", "handoff">> /\ md < MaxEdits
     \/ fin.todo = <<"doc", "state", "drain", "handoff">>
     \/ /\ fin.todo \in {<<"state", "drain", "handoff">>, <<"drain", "handoff">>, <<"handoff">>}
        /\ disco # <<>>
L2Writes ==
  \/ /\ fin.todo = <<"index", "handoff">> /\ fin.doc \in Partial(SuiteIds, SUBSET Caps)
     /\ DOMAIN fin.doc # {} /\ Covers(fin.doc, CapsOf(disco))
  \/ fin.todo = <<"handoff">> /\ Divided
L3Writes ==
  \/ fin.todo = <<"spec", "handoff">>
  \/ fin.todo = <<"handoff">> /\ fin.level \in specs
FinInv ==
  \/ fin = <<>>
  \/ /\ fin = [level |-> fin.level, doc |-> fin.doc, todo |-> fin.todo] /\ agent = fin.level
     /\ \/ fin.level = "l0" /\ fin.todo = <<"handoff">>
        \/ fin.level = "l1" /\ L1Writes
        \/ fin.level = "l2" /\ L2Writes
        \/ fin.level \in SuiteIds /\ L3Writes
DiscoInv == DiscoShape /\ HandedInv /\ FinInv /\ ReconcileSettles

(* LEMMA: what no level left open means for the architect.                   *)
LEMMA DiscoMeansInputs == DiscoInv => ArchitectInputs
<1>1. ASSUME DiscoInv PROVE DOMAIN suites \subseteq SuiteIds BY <1>1 DEF DiscoInv, DiscoShape, Partial
<1> SUFFICES ASSUME DiscoInv, NextOpen = {"sa"} PROVE {"l0", "l1", "l2"} \subseteq handed /\ DOMAIN suites \subseteq handed
  BY <1>1 DEF DiscoInv, DiscoShape, HandedInv, Divided, ArchitectInputs
<1>2. "sa" \notin SuiteIds BY DiscoveryAssumption
<1>3. {"l0", "l1", "l2"} \subseteq handed
  <2>1. CASE "l0" \notin handed BY <2>1 DEF NextOpen
  <2>2. CASE "l0" \in handed /\ "l1" \notin handed BY <2>2 DEF NextOpen
  <2>3. CASE {"l0", "l1"} \subseteq handed /\ "l2" \notin handed BY <2>3 DEF NextOpen
  <2> QED BY <2>1, <2>2, <2>3
<1>4. NextOpen = IF DOMAIN suites \subseteq handed THEN {"sa"} ELSE DOMAIN suites \ handed
  BY <1>3 DEF NextOpen
<1> QED BY <1>1, <1>2, <1>3, <1>4

(* LEMMA: and the files are well typed.                                      *)
LEMMA DiscoIsTyped == DiscoInv => DiscoTypeOK
  BY DEF DiscoInv, DiscoShape, DiscoTypeOK, Walks

(* LEMMA: nothing is written at the start.                                   *)
LEMMA DiscoStart == DiscoInit => DiscoInv
<1> SUFFICES ASSUME DiscoInit PROVE DiscoInv OBVIOUS
<1>1. <<>> \in Partial(SuiteIds, SUBSET Caps)
  <2>1. <<>> \in [{} -> SUBSET Caps] OBVIOUS
  <2> QED BY <2>1 DEF Partial
<1>2. NoWalk \in Walks BY DiscoveryAssumption DEF NoWalk, Walks
<1>3. IsDoc(NoDoc) BY DEF NoDoc, IsDoc
<1>4. DiscoShape BY <1>1, <1>2, <1>3, DiscoveryAssumption DEF DiscoInit, DiscoShape
<1>5. HandedInv BY DEF DiscoInit, HandedInv, None
<1>6. FinInv BY DEF DiscoInit, FinInv
<1>7. ReconcileSettles BY DEF DiscoInit, ReconcileSettles, Modes, None
<1> QED BY <1>4, <1>5, <1>6, <1>7 DEF DiscoInv

(* LEMMA: three fields of the walk replaced at once, one after the other.    *)
LEMMA ThreeFields ==
  ASSUME NEW w, NEW a, NEW b, NEW c
  PROVE  [w EXCEPT !.current = a, !.candidates = b, !.digest = c] =
           [[[w EXCEPT !.current = a] EXCEPT !.candidates = b] EXCEPT !.digest = c]
  OBVIOUS

WalkWith(w, a, b, c) == [[w EXCEPT !.current = a, !.candidates = b, !.digest = c] EXCEPT !.saved = TRUE]

(* LEMMA: what a reconciliation makes of a walk, when it is saved.           *)
LEMMA WalkReconciled ==
  ASSUME NEW w \in Walks, NEW a \in Journeys \cup {None}, NEW b \in SUBSET Journeys, NEW c \in 0..MaxEdits
  PROVE  /\ WalkWith(w, a, b, c) \in Walks /\ WalkWith(w, a, b, c).current = a
         /\ WalkWith(w, a, b, c).candidates = b /\ WalkWith(w, a, b, c).digest = c
<1> DEFINE v == [w EXCEPT !.current = a]
           x == [v EXCEPT !.candidates = b]
           y == [x EXCEPT !.digest = c]
<1>1. [w EXCEPT !.current = a, !.candidates = b, !.digest = c] = y BY ThreeFields
<1>2. v \in Walks /\ v.current = a BY DEF Walks
<1> HIDE DEF v
<1>3. x \in Walks /\ x.current = a /\ x.candidates = b BY <1>2 DEF Walks
<1> HIDE DEF x
<1>4. y \in Walks /\ y.current = a /\ y.candidates = b /\ y.digest = c BY <1>3 DEF Walks
<1> HIDE DEF y
<1> QED BY <1>1, <1>4 DEF Walks, WalkWith

(* LEMMA: a resume that lets the document win leaves nothing to resolve.     *)
LEMMA ReconciledSettles ==
  ASSUME NEW w \in Walks, md \in 0..MaxEdits, NEW mode \in Modes
  PROVE  LET v == [Reconciled(w, mode) EXCEPT !.saved = TRUE]
         IN  v \in Walks /\ (mode # "prefer-state" => Divergences(v) = {})
<1> DEFINE v == [Reconciled(w, mode) EXCEPT !.saved = TRUE]
<1>1. CASE mode = "abandon-state"
  <2> DEFINE y == [NoWalk EXCEPT !.digest = md]
  <2>1. NoWalk \in Walks /\ NoWalk.current = None /\ NoWalk.candidates = {}
    BY DiscoveryAssumption DEF NoWalk, Walks
  <2>2. y \in Walks /\ y.current = None /\ y.candidates = {} /\ y.digest = md BY <2>1 DEF Walks
  <2>3. Reconciled(w, mode) = y BY <1>1 DEF Reconciled
  <2> HIDE DEF y
  <2>4. v \in Walks /\ v.current = None /\ v.candidates = {} /\ v.digest = md BY <2>2, <2>3 DEF Walks
  <2>5. Divergences(v) = {} BY <2>4 DEF Divergences, StaleJourney, ConcurrentEdit, OrphanedWalk
  <2> QED BY <2>4, <2>5
<1>2. CASE mode # "abandon-state"
  <2> DEFINE cur == IF StaleJourney(w) /\ mode # "prefer-state" THEN None ELSE w.current
             cand == IF OrphanedWalk(w) /\ mode # "prefer-state" THEN w.candidates \cap Known ELSE w.candidates
  <2>1. Reconciled(w, mode) = [w EXCEPT !.current = cur, !.candidates = cand, !.digest = md]
    BY <1>2 DEF Reconciled
  <2>2. cur \in Journeys \cup {None} /\ cand \in SUBSET Journeys BY DEF Walks
  <2>3. v \in Walks /\ v.current = cur /\ v.candidates = cand /\ v.digest = md
    <3> HIDE DEF cur, cand
    <3>1. v = WalkWith(w, cur, cand, md) BY <2>1, Zenon DEF WalkWith
    <3> HIDE DEF v
    <3> QED BY <2>2, <3>1, WalkReconciled
  <2>4. ASSUME mode # "prefer-state" PROVE Divergences(v) = {}
    <3> HIDE DEF v
    <3>1. ~StaleJourney(v) BY <2>3, <2>4 DEF StaleJourney
    <3>2. ~ConcurrentEdit(v) BY <2>3 DEF ConcurrentEdit
    <3>3. ~OrphanedWalk(v) BY <2>3, <2>4 DEF OrphanedWalk
    <3> QED BY <3>1, <3>2, <3>3 DEF Divergences
  <2> QED BY <2>3, <2>4
<1> QED BY <1>1, <1>2

(* LEMMA: what has settled stays so while nothing it depends on moves.       *)
LEMMA SettledKept ==
  ASSUME ReconcileSettles, settled' = None \/ UNCHANGED <<settled, walk, disco, md>>
  PROVE  ReconcileSettles'
<1>1. CASE settled' = None BY <1>1 DEF ReconcileSettles, Modes, None
<1>2. CASE UNCHANGED <<settled, walk, disco, md>>
  BY <1>2 DEF ReconcileSettles, Divergences, StaleJourney, ConcurrentEdit, OrphanedWalk, Known
<1> QED BY <1>1, <1>2

(* LEMMA: staging parts and walking the journeys touches no document.        *)
LEMMA WalkingKeeps ==
  ASSUME DiscoInv, UNCHANGED <<disco, md, suites, specs, handed, agent, fin, deaths>>,
         walk' \in Walks, IsDoc(staged'), settled' = None \/ UNCHANGED <<settled, walk>>
  PROVE  DiscoInv'
<1>1. ReconcileSettles' BY SettledKept DEF DiscoInv
<1>2. DiscoShape' BY DEF DiscoInv, DiscoShape, Walks
<1>3. HandedInv' BY DEF DiscoInv, HandedInv, Divided
<1>4. FinInv' BY DEF DiscoInv, FinInv, L1Writes, L2Writes, L3Writes, Divided
<1> QED BY <1>1, <1>2, <1>3, <1>4 DEF DiscoInv

(* LEMMA: spawns, ends and deaths leave no half-written finalize behind.     *)
LEMMA AgentsKeep ==
  ASSUME DiscoInv, UNCHANGED <<staged, disco, md, walk, suites, specs, handed, settled>>,
         deaths' \in 0..MaxDeaths, fin' = <<>>,
         \/ agent' = None
         \/ agent' \in NextOpen \ {"sa"}
  PROVE  DiscoInv'
<1>1. ReconcileSettles' BY SettledKept DEF DiscoInv
<1>2. /\ agent' \in {None, "l0", "l1", "l2"} \cup SuiteIds
      /\ agent' = "l1" => "l2" \notin handed
      /\ agent' = "l2" => "l1" \in handed
  <2>1. CASE agent' = None BY <2>1 DEF None
  <2>2. CASE agent' \in NextOpen \ {"sa"}
    <3>1. DOMAIN suites \subseteq SuiteIds BY DEF DiscoInv, DiscoShape, Partial
    <3>2. "l1" \notin SuiteIds /\ "l2" \notin SuiteIds BY DiscoveryAssumption
    <3>3. "l2" \in handed => "l1" \in handed BY DEF DiscoInv, HandedInv
    <3>4. CASE "l0" \notin handed BY <2>2, <3>3, <3>4 DEF NextOpen
    <3>5. CASE "l0" \in handed /\ "l1" \notin handed BY <2>2, <3>3, <3>5 DEF NextOpen
    <3>6. CASE {"l0", "l1"} \subseteq handed /\ "l2" \notin handed BY <2>2, <3>6 DEF NextOpen
    <3>7. CASE {"l0", "l1", "l2"} \subseteq handed BY <2>2, <3>1, <3>2, <3>7 DEF NextOpen
    <3> QED BY <3>4, <3>5, <3>6, <3>7
  <2> QED BY <2>1, <2>2
<1>3. DiscoShape' BY <1>2 DEF DiscoInv, DiscoShape, Walks, None
<1>4. HandedInv' BY <1>2 DEF DiscoInv, HandedInv, Divided
<1>5. FinInv' BY DEF FinInv
<1> QED BY <1>1, <1>3, <1>4, <1>5 DEF DiscoInv

(* LEMMA: a finalize that has passed its checks has written nothing yet.     *)
LEMMA FinalizeBegins ==
  ASSUME DiscoInv, NEW level, NEW doc, NEW todo, agent = level, Writes(level, doc, todo),
         UNCHANGED <<staged, disco, md, walk, suites, specs, handed, agent, settled, deaths>>,
         \/ level = "l0" /\ todo = <<"handoff">>
         \/ /\ level = "l1" /\ doc # <<>> /\ DocValid(doc) /\ md < MaxEdits
            /\ todo = <<"md", "doc", "state", "drain", "handoff">>
         \/ /\ level = "l2" /\ doc \in Partial(SuiteIds, SUBSET Caps) /\ DOMAIN doc # {}
            /\ Covers(doc, CapsOf(disco)) /\ todo = <<"index", "handoff">>
         \/ level \in SuiteIds /\ todo = <<"spec", "handoff">>
  PROVE  DiscoInv'
<1>1. ReconcileSettles' BY SettledKept DEF DiscoInv
<1>2. DiscoShape' BY DEF DiscoInv, DiscoShape
<1>3. HandedInv' BY DEF DiscoInv, HandedInv, Divided
<1>4. fin' = [level |-> level, doc |-> doc, todo |-> todo] BY DEF Writes
<1>5. FinInv' BY <1>4 DEF FinInv, L1Writes, L2Writes, L3Writes
<1> QED BY <1>1, <1>2, <1>3, <1>5 DEF DiscoInv

(* LEMMA: the steps left after the first one.                                *)
LEMMA TodoTails ==
  /\ Head(<<"handoff">>) = "handoff" /\ Len(<<"handoff">>) = 1
  /\ LET t == <<"md", "doc", "state", "drain", "handoff">>
     IN  Head(t) = "md" /\ Len(t) # 1 /\ Tail(t) = <<"doc", "state", "drain", "handoff">>
  /\ LET t == <<"doc", "state", "drain", "handoff">>
     IN  Head(t) = "doc" /\ Len(t) # 1 /\ Tail(t) = <<"state", "drain", "handoff">>
  /\ LET t == <<"state", "drain", "handoff">>
     IN  Head(t) = "state" /\ Len(t) # 1 /\ Tail(t) = <<"drain", "handoff">>
  /\ LET t == <<"drain", "handoff">> IN Head(t) = "drain" /\ Len(t) # 1 /\ Tail(t) = <<"handoff">>
  /\ LET t == <<"index", "handoff">> IN Head(t) = "index" /\ Len(t) # 1 /\ Tail(t) = <<"handoff">>
  /\ LET t == <<"spec", "handoff">> IN Head(t) = "spec" /\ Len(t) # 1 /\ Tail(t) = <<"handoff">>
  OBVIOUS

(* LEMMA: a fresh walk carries the digest of the document.                   *)
LEMMA FreshWalk ==
  ASSUME md \in 0..MaxEdits PROVE [NoWalk EXCEPT !.saved = TRUE, !.digest = md] \in Walks
<1> DEFINE v == [NoWalk EXCEPT !.saved = TRUE]
<1>1. [NoWalk EXCEPT !.saved = TRUE, !.digest = md] = [v EXCEPT !.digest = md] OBVIOUS
<1>2. NoWalk \in Walks BY DiscoveryAssumption DEF NoWalk, Walks
<1>3. v \in Walks BY <1>2 DEF Walks
<1> HIDE DEF v
<1> QED BY <1>1, <1>3 DEF Walks

(* LEMMA: each write of a finalize leaves the rest of them to be made, and   *)
(* the handoff comes when its documents are there.                           *)
LEMMA WriteKeeps == ASSUME DiscoInv, Write PROVE DiscoInv'
<1>1. fin # <<>> BY DEF Write
<1>2. PICK lv, dc, td : fin = [level |-> lv, doc |-> dc, todo |-> td] BY <1>1 DEF DiscoInv, FinInv
<1>3. fin.level = lv /\ fin.doc = dc /\ fin.todo = td /\ agent = lv BY <1>1, <1>2 DEF DiscoInv, FinInv
<1>4. /\ md' = IF Head(td) = "md" THEN md + 1 ELSE md
      /\ disco' = IF Head(td) = "doc" THEN dc ELSE disco
      /\ walk' = IF Head(td) = "state" THEN [NoWalk EXCEPT !.saved = TRUE, !.digest = md] ELSE walk
      /\ staged' = IF Head(td) = "drain" THEN NoDoc ELSE staged
      /\ suites' = IF Head(td) = "index" THEN dc ELSE suites
      /\ specs' = IF Head(td) = "spec" THEN specs \cup {lv} ELSE specs
      /\ handed' = IF Head(td) = "handoff" THEN handed \cup {lv} ELSE handed
      /\ settled' = IF Head(td) = "handoff" THEN settled ELSE None
      /\ UNCHANGED <<agent, deaths>>
  BY <1>3 DEF Write
<1>5. Len(td) # 1 => fin' = [level |-> lv, doc |-> dc, todo |-> Tail(td)] BY <1>2, <1>3 DEF Write
<1>6. Len(td) = 1 => fin' = <<>> BY <1>3 DEF Write
<1>7. \/ td = <<"handoff">>
      \/ lv = "l1" /\ td \in {<<"md", "doc", "state", "drain", "handoff">>,
             <<"doc", "state", "drain", "handoff">>, <<"state", "drain", "handoff">>, <<"drain", "handoff">>}
      \/ lv = "l2" /\ td = <<"index", "handoff">>
      \/ lv \in SuiteIds /\ td = <<"spec", "handoff">>
  BY <1>1, <1>3 DEF DiscoInv, FinInv, L1Writes, L2Writes, L3Writes
<1>8. "l0" \notin SuiteIds /\ "l1" \notin SuiteIds /\ "l2" \notin SuiteIds BY DiscoveryAssumption
<1>9. ASSUME lv = "l1" PROVE dc # <<>> /\ DocValid(dc) /\ "l2" \notin handed
  BY <1>1, <1>3, <1>8, <1>9 DEF DiscoInv, FinInv, HandedInv, L1Writes
<1>10. DiscoShape /\ HandedInv /\ md \in 0..MaxEdits BY DEF DiscoInv, DiscoShape
<1>11. CASE td = <<"handoff">>
  <2>1. handed' = handed \cup {lv} /\ fin' = <<>>
        /\ UNCHANGED <<md, disco, walk, staged, suites, specs, settled, agent, deaths>>
    BY <1>4, <1>6, <1>11, TodoTails
  <2>2. ReconcileSettles' BY <2>1, SettledKept DEF DiscoInv
  <2>3. \/ lv = "l0"
        \/ lv = "l1" /\ disco # <<>>
        \/ lv = "l2" /\ Divided
        \/ lv \in SuiteIds /\ lv \in specs
    BY <1>1, <1>3, <1>11 DEF DiscoInv, FinInv, L1Writes, L2Writes, L3Writes
  <2>4. HandedInv' BY <1>3, <1>8, <1>10, <2>1, <2>3 DEF HandedInv, Divided
  <2>5. DiscoShape' BY <1>10, <2>1, <2>3 DEF DiscoShape, Walks
  <2>6. FinInv' BY <2>1 DEF FinInv
  <2> QED BY <2>2, <2>4, <2>5, <2>6 DEF DiscoInv
<1>12. CASE td # <<"handoff">>
  <2>1. settled' = None /\ handed' = handed BY <1>4, <1>7, <1>12, TodoTails
  <2>2. ReconcileSettles' BY <2>1, SettledKept DEF DiscoInv
  <2>3. CASE td = <<"md", "doc", "state", "drain", "handoff">>
    <3>1. md' = md + 1 /\ fin' = [level |-> lv, doc |-> dc, todo |-> <<"doc", "state", "drain", "handoff">>]
          /\ UNCHANGED <<disco, walk, staged, suites, specs, agent, deaths>>
      BY <1>4, <1>5, <2>3, TodoTails
    <3>2. lv = "l1" /\ md < MaxEdits
      BY <1>1, <1>3, <2>3 DEF DiscoInv, FinInv, L1Writes, L2Writes, L3Writes
    <3>3. md' \in 0..MaxEdits BY <1>10, <3>1, <3>2, DiscoveryAssumption
    <3>4. DiscoShape' BY <1>10, <2>1, <3>1, <3>3 DEF DiscoShape, Walks
    <3>5. HandedInv' BY <1>10, <2>1, <3>1 DEF HandedInv, Divided
    <3>6. FinInv' BY <1>3, <1>9, <3>1, <3>2 DEF FinInv, L1Writes
    <3> QED BY <2>2, <3>4, <3>5, <3>6 DEF DiscoInv
  <2>4. CASE td = <<"doc", "state", "drain", "handoff">>
    <3>1. disco' = dc /\ fin' = [level |-> lv, doc |-> dc, todo |-> <<"state", "drain", "handoff">>]
          /\ UNCHANGED <<md, walk, staged, suites, specs, agent, deaths>>
      BY <1>4, <1>5, <2>4, TodoTails
    <3>2. lv = "l1" BY <1>7, <2>4
    <3>3. DiscoShape' BY <1>9, <1>10, <2>1, <3>1, <3>2 DEF DiscoShape, Walks
    <3>4. HandedInv' BY <1>9, <1>10, <2>1, <3>1, <3>2 DEF HandedInv
    <3>5. FinInv' BY <1>3, <1>9, <3>1, <3>2 DEF FinInv, L1Writes
    <3> QED BY <2>2, <3>3, <3>4, <3>5 DEF DiscoInv
  <2>5. CASE td \in {<<"state", "drain", "handoff">>, <<"drain", "handoff">>}
    <3>1. fin' = [level |-> lv, doc |-> dc, todo |-> Tail(td)]
          /\ Tail(td) \in {<<"drain", "handoff">>, <<"handoff">>}
          /\ UNCHANGED <<md, disco, suites, specs, agent, deaths>>
      BY <1>4, <1>5, <2>5, TodoTails
    <3>2. lv = "l1" BY <1>7, <2>5
    <3>3. disco # <<>>
      <4>1. lv # "l0" /\ lv # "l2" /\ lv \notin SuiteIds BY <1>8, <3>2
      <4>2. L1Writes BY <1>1, <1>3, <4>1 DEF DiscoInv, FinInv
      <4> QED BY <1>3, <2>5, <4>2, TodoTails DEF L1Writes
    <3>4. walk' \in Walks BY <1>4, <1>10, FreshWalk DEF DiscoShape
    <3>5. IsDoc(NoDoc) BY DEF NoDoc, IsDoc
    <3>6. IsDoc(staged') BY <1>4, <1>10, <3>5 DEF DiscoShape
    <3>7. DiscoShape' BY <1>10, <2>1, <3>1, <3>4, <3>6 DEF DiscoShape, Walks
    <3>8. HandedInv' BY <1>10, <2>1, <3>1 DEF HandedInv, Divided
    <3>9. FinInv' BY <1>3, <1>9, <3>1, <3>2, <3>3 DEF FinInv, L1Writes
    <3> QED BY <2>2, <3>7, <3>8, <3>9 DEF DiscoInv
  <2>6. CASE lv = "l2" /\ td = <<"index", "handoff">>
    <3>1. suites' = dc /\ fin' = [level |-> lv, doc |-> dc, todo |-> <<"handoff">>]
          /\ UNCHANGED <<md, disco, walk, staged, specs, agent, deaths>>
      BY <1>4, <1>5, <2>6, TodoTails
    <3>2. dc \in Partial(SuiteIds, SUBSET Caps) /\ DOMAIN dc # {} /\ Covers(dc, CapsOf(disco))
      <4>1. L2Writes BY <1>1, <1>3, <1>8, <2>6 DEF DiscoInv, FinInv
      <4> QED BY <1>3, <2>6, <4>1, TodoTails DEF L2Writes
    <3>3. Divided' BY <3>1, <3>2 DEF Divided
    <3>4. DiscoShape' BY <1>10, <2>1, <3>1, <3>2 DEF DiscoShape, Walks
    <3>5. HandedInv' BY <1>10, <2>1, <3>1, <3>3 DEF HandedInv
    <3>6. FinInv' BY <1>3, <2>6, <3>1, <3>3 DEF FinInv, L2Writes
    <3> QED BY <2>2, <3>4, <3>5, <3>6 DEF DiscoInv
  <2>7. CASE lv \in SuiteIds /\ td = <<"spec", "handoff">>
    <3>1. specs' = specs \cup {lv} /\ fin' = [level |-> lv, doc |-> dc, todo |-> <<"handoff">>]
          /\ UNCHANGED <<md, disco, walk, staged, suites, agent, deaths>>
      BY <1>4, <1>5, <2>7, TodoTails
    <3>2. DiscoShape' BY <1>10, <2>1, <2>7, <3>1 DEF DiscoShape, Walks
    <3>3. HandedInv' BY <1>10, <2>1, <3>1 DEF HandedInv, Divided
    <3>4. FinInv' BY <1>3, <2>7, <3>1 DEF FinInv, L3Writes
    <3> QED BY <2>2, <3>2, <3>3, <3>4 DEF DiscoInv
  <2> QED BY <1>7, <1>12, <2>3, <2>4, <2>5, <2>6, <2>7
<1> QED BY <1>11, <1>12

(* LEMMA: the operator edits the document when no agent is at work, so no    *)
(* finalize is under way.                                                    *)
LEMMA HandEditKeeps == ASSUME DiscoInv, HandEdit PROVE DiscoInv'
<1>1. settled' = None /\ agent = None /\ md' = md + 1 /\ md \in 1..(MaxEdits - 1)
      /\ UNCHANGED <<staged, disco, walk, suites, specs, handed, agent, fin, deaths>>
  BY DEF HandEdit
<1>2. md' \in 0..MaxEdits BY <1>1, DiscoveryAssumption
<1>3. fin = <<>>
  <2>1. None \notin {"l0", "l1", "l2"} \cup SuiteIds BY DiscoveryAssumption DEF None
  <2> QED BY <1>1, <2>1 DEF DiscoInv, FinInv
<1>4. ReconcileSettles' BY <1>1, SettledKept DEF DiscoInv
<1>5. DiscoShape' BY <1>1, <1>2 DEF DiscoInv, DiscoShape, Walks
<1>6. HandedInv' BY <1>1 DEF DiscoInv, HandedInv, Divided
<1>7. FinInv' BY <1>1, <1>3 DEF FinInv
<1> QED BY <1>4, <1>5, <1>6, <1>7 DEF DiscoInv

(* LEMMA: a document with one part replaced is a document.                   *)
LEMMA DocWith ==
  ASSUME NEW d, IsDoc(d), NEW x
  PROVE  /\ IsDoc([d EXCEPT !.personas = x]) /\ IsDoc([d EXCEPT !.journeys = x])
         /\ IsDoc([d EXCEPT !.roster = x]) /\ d # <<>>
<1>1. PICK a, b, c : d = [personas |-> a, journeys |-> b, roster |-> c] BY DEF IsDoc
<1>2. [d EXCEPT !.personas = x] = [personas |-> x, journeys |-> b, roster |-> c] BY <1>1
<1>3. [d EXCEPT !.journeys = x] = [personas |-> a, journeys |-> x, roster |-> c] BY <1>1
<1>4. [d EXCEPT !.roster = x] = [personas |-> a, journeys |-> b, roster |-> x] BY <1>1
<1>5. d # <<>>
  <2>1. "personas" \in DOMAIN d BY <1>1
  <2>2. DOMAIN <<>> = {} OBVIOUS
  <2> QED BY <2>1, <2>2
<1> QED BY <1>2, <1>3, <1>4, <1>5 DEF IsDoc

(* LEMMA: saving a walk with one field replaced.                             *)
LEMMA WalkSaved ==
  ASSUME NEW w \in Walks
  PROVE  /\ \A x \in Journeys \cup {None} : [[w EXCEPT !.current = x] EXCEPT !.saved = TRUE] \in Walks
         /\ \A x \in SUBSET Journeys : [[w EXCEPT !.candidates = x] EXCEPT !.saved = TRUE] \in Walks
         /\ \A x \in SUBSET (Caps \X Journeys) : [[w EXCEPT !.pending = x] EXCEPT !.saved = TRUE] \in Walks
<1>1. \A v \in Walks : [v EXCEPT !.saved = TRUE] \in Walks BY DEF Walks
<1>2. \A x \in Journeys \cup {None} : [w EXCEPT !.current = x] \in Walks BY DEF Walks
<1>3. \A x \in SUBSET Journeys : [w EXCEPT !.candidates = x] \in Walks BY DEF Walks
<1>4. \A x \in SUBSET (Caps \X Journeys) : [w EXCEPT !.pending = x] \in Walks BY DEF Walks
<1> QED BY <1>1, <1>2, <1>3, <1>4

(* LEMMA: every step of the discovery keeps its invariant.                   *)
LEMMA DiscoStep == DiscoInv /\ [DiscoNext]_discoVars => DiscoInv'
<1> SUFFICES ASSUME DiscoInv, [DiscoNext]_discoVars PROVE DiscoInv' OBVIOUS
<1>1. IsDoc(staged) /\ walk \in Walks /\ md \in 0..MaxEdits /\ deaths \in 0..MaxDeaths
  BY DEF DiscoInv, DiscoShape
<1>2. CASE UNCHANGED discoVars BY <1>1, <1>2, WalkingKeeps DEF discoVars
<1>3. CASE SpawnLevel
  <2>1. fin = <<>>
    <3>1. None \notin {"l0", "l1", "l2"} \cup SuiteIds BY DiscoveryAssumption DEF None
    <3> QED BY <1>3, <3>1 DEF DiscoInv, FinInv, SpawnLevel
  <2> QED BY <1>1, <1>3, <2>1, AgentsKeep DEF SpawnLevel
<1>4. CASE LevelEnds BY <1>1, <1>4, AgentsKeep DEF LevelEnds
<1>5. CASE Dies
  <2>1. deaths' \in 0..MaxDeaths BY <1>1, <1>5, DiscoveryAssumption DEF Dies
  <2> QED BY <1>5, <2>1, AgentsKeep DEF Dies
<1>6. CASE HandEdit BY <1>6, HandEditKeeps
<1>7. CASE L0Finalize BY <1>7, FinalizeBegins DEF L0Finalize, At
<1>8. CASE Write BY <1>8, WriteKeeps
<1>9. ASSUME NEW p \in Personas, AddPersona(p) PROVE DiscoInv'
  BY <1>1, <1>9, DocWith, WalkingKeeps DEF AddPersona
<1>10. ASSUME NEW j \in Journeys, NEW p \in Personas, NEW cs \in SUBSET Caps, AddJourney(j, p, cs)
       PROVE  DiscoInv'
  <2>1. IsDoc(staged') BY <1>1, <1>10, DocWith DEF AddJourney
  <2> QED BY <1>1, <1>10, <2>1, WalkingKeeps DEF AddJourney
<1>11. ASSUME NEW c \in Caps, NEW js \in SUBSET Journeys, AddCapability(c, js) PROVE DiscoInv'
  <2>1. IsDoc(staged') BY <1>1, <1>11, DocWith DEF AddCapability
  <2> QED BY <1>1, <1>11, <2>1, WalkingKeeps DEF AddCapability
<1>12. ASSUME NEW j \in Journeys \cup {None}, SetPhase(j) PROVE DiscoInv'
  <2>1. walk' \in Walks BY <1>1, <1>12, WalkSaved DEF SetPhase, SavesWalk
  <2> QED BY <1>1, <1>12, <2>1, WalkingKeeps DEF SetPhase, SavesWalk
<1>13. ASSUME NEW js \in SUBSET Journeys, SetPartialWalk(js) PROVE DiscoInv'
  <2>1. walk' \in Walks BY <1>1, <1>13, WalkSaved DEF SetPartialWalk, SavesWalk
  <2> QED BY <1>1, <1>13, <2>1, WalkingKeeps DEF SetPartialWalk, SavesWalk
<1>14. walk.pending \in SUBSET (Caps \X Journeys) BY <1>1 DEF Walks
<1>15. ASSUME NEW j \in Journeys, ClearPending(j) PROVE DiscoInv'
  <2>1. walk' = [[walk EXCEPT !.pending = {x \in walk.pending : x[2] # j}] EXCEPT !.saved = TRUE]
    BY <1>15 DEF ClearPending, SavesWalk
  <2>2. {x \in walk.pending : x[2] # j} \in SUBSET (Caps \X Journeys) BY <1>14
  <2>3. walk' \in Walks BY <1>1, <2>1, <2>2, WalkSaved
  <2> QED BY <1>1, <1>15, <2>3, WalkingKeeps DEF ClearPending, SavesWalk
<1>16. ASSUME NEW j \in Journeys, NEW c \in Caps, StashPending(c, j) PROVE DiscoInv'
  <2>1. walk' = [[walk EXCEPT !.pending = walk.pending \cup {<<c, j>>}] EXCEPT !.saved = TRUE]
    BY <1>16 DEF StashPending, SavesWalk
  <2>2. walk.pending \cup {<<c, j>>} \in SUBSET (Caps \X Journeys) BY <1>14
  <2>3. walk' \in Walks BY <1>1, <2>1, <2>2, WalkSaved
  <2> QED BY <1>1, <1>16, <2>3, WalkingKeeps DEF StashPending, SavesWalk
<1>17. ASSUME NEW mode \in Modes, Resume(mode) PROVE DiscoInv'
  <2> DEFINE v == [Reconciled(walk, mode) EXCEPT !.saved = TRUE]
  <2>1. walk' = v /\ settled' = mode
        /\ UNCHANGED <<staged, disco, md, suites, specs, handed, agent, fin, deaths>>
    BY <1>17 DEF Resume
  <2>2. v \in Walks /\ (mode # "prefer-state" => Divergences(v) = {}) BY <1>1, ReconciledSettles
  <2> HIDE DEF v
  <2>3. DiscoShape' BY <2>1, <2>2 DEF DiscoInv, DiscoShape, Walks
  <2>4. HandedInv' BY <2>1 DEF DiscoInv, HandedInv, Divided
  <2>5. FinInv' BY <2>1 DEF DiscoInv, FinInv, L1Writes, L2Writes, L3Writes, Divided
  <2>6. Divergences(walk)' = Divergences(v)
    BY <2>1 DEF Divergences, StaleJourney, ConcurrentEdit, OrphanedWalk, Known
  <2>7. ReconcileSettles' BY <2>1, <2>2, <2>6 DEF ReconcileSettles
  <2> QED BY <2>3, <2>4, <2>5, <2>7 DEF DiscoInv
<1>18. ASSUME NEW doc \in GivenDocs \cup {staged}, DiscoveryFinalize(doc) PROVE DiscoInv'
  <2>1. IsDoc(doc) BY <1>1 DEF GivenDocs, IsDoc
  <2>2. doc # <<>> BY <2>1, DocWith
  <2> QED BY <1>18, <2>2, FinalizeBegins DEF DiscoveryFinalize, At
<1>19. ASSUME NEW index \in Partial(SuiteIds, SUBSET Caps), L2Finalize(index) PROVE DiscoInv'
  BY <1>19, FinalizeBegins DEF L2Finalize, At
<1>20. ASSUME NEW s \in SuiteIds, NEW caps \in SUBSET Caps, L3Finalize(s, caps) PROVE DiscoInv'
  BY <1>20, FinalizeBegins DEF L3Finalize, At, SuiteWrites
<1> QED
  BY <1>2, <1>3, <1>4, <1>5, <1>6, <1>7, <1>8, <1>9, <1>10, <1>11, <1>12, <1>13, <1>15, <1>16,
     <1>17, <1>18, <1>19, <1>20 DEF DiscoNext

(* THEOREM: when no level is open, the architect's inputs are on disk and    *)
(* agree with each other, whatever crash or second finalize came between.    *)
THEOREM DiscoveryFeedsArchitect == DiscoSpec => []ArchitectInputs
  BY DiscoStart, DiscoStep, DiscoMeansInputs, PTL DEF DiscoSpec

(* THEOREM: a resume that lets the document win settles every divergence.    *)
THEOREM ResumeSettles == DiscoSpec => []ReconcileSettles
<1>1. DiscoInv => ReconcileSettles BY DEF DiscoInv
<1> QED BY <1>1, DiscoStart, DiscoStep, PTL DEF DiscoSpec

-----------------------------------------------------------------------------
(* Bootstrap: what the classifiers read of a thread is the place of the last *)
(* entry of a kind; only an entry of that kind moves it.                     *)

LastIn(s, k) == Max({0} \cup {i \in DOMAIN s : s[i] = k})

(* LEMMA: a bounded set of naturals has a largest member.                    *)
LEMMA LargestExists ==
  ASSUME NEW n \in Nat, NEW S, S \subseteq 0..n, S # {}
  PROVE  Max(S) \in S /\ \A k \in S : k <= Max(S)
<1> DEFINE T == {n - k : k \in S}
<1>0. \A k \in S : k \in Nat /\ k <= n /\ n - k \in Nat OBVIOUS
<1>1. T \subseteq Nat /\ T # {} BY <1>0
<1> HIDE DEF T
<1>2. PICK d \in T : \A e \in T : <<e, d>> \notin OpToRel(<, Nat) BY <1>1, WFMin, NatLessThanWellFounded
<1>3. \A e \in T : ~(e < d) BY <1>1, <1>2 DEF OpToRel
<1>4. PICK m \in S : d = n - m BY DEF T
<1>5. \A k \in S : n - k \in T BY DEF T
<1>6. ASSUME NEW k \in S PROVE m >= k BY <1>0, <1>3, <1>4, <1>5
<1>7. Max(S) \in S /\ \A k \in S : Max(S) >= k BY <1>6 DEF Max
<1> QED BY <1>0, <1>7

(* LEMMA: and a nonempty set of naturals has a smallest.                     *)
LEMMA SmallestExists ==
  ASSUME NEW S, S \subseteq Nat, S # {}
  PROVE  Min(S) \in S
<1>1. PICK d \in S : \A e \in S : <<e, d>> \notin OpToRel(<, Nat) BY WFMin, NatLessThanWellFounded
<1>2. \A e \in S : ~(e < d) BY <1>1 DEF OpToRel
<1>3. \A e \in S : d =< e BY <1>2
<1> QED BY <1>3 DEF Min

(* LEMMA: what the place of the last entry is.                               *)
LEMMA LastIs ==
  ASSUME NEW s \in Seq(Kinds), NEW k
  PROVE  /\ LastIn(s, k) \in 0..Len(s) /\ (LastIn(s, k) # 0 => s[LastIn(s, k)] = k)
         /\ \A i \in DOMAIN s : s[i] = k => i <= LastIn(s, k)
<1> DEFINE S == {0} \cup {i \in DOMAIN s : s[i] = k}
<1>1. S \subseteq 0..Len(s) /\ S # {} /\ Len(s) \in Nat OBVIOUS
<1>2. 0 \in S /\ \A i \in DOMAIN s : s[i] = k => i \in S OBVIOUS
<1>3. \A i \in S : i # 0 => s[i] = k OBVIOUS
<1> HIDE DEF S
<1>4. Max(S) \in S /\ \A i \in S : i <= Max(S) BY <1>1, LargestExists
<1>5. LastIn(s, k) = Max(S) BY DEF LastIn, S
<1> QED BY <1>1, <1>2, <1>3, <1>4, <1>5

(* LEMMA: nothing else is.                                                   *)
LEMMA LastIsOnly ==
  ASSUME NEW s \in Seq(Kinds), NEW k, NEW m \in 0..Len(s), m # 0 => s[m] = k,
         \A i \in DOMAIN s : s[i] = k => i <= m
  PROVE  LastIn(s, k) = m
<1>1. DOMAIN s = 1..Len(s) /\ Len(s) \in Nat OBVIOUS
<1>2. LastIn(s, k) <= m BY <1>1, LastIs
<1>3. m <= LastIn(s, k) BY <1>1, LastIs
<1> QED BY <1>1, <1>2, <1>3, LastIs

\* A thread that only grew, by entries of none of the kinds ks.
GrewBy(s, u, ks) ==
  /\ Len(u) >= Len(s) /\ \A i \in 1..Len(s) : u[i] = s[i]
  /\ \A i \in (Len(s) + 1)..Len(u) : u[i] \notin ks

(* LEMMA: a thread that grew by other kinds keeps its last entry of a kind.  *)
LEMMA LastKept ==
  ASSUME NEW s \in Seq(Kinds), NEW u \in Seq(Kinds), NEW ks, NEW k \in ks, GrewBy(s, u, ks)
  PROVE  LastIn(u, k) = LastIn(s, k)
<1>1. /\ DOMAIN s = 1..Len(s) /\ Len(s) \in Nat /\ DOMAIN u = 1..Len(u) /\ Len(u) \in Nat
      /\ Len(u) >= Len(s)
  BY DEF GrewBy
<1> DEFINE m == LastIn(s, k)
<1>2. m \in 0..Len(s) /\ (m # 0 => s[m] = k) /\ \A i \in DOMAIN s : s[i] = k => i <= m BY LastIs
<1> HIDE DEF m
<1>3. m \in 0..Len(u) /\ (m # 0 => u[m] = k) BY <1>1, <1>2 DEF GrewBy
<1>4. \A i \in DOMAIN u : u[i] = k => i <= m BY <1>1, <1>2 DEF GrewBy
<1>5. LastIn(u, k) = m BY <1>3, <1>4, LastIsOnly
<1> QED BY <1>5 DEF m

(* LEMMA: an entry never leaves a thread that grows.                         *)
LEMMA LastGrows ==
  ASSUME NEW s \in Seq(Kinds), NEW u \in Seq(Kinds), NEW k, GrewBy(s, u, {}), LastIn(s, k) > 0
  PROVE  LastIn(u, k) > 0
<1>1. /\ DOMAIN s = 1..Len(s) /\ Len(s) \in Nat /\ DOMAIN u = 1..Len(u) /\ Len(u) \in Nat
      /\ Len(u) >= Len(s)
  BY DEF GrewBy
<1> DEFINE m == LastIn(s, k)
<1>2. m \in 1..Len(s) /\ s[m] = k BY <1>1, LastIs
<1> HIDE DEF m
<1>3. m \in DOMAIN u /\ u[m] = k BY <1>1, <1>2 DEF GrewBy
<1>4. m <= LastIn(u, k) /\ LastIn(u, k) \in 0..Len(u) BY <1>3, LastIs
<1> QED BY <1>1, <1>2, <1>4

(* LEMMA: one post grows a thread by one entry.                              *)
LEMMA PostGrows ==
  ASSUME NEW s \in Seq(Kinds), NEW k \in Kinds, NEW ks, k \notin ks
  PROVE  Append(s, k) \in Seq(Kinds) /\ GrewBy(s, Append(s, k), ks) /\ GrewBy(s, Append(s, k), {})
  BY DEF GrewBy

(* LEMMA: its kind is then the last of its kind.                             *)
LEMMA PostIsLast ==
  ASSUME NEW s \in Seq(Kinds), NEW k \in Kinds
  PROVE  LastIn(Append(s, k), k) = Len(s) + 1
<1> DEFINE u == Append(s, k)
<1>1. u \in Seq(Kinds) /\ Len(u) = Len(s) + 1 /\ u[Len(s) + 1] = k /\ DOMAIN u = 1..Len(s) + 1
      /\ Len(s) \in Nat
  OBVIOUS
<1> HIDE DEF u
<1>2. Len(s) + 1 \in 0..Len(u) /\ \A i \in DOMAIN u : u[i] = k => i <= Len(s) + 1 BY <1>1
<1>3. LastIn(u, k) = Len(s) + 1 BY <1>1, <1>2, LastIsOnly
<1> QED BY <1>3 DEF u

\* A structured spec in a thread was made of an approved brief.
SpecIsApproved(s) ==
  LET spec == LastIn(s, "spec")
      before(k) == Max({0} \cup {i \in 1..spec : s[i] = k})
  IN  spec > 0 => before("approved") > before("handoff")

(* LEMMA: it stays so while no other spec is posted.                         *)
LEMMA SpecKept ==
  ASSUME NEW s \in Seq(Kinds), NEW u \in Seq(Kinds), GrewBy(s, u, {"spec"}), SpecIsApproved(s)
  PROVE  SpecIsApproved(u)
<1>1. LastIn(u, "spec") = LastIn(s, "spec") BY LastKept
<1>2. LastIn(s, "spec") \in 0..Len(s) BY LastIs
<1> DEFINE m == LastIn(s, "spec")
<1> HIDE DEF m
<1>3. ASSUME NEW k PROVE {i \in 1..m : u[i] = k} = {i \in 1..m : s[i] = k}
  BY <1>2 DEF GrewBy, m
<1> QED BY <1>1, <1>3 DEF SpecIsApproved, m

(* LEMMA: and a spec posted on an approved brief makes it so.                *)
LEMMA SpecPosted ==
  ASSUME NEW s \in Seq(Kinds), LastIn(s, "approved") > LastIn(s, "handoff")
  PROVE  SpecIsApproved(Append(s, "spec"))
<1> DEFINE u == Append(s, "spec")
<1>1. "spec" \in Kinds BY DEF Kinds
<1>2. LastIn(u, "spec") = Len(s) + 1 BY <1>1, PostIsLast
<1>3. /\ u[Len(s) + 1] = "spec" /\ \A i \in 1..Len(s) : u[i] = s[i]
      /\ DOMAIN s = 1..Len(s) /\ Len(s) \in Nat
  OBVIOUS
<1> HIDE DEF u
<1>4. ASSUME NEW k, k # "spec" PROVE {i \in 1..Len(s) + 1 : u[i] = k} = {i \in DOMAIN s : s[i] = k}
  BY <1>3, <1>4
<1>5. {i \in 1..Len(s) + 1 : u[i] = "approved"} = {i \in DOMAIN s : s[i] = "approved"} BY <1>4
<1>6. {i \in 1..Len(s) + 1 : u[i] = "handoff"} = {i \in DOMAIN s : s[i] = "handoff"} BY <1>4
<1>7. SpecIsApproved(u) BY <1>2, <1>5, <1>6 DEF SpecIsApproved, LastIn
<1> QED BY <1>7 DEF u

ApprovedArch == LastOf("arch", "rerun") < LastOf("arch", "handoff")
                  /\ LastOf("arch", "handoff") < LastOf("arch", "artifacts_ok")
ApprovedBrief == LastOf("brief", "handoff") < LastOf("brief", "approved")
FreshBrief == LastOf("brief", "gaps") < LastOf("brief", "approved")
ArchKinds == {"handoff", "rerun", "artifacts_ok"}
TypedThreads == log \in [BootTickets -> Seq(Kinds)]

(* LEMMA: the last place of a kind, by thread.                               *)
LEMMA LastOfThread ==
  /\ \A t, k : LastOf(t, k) = LastIn(log[t], k)
  /\ {"brief", "arch", "scan", "profile", "backlog", "planning"} \subseteq BootTickets
  /\ \A i \in DOMAIN Levels : Levels[i] \in BootTickets
  BY DEF LastOf, LastIn, BootTickets

\* The spec generator's session does not go on.
NotInSpec == rs = "SPEC" => at' \notin {"agent", "settle", "ask"}

(* What a step leaves of the threads as far as the invariant goes.           *)
ThreadsKept ==
  /\ TypedThreads'
  /\ Has("scan", "verified") <=> Has("scan", "verified")'
  /\ Has("scan", "scan_done") => Has("scan", "scan_done")'
  /\ ApprovedArch => ApprovedArch' \/ ~(proj.completed \/ rs = "PM_BACKLOG")
  /\ ApprovedBrief => (ApprovedBrief' \/ (at' # "step" /\ NotInSpec))
  /\ FreshBrief => FreshBrief' \/ at' # "step"
  /\ SpecIsApproved(log["brief"])'
  /\ NextLevel # 0 => NextLevel' # 0 \/ at' # "step"

(* LEMMA: a step that posts nothing keeps them.                              *)
LEMMA QuietThreads ==
  ASSUME TypedThreads, SpecIsApproved(log["brief"]), UNCHANGED log
  PROVE  ThreadsKept
<1>1. SpecIsApproved(log["brief"])' = SpecIsApproved(log["brief"]) BY DEF SpecIsApproved, LastIn
<1>2. NextLevel' = NextLevel BY DEF NextLevel, Has, LastOf
<1>3. ApprovedArch' = ApprovedArch /\ ApprovedBrief' = ApprovedBrief /\ FreshBrief' = FreshBrief
  BY DEF ApprovedArch, ApprovedBrief, FreshBrief, LastOf
<1>4. \A k \in Kinds : Has("scan", k)' = Has("scan", k) BY DEF Has, LastOf
<1>5. TypedThreads' BY DEF TypedThreads
<1>6. "verified" \in Kinds /\ "scan_done" \in Kinds BY DEF Kinds
<1> QED BY <1>1, <1>2, <1>3, <1>4, <1>5, <1>6 DEF ThreadsKept

(* LEMMA: a level that lacks its handoff lacks it until one is posted.       *)
LEMMA LevelStaysOpen ==
  ASSUME NextLevel # 0, \A i \in DOMAIN Levels : Has(Levels[i], "handoff")' => Has(Levels[i], "handoff")
  PROVE  NextLevel' # 0
<1> DEFINE Open == {i \in DOMAIN Levels : ~Has(Levels[i], "handoff")}
<1>1. Open # {} BY DEF NextLevel
<1>2. Open' # {} BY <1>1
<1>3. NextLevel' = Min(Open') BY <1>2 DEF NextLevel
<1>4. Open' \subseteq DOMAIN Levels OBVIOUS
<1>5. DOMAIN Levels = 1..Len(Levels) /\ Len(Levels) \in Nat BY BootAssumption DEF Levels
<1> HIDE DEF Open
<1>6. Min(Open') \in Open' BY <1>2, <1>4, <1>5, SmallestExists
<1> QED BY <1>3, <1>4, <1>5, <1>6

(* LEMMA: the next level is one.                                             *)
LEMMA NextLevelIsOne == NextLevel # 0 => NextLevel \in DOMAIN Levels
<1> SUFFICES ASSUME NextLevel # 0 PROVE NextLevel \in DOMAIN Levels OBVIOUS
<1> DEFINE Open == {i \in DOMAIN Levels : ~Has(Levels[i], "handoff")}
<1>1. Open # {} BY DEF NextLevel
<1>2. NextLevel = Min(Open) BY <1>1 DEF NextLevel
<1>3. Open \subseteq DOMAIN Levels OBVIOUS
<1>4. DOMAIN Levels = 1..Len(Levels) /\ Len(Levels) \in Nat BY BootAssumption DEF Levels
<1> HIDE DEF Open
<1> QED BY <1>1, <1>2, <1>3, <1>4, SmallestExists

(* LEMMA: a step that posts to one thread keeps what the kinds of its        *)
(* entries leave alone.                                                      *)
LEMMA GrownThreads ==
  ASSUME TypedThreads, SpecIsApproved(log["brief"]), NEW t \in BootTickets, NEW u \in Seq(Kinds),
         log' = [log EXCEPT ![t] = u], GrewBy(log[t], u, {}),
         t = "scan" => GrewBy(log[t], u, {"verified"}),
         t = "arch" => GrewBy(log[t], u, ArchKinds) \/ ~(proj.completed \/ rs = "PM_BACKLOG"),
         t = "brief" => SpecIsApproved(u),
         at' # "step" \/ GrewBy(log[t], u, {"handoff", "approved", "gaps"}),
         NotInSpec \/ GrewBy(log[t], u, {"handoff", "approved"})
  PROVE  ThreadsKept
<1>1. /\ \A x \in BootTickets : x # t => log'[x] = log[x]
      /\ log'[t] = u /\ \A x \in BootTickets : log[x] \in Seq(Kinds)
  BY DEF TypedThreads
<1>2. TypedThreads' BY DEF TypedThreads
<1>3. \A x, k : LastOf(x, k) = LastIn(log[x], k) /\ LastOf(x, k)' = LastIn(log'[x], k)
  BY DEF LastOf, LastIn
<1>4. Has("scan", "verified") <=> Has("scan", "verified")'
  <2>1. CASE t # "scan" BY <1>1, <1>3, <2>1, LastOfThread DEF Has
  <2>2. CASE t = "scan"
    <3>1. LastIn(u, "verified") = LastIn(log["scan"], "verified") BY <1>1, <2>2, LastKept
    <3> QED BY <1>1, <1>3, <2>2, <3>1, LastOfThread DEF Has
  <2> QED BY <2>1, <2>2
<1>5. Has("scan", "scan_done") => Has("scan", "scan_done")'
  BY <1>1, <1>3, LastOfThread, LastGrows DEF Has
<1>6. ApprovedArch => ApprovedArch' \/ ~(proj.completed \/ rs = "PM_BACKLOG")
  <2>1. CASE t # "arch" BY <1>1, <1>3, <2>1, LastOfThread DEF ApprovedArch
  <2>2. CASE t = "arch" /\ GrewBy(log[t], u, ArchKinds)
    <3>1. \A k \in ArchKinds : LastIn(u, k) = LastIn(log["arch"], k) BY <1>1, <2>2, LastKept
    <3>2. "handoff" \in ArchKinds /\ "rerun" \in ArchKinds /\ "artifacts_ok" \in ArchKinds BY DEF ArchKinds
    <3> QED BY <1>1, <1>3, <2>2, <3>1, <3>2, LastOfThread DEF ApprovedArch
  <2> QED BY <2>1, <2>2
<1>7. /\ ApprovedBrief => (ApprovedBrief' \/ (at' # "step" /\ NotInSpec))
      /\ FreshBrief => FreshBrief' \/ at' # "step"
  <2>1. CASE t # "brief" BY <1>1, <1>3, <2>1, LastOfThread DEF ApprovedBrief, FreshBrief
  <2>2. CASE t = "brief" /\ GrewBy(log[t], u, {"handoff", "approved", "gaps"})
    <3>1. \A k \in {"handoff", "approved", "gaps"} : LastIn(u, k) = LastIn(log["brief"], k)
      BY <1>1, <2>2, LastKept
    <3> QED BY <1>1, <1>3, <2>2, <3>1, LastOfThread DEF ApprovedBrief, FreshBrief
  <2>3. CASE t = "brief" /\ at' # "step" /\ GrewBy(log[t], u, {"handoff", "approved"})
    <3>1. \A k \in {"handoff", "approved"} : LastIn(u, k) = LastIn(log["brief"], k)
      BY <1>1, <2>3, LastKept
    <3> QED BY <1>1, <1>3, <2>3, <3>1, LastOfThread DEF ApprovedBrief
  <2>4. CASE at' # "step" /\ NotInSpec BY <2>4
  <2> QED BY <2>1, <2>2, <2>3, <2>4
<1>8. SpecIsApproved(log["brief"])'
  <2>1. CASE t # "brief"
    <3>1. log'["brief"] = log["brief"] BY <1>1, <2>1, LastOfThread
    <3> QED BY <3>1 DEF SpecIsApproved, LastIn
  <2>2. CASE t = "brief"
    <3>1. log'["brief"] = u /\ SpecIsApproved(u) BY <1>1, <2>2
    <3> QED BY <3>1 DEF SpecIsApproved, LastIn
  <2> QED BY <2>1, <2>2
<1>9. NextLevel # 0 => NextLevel' # 0 \/ at' # "step"
  <2> SUFFICES ASSUME NextLevel # 0, at' = "step" PROVE NextLevel' # 0 OBVIOUS
  <2>1. GrewBy(log[t], u, {"handoff", "approved", "gaps"}) OBVIOUS
  <2>2. ASSUME NEW i \in DOMAIN Levels PROVE Has(Levels[i], "handoff")' <=> Has(Levels[i], "handoff")
    <3>1. Levels[i] \in BootTickets BY LastOfThread
    <3>2. LastIn(u, "handoff") = LastIn(log[t], "handoff") BY <1>1, <2>1, LastKept
    <3>3. LastIn(log'[Levels[i]], "handoff") = LastIn(log[Levels[i]], "handoff") BY <1>1, <3>1, <3>2
    <3>4. LastOf(Levels[i], "handoff")' = LastIn(log'[Levels[i]], "handoff") BY DEF LastOf, LastIn, Levels
    <3> QED BY <1>3, <3>1, <3>3, <3>4 DEF Has
  <2> QED BY <2>2, LevelStaysOpen
<1> QED BY <1>2, <1>4, <1>5, <1>6, <1>7, <1>8, <1>9 DEF ThreadsKept

(* LEMMA: the same for one post.                                             *)
LEMMA PostedThreads ==
  ASSUME TypedThreads, SpecIsApproved(log["brief"]), NEW t \in BootTickets, NEW k \in Kinds, Post(t, k),
         t = "scan" => k # "verified",
         t = "arch" => k \notin ArchKinds \/ ~(proj.completed \/ rs = "PM_BACKLOG"),
         t = "brief" /\ k = "spec" => ApprovedBrief,
         at' # "step" \/ k = "answer",
         rs = "SPEC" /\ at' \in {"agent", "settle", "ask"} => k \in {"gaps", "spec"}
  PROVE  ThreadsKept
<1> DEFINE u == Append(log[t], k)
<1>1. log[t] \in Seq(Kinds) BY DEF TypedThreads
<1>2. u \in Seq(Kinds) /\ \A ks : k \notin ks => GrewBy(log[t], u, ks) BY <1>1, PostGrows
<1>3. log' = [log EXCEPT ![t] = u] BY DEF Post
<1>4. ASSUME t = "brief" PROVE SpecIsApproved(u)
  <2>1. CASE k = "spec"
    <3>1. LastIn(log["brief"], "approved") > LastIn(log["brief"], "handoff")
      BY <1>4, <2>1, LastOfThread, LastIs, <1>1 DEF ApprovedBrief
    <3> QED BY <1>1, <1>4, <2>1, <3>1, SpecPosted
  <2>2. CASE k # "spec" BY <1>1, <1>2, <1>4, <2>2, SpecKept
  <2> QED BY <2>1, <2>2
<1> HIDE DEF u
<1>5. /\ k = "answer" => GrewBy(log[t], u, {"handoff", "approved", "gaps"})
      /\ k \in {"gaps", "spec"} => GrewBy(log[t], u, {"handoff", "approved"})
  BY <1>2
<1>6. NotInSpec \/ k \in {"gaps", "spec"} BY DEF NotInSpec
<1> QED BY <1>2, <1>3, <1>4, <1>5, <1>6, GrownThreads

(* The workflows' invariant.  A scan is not run again once verified; a stamp *)
(* follows the architecture; a backlog is planned, and a spec made, on what  *)
(* the classifier found approved, since only the agent of the step posts.    *)

Projects == [stub : BOOLEAN, arch : BOOLEAN, stamped : BOOLEAN, profile : {"none", "small", "medium"},
             completed : BOOLEAN, baseline : BOOLEAN, desired : BOOLEAN]
BootPlaces == {"off", "loop", "step", "agent", "settle", "ask", "verify",
               "scaffold", "stamp", "event", "plan"}
AgentPlaces == {"agent", "settle", "ask"}

BootShape ==
  /\ cmd \in {"init", "onboard"} /\ repeats \in 0..4 /\ at \in BootPlaces /\ on \in BootTickets
  /\ tk \in [BootTickets -> TkStatus] /\ TypedThreads /\ proj \in Projects
  /\ drift \subseteq Surfaces /\ scanWrote \subseteq Surfaces \cup {"taken"} /\ crashes \in 0..MaxCrashes
  /\ at \notin {"off", "loop"} /\ rs \in SpawnStates => repeats <= 3
  /\ at = "step" /\ rs \in {"PO_LEVEL", "ANSWER_LEVEL"} => NextLevel # 0
ScanInv ==
  /\ scanWrote \subseteq drift \cup {"taken"} /\ (scanWrote # {} => proj.baseline)
  /\ cmd = "onboard" /\ at # "off" => proj.baseline
  /\ cmd = "init" => rs # "SCAN"
  /\ Has("scan", "verified") => Has("scan", "scan_done")
  /\ rs = "SCAN" /\ at \in AgentPlaces => ~Has("scan", "verified")
  /\ ScanGuardSound
StampInv == (proj.stamped => proj.arch) /\ (at = "stamp" => proj.arch)
BuiltInv ==
  /\ rs = "PM_BACKLOG" /\ at \in AgentPlaces \cup {"step"} => cmd = "onboard" /\ ApprovedArch
  /\ rs = "PM_BACKLOG" /\ at \in AgentPlaces => on = "backlog"
  /\ proj.completed => cmd = "onboard" /\ ApprovedArch /\ at \in {"off", "loop"}
  /\ rs = "SPEC" /\ at \in AgentPlaces \cup {"step"} => ApprovedBrief
  /\ rs = "SPEC" /\ at = "step" => FreshBrief
  /\ rs = "SPEC" /\ at \in AgentPlaces => on = "brief"
  /\ SpecIsApproved(log["brief"])
BootInv == BootShape /\ ScanInv /\ StampInv /\ BuiltInv

(* LEMMA: what the invariant means.                                          *)
LEMMA BootMeans == BootInv => BootTypeOK /\ ScanGuardSound /\ StampedIsPlannable /\ BuiltOnApproval
<1> SUFFICES ASSUME BootInv PROVE BootTypeOK /\ ScanGuardSound /\ StampedIsPlannable /\ BuiltOnApproval
  OBVIOUS
<1>1. BootTypeOK BY DEF BootInv, BootShape, BootTypeOK, TypedThreads, BootPlaces, MaxSameStateSpawns
<1>2. ScanGuardSound BY DEF BootInv, ScanInv
<1>3. StampedIsPlannable BY DEF BootInv, StampInv, StampedIsPlannable
<1>4. Has("brief", "spec") =>
        LET spec == LastOf("brief", "spec")
            before(k) == Max({0} \cup {i \in 1..spec : log["brief"][i] = k})
        IN  before("approved") > before("handoff")
  BY DEF BootInv, BuiltInv, SpecIsApproved, LastIn, LastOf, Has
<1>5. \A k : LastOf("arch", k) \in Nat
  <2>1. log["arch"] \in Seq(Kinds) BY LastOfThread DEF BootInv, BootShape, TypedThreads
  <2> QED BY <2>1, LastOfThread, LastIs
<1>6. proj.completed => /\ LastOf("arch", "artifacts_ok") > LastOf("arch", "handoff")
                        /\ LastOf("arch", "rerun") < LastOf("arch", "handoff")
  BY <1>5 DEF BootInv, BuiltInv, ApprovedArch
<1>7. Step({"SPEC"}) => \A k \in {"handoff", "gaps"} : LastOf("brief", "approved") > LastOf("brief", k)
  <2>1. log["brief"] \in Seq(Kinds) BY LastOfThread DEF BootInv, BootShape, TypedThreads
  <2>2. \A k : LastOf("brief", k) \in Nat BY <2>1, LastOfThread, LastIs
  <2> QED BY <2>2 DEF Step, BootInv, BuiltInv, ApprovedBrief, FreshBrief
<1> QED BY <1>1, <1>2, <1>3, <1>4, <1>6, <1>7 DEF BuiltOnApproval

(* LEMMA: the empty threads of a new project.                                *)
LEMMA NewThreads ==
  ASSUME log = [t \in BootTickets |-> <<>>]
  PROVE  TypedThreads /\ (\A k : LastOf("scan", k) = 0) /\ SpecIsApproved(log["brief"])
<1>1. <<>> \in Seq(Kinds) /\ Len(<<>>) = 0 OBVIOUS
<1>2. \A k : LastIn(<<>>, k) = 0
  <2>1. \A k : LastIn(<<>>, k) \in 0..0 BY <1>1, LastIs
  <2> QED BY <2>1
<1>3. TypedThreads BY <1>1 DEF TypedThreads
<1>4. log["scan"] = <<>> /\ log["brief"] = <<>> BY LastOfThread
<1>5. SpecIsApproved(log["brief"]) BY <1>2, <1>4 DEF SpecIsApproved
<1> QED BY <1>2, <1>3, <1>4, <1>5, LastOfThread

(* LEMMA: a new directory.                                                   *)
LEMMA BootStart == BootInit => BootInv
<1> SUFFICES ASSUME BootInit PROVE BootInv OBVIOUS
<1>1. TypedThreads /\ (\A k : LastOf("scan", k) = 0) /\ SpecIsApproved(log["brief"])
  BY NewThreads DEF BootInit
<1>2. NoProject \in Projects /\ ~NoProject.stamped /\ ~NoProject.completed BY DEF NoProject, Projects
<1>3. "none" \in TkStatus BY DEF TkStatus
<1>4. BootShape
  <2>1. tk \in [BootTickets -> TkStatus] /\ proj \in Projects BY <1>2, <1>3 DEF BootInit
  <2>2. "brief" \in BootTickets BY LastOfThread
  <2>3. /\ cmd \in {"init", "onboard"} /\ at = "off" /\ on = "brief" /\ repeats = 0
        /\ drift = {} /\ crashes = 0
    BY DEF BootInit
  <2>4. scanWrote = {} BY DEF BootInit
  <2> QED BY <1>1, <2>1, <2>2, <2>3, <2>4, BootAssumption DEF BootShape, BootPlaces
<1>5. ScanInv BY <1>1 DEF BootInit, ScanInv, Has, ScanGuardSound, AgentPlaces
<1>6. StampInv BY <1>2 DEF BootInit, StampInv
<1>7. BuiltInv BY <1>1, <1>2 DEF BootInit, BuiltInv, AgentPlaces
<1> QED BY <1>4, <1>5, <1>6, <1>7 DEF BootInv

(* LEMMA: a step that leaves the threads, the project's stamps and the scan  *)
(* guard alone, and moves on only from where it is.                          *)
LEMMA StepKeeps ==
  ASSUME BootInv, ThreadsKept,
         cmd' = cmd, repeats' \in 0..4, at' \in BootPlaces, on' \in BootTickets,
         tk' \in [BootTickets -> TkStatus], crashes' \in 0..MaxCrashes,
         drift' \subseteq Surfaces, scanWrote' \subseteq Surfaces \cup {"taken"},
         scanWrote' \subseteq drift' \cup {"taken"}, scanWrote' # {} => scanWrote # {},
         Has("scan", "verified") => scanWrote' \subseteq {"taken"},
         proj' \in Projects, proj.baseline => proj'.baseline,
         at' # "off" => at # "off" \/ cmd = "init" \/ proj'.baseline,
         proj'.stamped = proj.stamped, proj'.arch = proj.arch, proj'.completed = proj.completed,
         at' \in {"off", "loop"} \/ (at \notin {"off", "loop"} /\ rs' = rs /\ repeats' = repeats),
         cmd = "init" => rs' # "SCAN",
         at' # "stamp", at' = "step" => at = "step",
         at' \in AgentPlaces =>
           \/ at \in AgentPlaces /\ on' = on
           \/ /\ at = "step" /\ (rs = "SCAN" => ~Has("scan", "scan_done")) /\ log' = log
              /\ (rs = "PM_BACKLOG" => on' = "backlog") /\ (rs = "SPEC" => on' = "brief")
  PROVE  BootInv'
<1>1. BootShape' BY DEF BootInv, BootShape, ThreadsKept
<1>2. ScanInv' BY DEF BootInv, BootShape, ScanInv, ThreadsKept, ScanGuardSound, AgentPlaces
<1>3. StampInv' BY DEF BootInv, StampInv
<1>4. log' = log => ApprovedBrief' = ApprovedBrief BY DEF ApprovedBrief, LastOf
<1>5. BuiltInv' BY <1>4 DEF BootInv, BuiltInv, ThreadsKept, NotInSpec, AgentPlaces
<1> QED BY <1>1, <1>2, <1>3, <1>5 DEF BootInv

SameMarks(p, q) == p.stamped = q.stamped /\ p.arch = q.arch /\ p.completed = q.completed

(* LEMMA: the profile replaced.                                              *)
LEMMA ProfileWith ==
  ASSUME NEW p \in Projects, NEW q \in {"none", "small", "medium"}
  PROVE  LET r == [p EXCEPT !.profile = q]
         IN  r \in Projects /\ SameMarks(r, p) /\ r.baseline = p.baseline
  BY DEF Projects, SameMarks

(* LEMMA: a field replaced that marks nothing.                               *)
LEMMA ProjectWith ==
  ASSUME NEW p \in Projects, NEW b \in BOOLEAN
  PROVE  /\ LET r == [p EXCEPT !.stub = b]
            IN  r \in Projects /\ SameMarks(r, p) /\ r.baseline = p.baseline
         /\ LET r == [p EXCEPT !.desired = b]
            IN  r \in Projects /\ SameMarks(r, p) /\ r.baseline = p.baseline
         /\ LET r == [p EXCEPT !.baseline = b]
            IN  r \in Projects /\ SameMarks(r, p) /\ r.baseline = b
  BY DEF Projects, SameMarks

(* LEMMA: a mark set.                                                        *)
LEMMA ProjectMarked ==
  ASSUME NEW p \in Projects, NEW b \in BOOLEAN
  PROVE  /\ LET r == [p EXCEPT !.completed = b]
            IN  r \in Projects /\ r.completed = b /\ r.stamped = p.stamped /\ r.arch = p.arch
                /\ r.baseline = p.baseline
         /\ LET r == [p EXCEPT !["arch"] = b]
            IN  r \in Projects /\ r.completed = p.completed /\ r.stamped = p.stamped /\ r.arch = b
                /\ r.baseline = p.baseline
         /\ LET r == [p EXCEPT !["stamped"] = b]
            IN  r \in Projects /\ r.completed = p.completed /\ r.stamped = b /\ r.arch = p.arch
                /\ r.baseline = p.baseline
  BY DEF Projects

(* LEMMA: several fields replaced at once, one after the other.              *)
LEMMA ProjectWithAll ==
  ASSUME NEW p, NEW a, NEW b, NEW c, NEW d
  PROVE  /\ [p EXCEPT !.stub = a, !.profile = d] = [[p EXCEPT !.stub = a] EXCEPT !.profile = d]
         /\ [p EXCEPT !.stub = a, !.baseline = b, !.desired = c, !.profile = d] =
              [[[[p EXCEPT !.stub = a] EXCEPT !.baseline = b] EXCEPT !.desired = c] EXCEPT !.profile = d]
  OBVIOUS

(* LEMMA: a ticket's status replaced.                                        *)
LEMMA StatusSet ==
  ASSUME tk \in [BootTickets -> TkStatus], NEW t \in BootTickets
  PROVE  /\ \A s \in TkStatus : [tk EXCEPT ![t] = s] \in [BootTickets -> TkStatus]
         /\ Reactivated(t) \in TkStatus /\ {"in_progress", "needs_info", "resolved"} \subseteq TkStatus
  BY DEF TkStatus, Reactivated

(* LEMMA: a step of the operator or the workflow that runs no agent.         *)
LEMMA MovesOn ==
  ASSUME BootInv, ThreadsKept, at \notin {"off", "loop"},
         at' \in {"off", "loop", "verify", "scaffold", "event", "plan"} \/ (at' = at /\ at = "step"),
         UNCHANGED <<cmd, rs, repeats, drift, scanWrote>>, on' \in BootTickets,
         tk' \in [BootTickets -> TkStatus], crashes' \in 0..MaxCrashes,
         proj' \in Projects, proj'.baseline = proj.baseline, SameMarks(proj', proj)
  PROVE  BootInv'
<1>1. /\ repeats \in 0..4 /\ drift \subseteq Surfaces /\ scanWrote \subseteq Surfaces \cup {"taken"}
      /\ scanWrote \subseteq drift \cup {"taken"} /\ (cmd = "init" => rs # "SCAN")
      /\ (Has("scan", "verified") => scanWrote \subseteq {"taken"})
  BY DEF BootInv, BootShape, ScanInv, ScanGuardSound
<1>2. at' \in BootPlaces /\ at' # "stamp" /\ at' \notin AgentPlaces BY DEF BootPlaces, AgentPlaces
<1>3. proj'.stamped = proj.stamped /\ proj'.arch = proj.arch /\ proj'.completed = proj.completed
  BY DEF SameMarks
<1> QED BY <1>1, <1>2, <1>3, StepKeeps

(* LEMMA: a step that runs an agent.                                         *)
LEMMA SpawnKeeps ==
  ASSUME BootInv, at = "step", NEW t \in BootTickets, Spawn(t),
         UNCHANGED <<cmd, rs, repeats, proj, log, drift, scanWrote, crashes>>,
         rs = "SCAN" => ~Has("scan", "scan_done"), rs = "PM_BACKLOG" => t = "backlog",
         rs = "SPEC" => t = "brief"
  PROVE  BootInv'
<1>1. /\ repeats \in 0..4 /\ drift \subseteq Surfaces /\ scanWrote \subseteq Surfaces \cup {"taken"}
      /\ scanWrote \subseteq drift \cup {"taken"} /\ (cmd = "init" => rs # "SCAN") /\ proj \in Projects
      /\ (Has("scan", "verified") => scanWrote \subseteq {"taken"}) /\ crashes \in 0..MaxCrashes
      /\ tk \in [BootTickets -> TkStatus] /\ TypedThreads /\ SpecIsApproved(log["brief"])
  BY DEF BootInv, BootShape, ScanInv, ScanGuardSound, BuiltInv
<1>2. at' = "agent" /\ on' = t /\ at' \in BootPlaces BY DEF Spawn, BootPlaces
<1>3. tk' \in [BootTickets -> TkStatus] BY <1>1, StatusSet DEF Spawn, SetStatus
<1>4. ThreadsKept BY <1>1, QuietThreads
<1> QED BY <1>1, <1>2, <1>3, <1>4, StepKeeps

(* LEMMA: the types, at hand.                                                *)
LEMMA BootFacts ==
  BootInv => /\ repeats \in 0..4 /\ drift \subseteq Surfaces /\ proj \in Projects
             /\ scanWrote \subseteq Surfaces \cup {"taken"} /\ (cmd = "init" => rs # "SCAN")
             /\ scanWrote \subseteq drift \cup {"taken"}
             /\ (Has("scan", "verified") => scanWrote \subseteq {"taken"})
             /\ crashes \in 0..MaxCrashes /\ on \in BootTickets /\ tk \in [BootTickets -> TkStatus]
             /\ TypedThreads /\ SpecIsApproved(log["brief"]) /\ at \in BootPlaces
             /\ cmd \in {"init", "onboard"}
  BY DEF BootInv, BootShape, ScanInv, ScanGuardSound, BuiltInv

(* LEMMA: what another run makes of the scan guard.  Outside the crash       *)
(* window either no scanner has said it is done, and its writes to the owned *)
(* paths are taken over, or the scan was verified.                           *)
LEMMA RerunGuards ==
  ASSUME BootInv, NEW w, drift' = KeptDrift(w), scanWrote' = TakenOver
  PROVE  /\ drift' \subseteq Surfaces /\ scanWrote' \subseteq Surfaces \cup {"taken"}
         /\ scanWrote' \subseteq drift' \cup {"taken"} /\ (scanWrote' # {} => scanWrote # {})
         /\ (Has("scan", "verified") => scanWrote' \subseteq {"taken"})
<1>1. /\ drift \subseteq Surfaces /\ scanWrote \subseteq Surfaces \cup {"taken"}
      /\ scanWrote \subseteq drift \cup {"taken"} /\ (scanWrote # {} => proj.baseline)
      /\ (Has("scan", "verified") => scanWrote \subseteq {"taken"})
  BY DEF BootInv, BootShape, ScanInv, ScanGuardSound
<1>2. Has("scan", "scan_done") => InCrashWindow \/ Has("scan", "verified")
  <2>1. log["scan"] \in Seq(Kinds) BY BootFacts, LastOfThread DEF TypedThreads
  <2>2. \A k : LastOf("scan", k) \in Nat BY <2>1, LastOfThread, LastIs
  <2> QED BY <2>2 DEF Has, InCrashWindow
<1>3. /\ drift' = IF ~proj.baseline THEN {}
                  ELSE IF InCrashWindow THEN drift \cup (IF w THEN {"owned"} ELSE {})
                  ELSE drift \ {"owned"}
      /\ scanWrote' = IF "owned" \in scanWrote /\ ~Has("scan", "scan_done")
                      THEN (scanWrote \ {"owned"}) \cup {"taken"} ELSE scanWrote
  BY DEF KeptDrift, TakenOver
<1>4. ~Has("scan", "scan_done") => ~Has("scan", "verified") BY DEF BootInv, ScanInv
<1>5. CASE ~proj.baseline BY <1>1, <1>3, <1>5
<1>6. CASE proj.baseline /\ InCrashWindow /\ Has("scan", "scan_done")
  BY <1>1, <1>3, <1>6 DEF Surfaces
<1>7. CASE proj.baseline /\ ~InCrashWindow /\ Has("scan", "scan_done") BY <1>1, <1>2, <1>3, <1>7
<1>8. CASE proj.baseline /\ ~Has("scan", "scan_done")
  BY <1>1, <1>3, <1>4, <1>8 DEF Surfaces
<1> QED BY <1>5, <1>6, <1>7, <1>8

(* LEMMA: starting the command.                                              *)
LEMMA RunsKeep ==
  ASSUME BootInv, \/ \E p \in {"small", "medium"} : RunInit(p)
                  \/ \E d \in BOOLEAN, p \in {"none", "small"} : RunOnboard(d, p)
  PROVE  BootInv'
<1>0. /\ proj \in Projects /\ TypedThreads /\ SpecIsApproved(log["brief"]) BY BootFacts
<1>1. ASSUME NEW p \in {"small", "medium"}, RunInit(p) PROVE BootInv'
  <2> DEFINE q == IF proj.profile = "none" THEN p ELSE proj.profile
             v == [proj EXCEPT !.stub = TRUE]
  <2>1. proj' = [v EXCEPT !.profile = q] BY <1>1, ProjectWithAll DEF RunInit
  <2>2. q \in {"none", "small", "medium"} BY <1>0 DEF Projects
  <2>3. TRUE \in BOOLEAN OBVIOUS
  <2>4. v \in Projects /\ SameMarks(v, proj) /\ v.baseline = proj.baseline BY <1>0, <2>3, ProjectWith
  <2> HIDE DEF v, q
  <2>5. proj' \in Projects /\ SameMarks(proj', v) /\ proj'.baseline = v.baseline
    BY <2>1, <2>2, <2>4, ProfileWith
  <2>6. ThreadsKept BY <1>0, <1>1, QuietThreads DEF RunInit
  <2>7. /\ cmd = "init" /\ at' = "loop" /\ rs' = "NEW" /\ at' \in BootPlaces /\ at' \notin AgentPlaces
        /\ UNCHANGED <<cmd, on, repeats, tk, drift, scanWrote, crashes>>
    BY <1>1 DEF RunInit, BootPlaces, AgentPlaces
  <2> QED BY <2>4, <2>5, <2>6, <2>7, BootFacts, StepKeeps DEF SameMarks
<1>2. ASSUME NEW d \in BOOLEAN, NEW p \in {"none", "small"}, RunOnboard(d, p) PROVE BootInv'
  <2> DEFINE q == IF proj.profile = "none" THEN p ELSE proj.profile
             e == proj.desired \/ d
             v == [proj EXCEPT !.stub = TRUE]
             w == [v EXCEPT !.baseline = TRUE]
             x == [w EXCEPT !.desired = e]
  <2>1. proj' = [x EXCEPT !.profile = q] BY <1>2, ProjectWithAll DEF RunOnboard
  <2>2. q \in {"none", "small", "medium"} BY <1>0 DEF Projects
  <2>3. TRUE \in BOOLEAN /\ e \in BOOLEAN BY Zenon
  <2>4. v \in Projects /\ SameMarks(v, proj) BY <1>0, <2>3, ProjectWith
  <2> HIDE DEF v, q, e
  <2>5. w \in Projects /\ SameMarks(w, v) /\ w.baseline = TRUE BY <2>3, <2>4, ProjectWith
  <2> HIDE DEF w
  <2>6. x \in Projects /\ SameMarks(x, w) /\ x.baseline = w.baseline BY <2>3, <2>5, ProjectWith
  <2> HIDE DEF x
  <2>7. proj' \in Projects /\ SameMarks(proj', x) /\ proj'.baseline = x.baseline
    BY <2>1, <2>2, <2>6, ProfileWith
  <2>8. SameMarks(proj', proj) /\ proj'.baseline BY <2>4, <2>5, <2>6, <2>7 DEF SameMarks
  <2>9. ThreadsKept BY <1>0, <1>2, QuietThreads DEF RunOnboard
  <2>10. /\ cmd = "onboard" /\ at' = "loop" /\ repeats' = 0 /\ at' \in BootPlaces /\ at' \notin AgentPlaces
         /\ UNCHANGED <<cmd, on, rs, tk, crashes>> /\ scanWrote' = TakenOver
         /\ drift' = KeptDrift((d /\ ~proj.desired) \/ (p # "none" /\ proj.profile = "none"))
    BY <1>2 DEF RunOnboard, BootPlaces, AgentPlaces
  <2>11. /\ drift' \subseteq Surfaces /\ scanWrote' \subseteq Surfaces \cup {"taken"}
         /\ scanWrote' \subseteq drift' \cup {"taken"} /\ (scanWrote' # {} => scanWrote # {})
         /\ (Has("scan", "verified") => scanWrote' \subseteq {"taken"})
    BY <2>10, RerunGuards
  <2> QED BY <2>7, <2>8, <2>9, <2>10, <2>11, BootFacts, StepKeeps DEF SameMarks
<1> QED BY <1>1, <1>2

(* LEMMA: --force starts over.                                               *)
LEMMA ResetKeeps == ASSUME BootInv, ForceReset PROVE BootInv'
<1>1. /\ log' = [t \in BootTickets |-> <<>>] /\ proj' = NoProject /\ at' = "off" /\ rs' = "NEW"
      /\ crashes' = crashes + 1 /\ crashes < MaxCrashes /\ drift' = {} /\ UNCHANGED <<cmd, on, repeats>>
  BY DEF ForceReset
<1>2. TypedThreads' /\ (\A k : LastOf("scan", k)' = 0) /\ SpecIsApproved(log["brief"])'
  <2>1. <<>> \in Seq(Kinds) /\ Len(<<>>) = 0 OBVIOUS
  <2>2. \A k : LastIn(<<>>, k) = 0
    <3>1. \A k : LastIn(<<>>, k) \in 0..0 BY <2>1, LastIs
    <3> QED BY <3>1
  <2>3. TypedThreads' BY <1>1, <2>1 DEF TypedThreads
  <2>4. log'["scan"] = <<>> /\ log'["brief"] = <<>> BY <1>1, LastOfThread
  <2>5. SpecIsApproved(<<>>) BY <2>2 DEF SpecIsApproved
  <2>6. SpecIsApproved(log["brief"])' BY <2>4, <2>5 DEF SpecIsApproved, LastIn
  <2>7. \A k : LastOf("scan", k)' = LastIn(log'["scan"], k) BY DEF LastOf, LastIn
  <2> QED BY <2>2, <2>3, <2>4, <2>6, <2>7
<1>3. NoProject \in Projects /\ ~NoProject.stamped /\ ~NoProject.completed BY DEF NoProject, Projects
<1>4. tk' \in [BootTickets -> TkStatus]
  <2>1. "none" \in TkStatus BY DEF TkStatus
  <2> QED BY <2>1 DEF ForceReset
<1>5. scanWrote' = {} BY DEF ForceReset
<1>6. crashes' \in 0..MaxCrashes BY <1>1, BootFacts, BootAssumption
<1>7. BootShape' BY <1>1, <1>2, <1>3, <1>4, <1>5, <1>6, BootFacts DEF BootShape, BootPlaces
<1>8. ScanInv' BY <1>1, <1>2, <1>5 DEF ScanInv, Has, ScanGuardSound, AgentPlaces
<1>9. StampInv' BY <1>1, <1>3 DEF StampInv
<1>10. BuiltInv' BY <1>1, <1>2, <1>3 DEF BuiltInv, AgentPlaces
<1> QED BY <1>7, <1>8, <1>9, <1>10 DEF BootInv

(* LEMMA: one entry more, or none.                                           *)
LEMMA OneMore ==
  ASSUME NEW s \in Seq(Kinds), NEW k \in Kinds, NEW x \in {<<>>, <<k>>}
  PROVE  s \o x \in {s, Append(s, k)} /\ s \o x \in Seq(Kinds)
<1>1. s \o <<>> = s OBVIOUS
<1>2. s \o <<k>> = Append(s, k) /\ Append(s, k) \in Seq(Kinds) OBVIOUS
<1> QED BY <1>1, <1>2

(* LEMMA: a seeded brief is handed off and approved; an old spec stays what  *)
(* it was.                                                                   *)
LEMMA SeedKeeps == ASSUME BootInv, SeedBrief PROVE BootInv'
<1> DEFINE s == log["brief"]
           a == IF Has("brief", "handoff") THEN <<>> ELSE <<"handoff">>
           b == IF Has("brief", "approved") THEN <<>> ELSE <<"approved">>
           u == s \o a \o b
<1>0. TypedThreads /\ SpecIsApproved(s) /\ tk \in [BootTickets -> TkStatus] BY BootFacts
<1>1. s \in Seq(Kinds) /\ "handoff" \in Kinds /\ "approved" \in Kinds
  BY <1>0, LastOfThread DEF TypedThreads, Kinds
<1>2. log' = [log EXCEPT !["brief"] = u] BY DEF SeedBrief
<1>3. a \in {<<>>, <<"handoff">>} /\ b \in {<<>>, <<"approved">>} OBVIOUS
<1> HIDE DEF a, b, s
<1>4. s \o a \in {s, Append(s, "handoff")} BY <1>1, <1>3, OneMore
<1>5. s \o a \in Seq(Kinds) BY <1>1, <1>3, OneMore
<1>6. u \in {s \o a, Append(s \o a, "approved")} BY <1>1, <1>3, <1>5, OneMore
<1> HIDE DEF u
<1>7. u \in {s, Append(s, "handoff"), Append(s, "approved"), Append(Append(s, "handoff"), "approved")}
  BY <1>4, <1>6
<1>8. u \in Seq(Kinds) /\ GrewBy(s, u, {"spec"}) /\ GrewBy(s, u, {}) BY <1>1, <1>7 DEF GrewBy
<1>9. SpecIsApproved(u) BY <1>0, <1>1, <1>8, SpecKept DEF s
<1>10. /\ at' = "loop" /\ rs' = "SEEDED" /\ at' \in BootPlaces /\ at' \notin AgentPlaces /\ at = "loop"
       /\ UNCHANGED <<cmd, on, repeats, proj, drift, scanWrote, crashes>>
  BY DEF SeedBrief, BootPlaces, AgentPlaces
<1>11. ThreadsKept BY <1>0, <1>2, <1>8, <1>9, <1>10, LastOfThread, GrownThreads DEF s, NotInSpec
<1>12. tk' \in [BootTickets -> TkStatus]
  <2>1. "brief" \in BootTickets BY LastOfThread
  <2> QED BY <1>0, <2>1, StatusSet DEF SeedBrief, SetStatus
<1> QED BY <1>10, <1>11, <1>12, BootFacts, StepKeeps

(* LEMMA: the process dies, the operator edits, the orchestrator plans.      *)
LEMMA OutsideKeeps ==
  ASSUME BootInv, Crash \/ (\E where \in Surfaces : OperatorEdits(where)) \/ EnsurePlanningTicket
  PROVE  BootInv'
<1>0. /\ TypedThreads /\ SpecIsApproved(log["brief"]) /\ tk \in [BootTickets -> TkStatus]
      /\ crashes \in 0..MaxCrashes
  BY BootFacts
<1>1. CASE Crash
  <2>1. /\ at' = "off" /\ at' \in BootPlaces /\ at' \notin AgentPlaces
        /\ UNCHANGED <<cmd, on, rs, repeats, proj, tk, log, drift, scanWrote>>
        /\ crashes' \in 0..MaxCrashes
    BY <1>0, <1>1, BootAssumption DEF Crash, Leave, BootPlaces, AgentPlaces
  <2>2. ThreadsKept BY <1>0, <2>1, QuietThreads
  <2> QED BY <2>1, <2>2, BootFacts, StepKeeps
<1>2. ASSUME NEW where \in Surfaces, OperatorEdits(where) PROVE BootInv'
  <2>1. /\ at = "off" /\ at' = "off" /\ at' \in BootPlaces /\ at' \notin AgentPlaces
        /\ UNCHANGED <<cmd, on, rs, repeats, proj, tk, log, scanWrote, crashes>>
        /\ drift' = drift \cup {where}
    BY <1>2 DEF OperatorEdits, BootPlaces, AgentPlaces
  <2>2. ThreadsKept BY <1>0, <2>1, QuietThreads
  <2>3. drift' \subseteq Surfaces /\ scanWrote \subseteq drift' \cup {"taken"} BY <2>1, BootFacts
  <2> QED BY <2>1, <2>2, <2>3, BootFacts, StepKeeps
<1>3. CASE EnsurePlanningTicket
  <2>1. /\ at = "off" /\ at' = "off" /\ at' \in BootPlaces /\ at' \notin AgentPlaces
        /\ UNCHANGED <<cmd, on, rs, repeats, proj, log, drift, scanWrote, crashes>>
    BY <1>3 DEF EnsurePlanningTicket, BootPlaces, AgentPlaces
  <2>2. ThreadsKept BY <1>0, <2>1, QuietThreads
  <2>3. tk' \in [BootTickets -> TkStatus]
    BY <1>0, <1>3, StatusSet, LastOfThread DEF EnsurePlanningTicket, SetStatus
  <2> QED BY <2>1, <2>2, <2>3, BootFacts, StepKeeps
<1> QED BY <1>1, <1>2, <1>3

(* LEMMA: what the classifiers promise of the state they name.               *)
LEMMA ClassifierReads ==
  ASSUME BootInv
  PROVE  /\ cmd = "init" => InitState \notin {"SCAN", "PM_BACKLOG"}
         /\ InitState = "SPEC" \/ OnboardState = "SPEC" => ApprovedBrief /\ FreshBrief
         /\ OnboardState = "PM_BACKLOG" => ApprovedArch
         /\ InitState \in {"PO_LEVEL", "ANSWER_LEVEL"} => NextLevel # 0
         /\ OnboardState \notin {"PO_LEVEL", "ANSWER_LEVEL"}
         /\ proj.completed => OnboardState \in {"BROKEN", "DONE"}
<1>1. /\ \A t \in BootTickets : log[t] \in Seq(Kinds)
      /\ "brief" \in BootTickets /\ "arch" \in BootTickets
  BY BootFacts, LastOfThread DEF TypedThreads
<1>2. ASSUME NEW t \in BootTickets, NEW k, NEW l, k # l, LastOf(t, k) # 0, LastOf(t, k) <= LastOf(t, l)
      PROVE  LastOf(t, k) < LastOf(t, l)
  <2>1. LastOf(t, k) = LastIn(log[t], k) /\ LastOf(t, l) = LastIn(log[t], l) BY LastOfThread
  <2>2. /\ LastIn(log[t], k) \in 0..Len(log[t]) /\ LastIn(log[t], l) \in 0..Len(log[t])
        /\ (LastIn(log[t], k) # 0 => log[t][LastIn(log[t], k)] = k)
        /\ (LastIn(log[t], l) # 0 => log[t][LastIn(log[t], l)] = l)
    BY <1>1, LastIs
  <2> QED BY <1>2, <2>1, <2>2
<1>3. \A t \in BootTickets : \A k : LastOf(t, k) \in Nat BY <1>1, LastOfThread, LastIs
<1>12. LastOf("brief", "gaps") <= LastOf("brief", "handoff") /\ ApprovedBrief => FreshBrief
  BY <1>1, <1>3 DEF ApprovedBrief, FreshBrief
<1>4. Has("brief", "handoff") /\ ~NeedsApproval => ApprovedBrief
  <2> SUFFICES ASSUME Has("brief", "handoff"), ~NeedsApproval PROVE ApprovedBrief OBVIOUS
  <2>1. LastOf("brief", "handoff") # 0 /\ LastOf("brief", "handoff") <= LastOf("brief", "approved")
    BY <1>1, <1>3 DEF Has, NeedsApproval
  <2> QED BY <1>1, <1>2, <2>1 DEF ApprovedBrief
<1>5. /\ \A default \in {"SA", "BRANCH"} :
           ArchState(default) \in {"SA", "BRANCH", "DONE", "DIRECT", "SA_CONFIRM", "ANSWER_ARCH"}
      /\ ProfileState \in {"PM_CONFIRM", "PM_PROFILE"}
  BY DEF ArchState, ProfileState
<1>6. /\ InitState \notin {"SCAN", "PM_BACKLOG"}
      /\ InitState \in {"PO_LEVEL", "ANSWER_LEVEL"} => NextLevel # 0
  BY <1>5 DEF InitState
<1>7. InitState = "SPEC" => ApprovedBrief /\ FreshBrief
  <2> SUFFICES ASSUME InitState = "SPEC" PROVE ApprovedBrief /\ FreshBrief OBVIOUS
  <2>1. /\ Has("brief", "handoff") /\ ~NeedsApproval
        /\ ~(LastOf("brief", "gaps") > LastOf("brief", "handoff"))
    BY <1>5 DEF InitState
  <2>2. LastOf("brief", "gaps") <= LastOf("brief", "handoff") BY <1>1, <1>3, <2>1
  <2> QED BY <1>4, <1>12, <2>1, <2>2
<1>8. OnboardState = "SPEC" => ApprovedBrief /\ FreshBrief
  <2> SUFFICES ASSUME OnboardState = "SPEC" PROVE ApprovedBrief /\ FreshBrief OBVIOUS
  <2>1. /\ Has("brief", "handoff") /\ ~NeedsApproval
        /\ LastOf("brief", "approved") > LastOf("brief", "gaps")
    BY <1>5 DEF OnboardState
  <2> QED BY <1>1, <1>3, <1>4, <2>1 DEF FreshBrief
<1>9. OnboardState = "PM_BACKLOG" => ApprovedArch
  <2> SUFFICES ASSUME OnboardState = "PM_BACKLOG" PROVE ApprovedArch OBVIOUS
  <2>1. /\ ~(LastOf("arch", "rerun") >= LastOf("arch", "handoff"))
        /\ ~(LastOf("arch", "artifacts_ok") < LastOf("arch", "handoff"))
    BY <1>5 DEF OnboardState
  <2>2. /\ LastOf("arch", "rerun") < LastOf("arch", "handoff") /\ LastOf("arch", "handoff") # 0
        /\ LastOf("arch", "handoff") <= LastOf("arch", "artifacts_ok")
    BY <1>1, <1>3, <2>1
  <2> QED BY <1>1, <1>2, <2>2 DEF ApprovedArch
<1>10. OnboardState \notin {"PO_LEVEL", "ANSWER_LEVEL"} BY <1>5 DEF OnboardState
<1>11. proj.completed => OnboardState \in {"BROKEN", "DONE"} BY DEF OnboardState, DirState
<1> QED BY <1>6, <1>7, <1>8, <1>9, <1>10, <1>11

(* LEMMA: the smaller of two numbers.                                        *)
LEMMA SmallerIs == ASSUME NEW i \in Nat, NEW j \in Nat PROVE Min({i, j}) = IF i <= j THEN i ELSE j
<1>1. Min({i, j}) \in {i, j} BY SmallestExists
<1>2. PICK x \in {i, j} : \A y \in {i, j} : x =< y OBVIOUS
<1>3. \A y \in {i, j} : Min({i, j}) =< y BY <1>2 DEF Min
<1> QED BY <1>1, <1>3

(* LEMMA: a dispatch takes a step only on what the classifier read.          *)
LEMMA DispatchKeeps == ASSUME BootInv, Dispatch PROVE BootInv'
<1>0. /\ TypedThreads /\ SpecIsApproved(log["brief"]) /\ repeats \in 0..4 BY BootFacts
<1>1. /\ at = "loop" /\ at' \in {"off", "step"} /\ rs' = IF cmd = "init" THEN InitState ELSE OnboardState
      /\ UNCHANGED <<cmd, on, proj, tk, log, drift, scanWrote, crashes>>
      /\ (rs' \in {"DONE", "BROKEN"} => at' = "off")
      /\ (at' = "step" /\ rs' \in SpawnStates => ~(repeats' > 3))
  BY DEF Dispatch, Classified, SpawnLimitHit, MaxSameStateSpawns
<1>2. repeats' \in 0..4
  <2>1. Min({repeats + 1, 4}) \in 0..4 BY <1>0, SmallerIs
  <2> QED BY <2>1 DEF Dispatch, MaxSameStateSpawns
<1>3. /\ cmd = "init" => rs' \notin {"SCAN", "PM_BACKLOG"}
      /\ rs' = "SPEC" => ApprovedBrief /\ FreshBrief
      /\ rs' = "PM_BACKLOG" => ApprovedArch
      /\ rs' \in {"PO_LEVEL", "ANSWER_LEVEL"} => NextLevel # 0
      /\ proj.completed => rs' \in {"BROKEN", "DONE"}
  <2>1. proj.completed => cmd = "onboard" BY DEF BootInv, BuiltInv
  <2> QED BY <1>1, <2>1, ClassifierReads
<1>4. ThreadsKept BY <1>0, <1>1, QuietThreads
<1>5. /\ ApprovedArch' = ApprovedArch /\ ApprovedBrief' = ApprovedBrief /\ FreshBrief' = FreshBrief
      /\ NextLevel' = NextLevel
  BY <1>1 DEF ApprovedArch, ApprovedBrief, FreshBrief, LastOf, NextLevel, Has
<1>6. at' \in BootPlaces /\ at' \notin AgentPlaces BY <1>1 DEF BootPlaces, AgentPlaces
<1>7. BootShape' BY <1>1, <1>2, <1>3, <1>4, <1>5, <1>6, BootFacts DEF BootShape, ThreadsKept
<1>8. ScanInv' BY <1>1, <1>3, <1>4, <1>6 DEF BootInv, ScanInv, ScanGuardSound, ThreadsKept
<1>9. StampInv' BY <1>1, <1>6 DEF BootInv, StampInv, AgentPlaces
<1>10. BuiltInv' BY <1>1, <1>3, <1>4, <1>5, <1>6, BootFacts DEF BootInv, BuiltInv, ThreadsKept, NotInSpec, AgentPlaces
<1> QED BY <1>7, <1>8, <1>9, <1>10 DEF BootInv

(* LEMMA: the steps that run an agent run it on the ticket of their state.   *)
LEMMA SpawnsKeep ==
  ASSUME BootInv, SpawnAgent \/ SpawnSpecGenerator \/ SpawnScanner
  PROVE  BootInv'
<1>0. {"brief", "arch", "scan", "profile", "backlog"} \subseteq BootTickets BY LastOfThread
<1>1. CASE SpawnAgent
  <2>1. ASSUME NEW c, NEW state, NEW t \in BootTickets, RunAgentOn(c, state, t),
               state \notin {"SCAN", "PM_BACKLOG", "SPEC"}
        PROVE  BootInv'
    <3>1. /\ at = "step" /\ Spawn(t) /\ rs \notin {"SCAN", "PM_BACKLOG", "SPEC"}
          /\ UNCHANGED <<cmd, rs, repeats, proj, log, drift, scanWrote, crashes>>
      BY <2>1 DEF RunAgentOn, Step
    <3> QED BY <3>1, SpawnKeeps
  <2>2. CASE RunPoLevel
    <3>1. at = "step" /\ rs = "PO_LEVEL" BY <2>2 DEF RunPoLevel, RunAgentOn, Step
    <3>2. Levels[NextLevel] \in BootTickets
      BY <3>1, NextLevelIsOne, LastOfThread DEF BootInv, BootShape
    <3> QED BY <2>1, <2>2, <3>2 DEF RunPoLevel
  <2> QED
    BY <1>0, <1>1, <2>1, <2>2
    DEF SpawnAgent, RunPoConversation, RunSaConversation, RunOnboardPoConversation,
        RunOnboardPmProfilePass, RunOnboardSaConversation
<1>2. CASE SpawnSpecGenerator
  <2>1. /\ at = "step" /\ rs = "SPEC" /\ at' = "agent" /\ on' = "brief" /\ at' \in BootPlaces
        /\ UNCHANGED <<cmd, rs, repeats, proj, tk, log, drift, scanWrote, crashes>>
    BY <1>2 DEF SpawnSpecGenerator, Step, BootPlaces
  <2>2. ThreadsKept BY <2>1, BootFacts, QuietThreads
  <2> QED BY <1>0, <2>1, <2>2, BootFacts, StepKeeps
<1>3. CASE SpawnScanner
  <2>1. /\ at = "step" /\ rs = "SCAN" /\ UNCHANGED <<cmd, rs, repeats, proj, log, drift, scanWrote, crashes>>
    BY <1>3 DEF SpawnScanner, Step
  <2>2. CASE Has("scan", "scan_done")
    <3>1. at' = "verify" /\ UNCHANGED <<tk, on>> BY <1>3, <2>2 DEF SpawnScanner
    <3>2. ThreadsKept BY <2>1, BootFacts, QuietThreads
    <3>3. SameMarks(proj', proj) BY <2>1 DEF SameMarks
    <3> QED BY <2>1, <3>1, <3>2, <3>3, BootFacts, MovesOn
  <2>3. CASE ~Has("scan", "scan_done")
    <3>1. Spawn("scan") BY <1>3, <2>3 DEF SpawnScanner
    <3> QED BY <1>0, <2>1, <2>3, <3>1, SpawnKeeps
  <2> QED BY <2>2, <2>3
<1> QED BY <1>1, <1>2, <1>3

(* LEMMA: the backlog is planned, or skipped, on approved artefacts.         *)
LEMMA BacklogKeeps == ASSUME BootInv, SpawnBacklog PROVE BootInv'
<1>0. /\ TypedThreads /\ SpecIsApproved(log["brief"]) /\ proj \in Projects /\ "backlog" \in BootTickets
  BY BootFacts, LastOfThread
<1>1. /\ at = "step" /\ rs = "PM_BACKLOG" /\ UNCHANGED <<cmd, rs, repeats, log, drift, scanWrote, crashes>>
  BY DEF SpawnBacklog, Step
<1>2. CASE proj.desired
  <2>1. Spawn("backlog") /\ UNCHANGED proj BY <1>2 DEF SpawnBacklog
  <2> QED BY <1>0, <1>1, <2>1, SpawnKeeps
<1>3. CASE ~proj.desired
  <2>1. /\ proj' = [proj EXCEPT !.completed = TRUE] /\ at' = "loop" /\ UNCHANGED <<tk, on>>
        /\ at' \in BootPlaces /\ at' \notin AgentPlaces
    BY <1>3 DEF SpawnBacklog, BootPlaces, AgentPlaces
  <2>2. TRUE \in BOOLEAN OBVIOUS
  <2>3. /\ proj' \in Projects /\ proj'.completed /\ proj'.stamped = proj.stamped
        /\ proj'.arch = proj.arch /\ proj'.baseline = proj.baseline
    BY <1>0, <2>1, <2>2, ProjectMarked
  <2>4. ThreadsKept BY <1>0, <1>1, QuietThreads
  <2>5. cmd = "onboard" /\ ApprovedArch BY <1>1 DEF BootInv, BuiltInv
  <2>6. ApprovedArch' = ApprovedArch BY <1>1 DEF ApprovedArch, LastOf
  <2>7. BootShape' BY <1>1, <2>1, <2>3, <2>4, BootFacts DEF BootShape, ThreadsKept
  <2>8. ScanInv' BY <1>1, <2>1, <2>3, <2>4 DEF BootInv, ScanInv, ScanGuardSound, ThreadsKept
  <2>9. StampInv' BY <1>1, <2>1, <2>3 DEF BootInv, StampInv
  <2>10. BuiltInv' BY <1>1, <2>1, <2>4, <2>5, <2>6 DEF BuiltInv, ThreadsKept
  <2> QED BY <2>7, <2>8, <2>9, <2>10 DEF BootInv
<1> QED BY <1>2, <1>3

(* LEMMA: the operator's choices.                                            *)
LEMMA ChoicesKeep ==
  ASSUME BootInv, NEW c \in {"yes", "resume", "no"},
         \/ ApproveBrief(c) \/ DecideGap(c) \/ ChooseBranch(c) \/ ConfirmProfile(c)
         \/ ConfirmScaffold(c) \/ ReviewArtifacts(c)
  PROVE  BootInv'
<1>0. /\ TypedThreads /\ SpecIsApproved(log["brief"]) /\ proj \in Projects /\ tk \in [BootTickets -> TkStatus]
      /\ {"brief", "arch", "scan", "profile", "backlog"} \subseteq BootTickets /\ on \in BootTickets
      /\ crashes \in 0..MaxCrashes
  BY BootFacts, LastOfThread
<1>1. {"approved", "skipped", "artifacts_ok", "rerun"} \subseteq Kinds BY DEF Kinds
<1>2. SameMarks(proj, proj) BY DEF SameMarks
<1>3. \A t \in {"brief", "arch"} : SetStatus(t, Reactivated(t)) => tk' \in [BootTickets -> TkStatus]
  BY <1>0, StatusSet DEF SetStatus
<1>4. ASSUME at = "step", at' \in {"off", "loop"}, UNCHANGED <<cmd, rs, repeats, proj, drift, scanWrote, crashes>>,
             on' = on, tk' \in [BootTickets -> TkStatus], ThreadsKept
      PROVE  BootInv'
  BY <1>0, <1>2, <1>4, MovesOn
<1>5. CASE ApproveBrief(c)
  <2>1. /\ at = "step" /\ rs = "APPROVAL" /\ UNCHANGED <<cmd, rs, repeats, proj, drift, scanWrote, crashes>>
    BY <1>5 DEF ApproveBrief, Step
  <2>2. CASE Post("brief", "approved") /\ at' = "loop" /\ UNCHANGED <<tk, on>>
    <3>1. ThreadsKept BY <1>0, <1>1, <2>2, PostedThreads
    <3> QED BY <1>0, <1>4, <2>1, <2>2, <3>1
  <2>3. CASE SetStatus("brief", Reactivated("brief")) /\ at' = "loop" /\ UNCHANGED <<on, log>>
    <3>1. ThreadsKept BY <1>0, <2>3, QuietThreads
    <3> QED BY <1>3, <1>4, <2>1, <2>3, <3>1
  <2>4. CASE Spawn("brief") /\ UNCHANGED log BY <1>0, <2>1, <2>4, SpawnKeeps
  <2>5. CASE Leave /\ UNCHANGED <<tk, on, log>>
    <3>1. ThreadsKept BY <1>0, <2>5, QuietThreads
    <3> QED BY <1>0, <1>4, <2>1, <2>5, <3>1 DEF Leave
  <2> QED BY <1>5, <2>2, <2>3, <2>4, <2>5 DEF ApproveBrief
<1>6. CASE DecideGap(c)
  <2>1. /\ at = "step" /\ rs = "GAP" /\ UNCHANGED <<cmd, rs, repeats, proj, log, drift, scanWrote, crashes>>
    BY <1>6 DEF DecideGap, Step
  <2>2. CASE Leave /\ UNCHANGED <<tk, on>>
    <3>1. ThreadsKept BY <1>0, <2>1, QuietThreads
    <3> QED BY <1>0, <1>4, <2>1, <2>2, <3>1 DEF Leave
  <2>3. CASE Spawn("brief") BY <1>0, <2>1, <2>3, SpawnKeeps
  <2> QED BY <1>6, <2>2, <2>3 DEF DecideGap
<1>7. CASE ChooseBranch(c)
  <2>1. /\ at = "step" /\ rs = "BRANCH" /\ UNCHANGED <<cmd, rs, repeats, proj, drift, scanWrote, crashes>>
    BY <1>7 DEF ChooseBranch, Step
  <2>2. CASE Spawn("brief") /\ UNCHANGED log BY <1>0, <2>1, <2>2, SpawnKeeps
  <2>3. CASE Spawn("arch") /\ UNCHANGED log BY <1>0, <2>1, <2>3, SpawnKeeps
  <2>4. CASE SetStatus("arch", Reactivated("arch")) /\ Post("arch", "skipped") /\ at' = "loop" /\ UNCHANGED on
    <3>1. "skipped" \notin ArchKinds BY DEF ArchKinds
    <3>2. ThreadsKept BY <1>0, <1>1, <2>4, <3>1, PostedThreads
    <3> QED BY <1>3, <1>4, <2>1, <2>4, <3>2
  <2> QED BY <1>7, <2>2, <2>3, <2>4 DEF ChooseBranch
<1>8. CASE ConfirmProfile(c)
  <2>1. /\ at = "step" /\ UNCHANGED <<cmd, on, rs, repeats, tk, log, drift, scanWrote, crashes>>
    BY <1>8 DEF ConfirmProfile, Step
  <2>2. ThreadsKept BY <1>0, <2>1, QuietThreads
  <2>3. CASE Leave /\ UNCHANGED proj BY <1>0, <1>4, <2>1, <2>2, <2>3 DEF Leave
  <2>4. CASE at' = "loop" /\ \E q \in {"small", "medium"} : proj' = [proj EXCEPT !.profile = q]
    <3>1. proj' \in Projects /\ SameMarks(proj', proj) /\ proj'.baseline = proj.baseline
      BY <1>0, <2>4, ProfileWith
    <3> QED BY <1>0, <2>1, <2>2, <2>4, <3>1, MovesOn
  <2> QED BY <1>8, <2>3, <2>4 DEF ConfirmProfile
<1>9. CASE ConfirmScaffold(c)
  <2>1. /\ at = "step" /\ rs \in {"SA_CONFIRM", "DIRECT"}
        /\ UNCHANGED <<cmd, rs, repeats, proj, log, drift, scanWrote, crashes>>
    BY <1>9 DEF ConfirmScaffold, Step
  <2>2. ThreadsKept BY <1>0, <2>1, QuietThreads
  <2>3. CASE Leave /\ UNCHANGED <<tk, on>> BY <1>0, <1>4, <2>1, <2>2, <2>3 DEF Leave
  <2>4. CASE Spawn("arch") BY <1>0, <2>1, <2>4, SpawnKeeps
  <2>5. CASE at' = "scaffold" /\ UNCHANGED <<tk, on>> BY <1>0, <1>2, <2>1, <2>2, <2>5, MovesOn
  <2> QED BY <1>9, <2>3, <2>4, <2>5 DEF ConfirmScaffold
<1>10. CASE ReviewArtifacts(c)
  <2>1. /\ at = "step" /\ rs = "REVIEW" /\ at' = "loop"
        /\ UNCHANGED <<cmd, on, rs, repeats, proj, drift, scanWrote, crashes>>
    BY <1>10 DEF ReviewArtifacts, Step
  <2>2. ~proj.completed BY <2>1 DEF BootInv, BuiltInv
  <2>3. CASE Post("arch", "artifacts_ok") /\ UNCHANGED tk
    <3>1. ThreadsKept BY <1>0, <1>1, <2>1, <2>2, <2>3, PostedThreads
    <3> QED BY <1>0, <1>4, <2>1, <2>3, <3>1
  <2>4. CASE Post("arch", "rerun") /\ SetStatus("arch", Reactivated("arch"))
    <3>1. ThreadsKept BY <1>0, <1>1, <2>1, <2>2, <2>4, PostedThreads
    <3> QED BY <1>3, <1>4, <2>1, <2>4, <3>1
  <2> QED BY <1>10, <2>3, <2>4 DEF ReviewArtifacts
<1> QED BY <1>5, <1>6, <1>7, <1>8, <1>9, <1>10

(* LEMMA: the scaffold's writes: the architecture is on disk at the stamp.   *)
LEMMA ScaffoldKeeps == ASSUME BootInv, ApplyScaffold PROVE BootInv'
<1>0. /\ TypedThreads /\ SpecIsApproved(log["brief"]) /\ proj \in Projects /\ tk \in [BootTickets -> TkStatus]
      /\ {"arch", "planning"} \subseteq BootTickets /\ on \in BootTickets /\ crashes \in 0..MaxCrashes
      /\ {"none", "in_progress"} \subseteq TkStatus /\ SameMarks(proj, proj)
      /\ "applied" \in Kinds /\ "applied" \notin ArchKinds
  BY BootFacts, LastOfThread DEF TkStatus, SameMarks, Kinds, ArchKinds
<1>1. UNCHANGED <<cmd, on, rs, repeats, drift, scanWrote, crashes>> BY DEF ApplyScaffold
<1>2. CASE at = "event" /\ at' = "plan"
  <2>1. Post("arch", "applied") /\ UNCHANGED proj /\ tk' \in [BootTickets -> TkStatus]
    BY <1>0, <1>2, StatusSet DEF ApplyScaffold, SetStatus
  <2>2. ThreadsKept BY <1>0, <1>2, <2>1, PostedThreads
  <2> QED BY <1>0, <1>1, <1>2, <2>1, <2>2, MovesOn
<1>3. CASE at = "plan"
  <2>1. at' = "off" /\ UNCHANGED <<log, proj>> /\ tk' \in [BootTickets -> TkStatus]
    BY <1>0, <1>3, StatusSet DEF ApplyScaffold, SetStatus
  <2>2. ThreadsKept BY <1>0, <2>1, QuietThreads
  <2> QED BY <1>0, <1>1, <1>3, <2>1, <2>2, MovesOn
<1>4. CASE at \in {"scaffold", "stamp"}
  <2>1. proj' = [proj EXCEPT ![ScaffoldWrites(at)] = TRUE] /\ UNCHANGED <<tk, log>>
        /\ at' = IF at = "scaffold" THEN "stamp" ELSE "event"
    BY <1>4 DEF ApplyScaffold
  <2>2. TRUE \in BOOLEAN OBVIOUS
  <2>3. /\ proj' \in Projects /\ proj'.completed = proj.completed /\ proj'.baseline = proj.baseline
        /\ (at = "scaffold" => proj'.arch /\ proj'.stamped = proj.stamped)
        /\ (at = "stamp" => proj'.arch = proj.arch)
    <3>1. CASE at = "scaffold"
      <4>1. proj' = [proj EXCEPT !["arch"] = TRUE] BY <2>1, <3>1 DEF ScaffoldWrites
      <4> QED BY <1>0, <2>2, <3>1, <4>1, ProjectMarked
    <3>2. CASE at = "stamp"
      <4>1. proj' = [proj EXCEPT !["stamped"] = TRUE] BY <2>1, <3>2 DEF ScaffoldWrites
      <4> QED BY <1>0, <2>2, <3>2, <4>1, ProjectMarked
    <3> QED BY <1>4, <3>1, <3>2
  <2>4. ThreadsKept BY <1>0, <2>1, QuietThreads
  <2>5. at' \in {"stamp", "event"} /\ at' \in BootPlaces /\ at' \notin AgentPlaces /\ at \notin {"off", "loop"}
    BY <1>4, <2>1 DEF BootPlaces, AgentPlaces
  <2>6. BootShape' BY <1>1, <2>1, <2>3, <2>4, <2>5, BootFacts DEF BootInv, BootShape, ThreadsKept
  <2>7. ScanInv' BY <1>1, <2>3, <2>4, <2>5 DEF BootInv, ScanInv, ScanGuardSound, ThreadsKept
  <2>8. StampInv' BY <1>4, <2>1, <2>3 DEF BootInv, StampInv
  <2>9. BuiltInv' BY <1>1, <2>3, <2>4, <2>5 DEF BootInv, BuiltInv, ThreadsKept
  <2> QED BY <2>6, <2>7, <2>8, <2>9 DEF BootInv
<1> QED BY <1>2, <1>3, <1>4 DEF ApplyScaffold

(* LEMMA: the operator's answers.                                            *)
LEMMA AnswersKeep == ASSUME BootInv, AnswerQuestions PROVE BootInv'
<1>0. /\ TypedThreads /\ SpecIsApproved(log["brief"]) /\ proj \in Projects /\ tk \in [BootTickets -> TkStatus]
      /\ {"brief", "arch", "backlog"} \subseteq BootTickets /\ on \in BootTickets /\ crashes \in 0..MaxCrashes
      /\ "in_progress" \in TkStatus /\ SameMarks(proj, proj)
      /\ "answer" \in Kinds /\ "answer" \notin ArchKinds
  BY BootFacts, LastOfThread DEF TkStatus, SameMarks, Kinds, ArchKinds
<1>1. /\ at = "step" /\ rs \in {"ANSWER_BRIEF", "ANSWER_ARCH", "ANSWER_BACKLOG", "ANSWER_LEVEL"}
      /\ UNCHANGED <<cmd, on, rs, repeats, proj, drift, scanWrote, crashes>>
  BY DEF AnswerQuestions, Step
<1> DEFINE t == AnsweredTicket
<1>2. t \in BootTickets
  <2>1. rs = "ANSWER_LEVEL" => NextLevel \in DOMAIN Levels
    BY <1>1, NextLevelIsOne DEF BootInv, BootShape
  <2> QED BY <1>0, <1>1, <2>1, LastOfThread DEF AnsweredTicket
<1> HIDE DEF t
<1>3. CASE Post(t, "answer") /\ UNCHANGED <<tk, at>>
  <2>1. ThreadsKept BY <1>0, <1>1, <1>2, <1>3, PostedThreads
  <2> QED BY <1>0, <1>1, <1>3, <2>1, MovesOn
<1>4. CASE SetStatus(t, "in_progress") /\ at' = "loop" /\ UNCHANGED log
  <2>1. ThreadsKept BY <1>0, <1>4, QuietThreads
  <2>2. tk' \in [BootTickets -> TkStatus] BY <1>0, <1>2, <1>4, StatusSet DEF SetStatus
  <2> QED BY <1>0, <1>1, <1>4, <2>1, <2>2, MovesOn
<1> QED BY <1>3, <1>4 DEF AnswerQuestions, t

(* LEMMA: an agent's tool call posts to its own ticket.                      *)
LEMMA ToolKeeps ==
  ASSUME BootInv, NEW t, NEW k \in Kinds \ {"verified"}, Tool(t, k),
         (k = "spec" => rs = "SPEC"), (rs = "SPEC" => k \in {"gaps", "spec"})
  PROVE  BootInv'
<1>0. /\ TypedThreads /\ SpecIsApproved(log["brief"]) /\ proj \in Projects /\ on \in BootTickets
  BY BootFacts
<1>1. /\ at = "agent" /\ on = t /\ Post(t, k) /\ at' \in {"agent", "ask", "settle"}
      /\ UNCHANGED <<cmd, on, rs, repeats, proj, tk, drift, scanWrote, crashes>>
  BY DEF Tool
<1>2. at' \in BootPlaces /\ at' \in AgentPlaces /\ at \in AgentPlaces /\ at' # "step" /\ at' # "stamp"
  BY <1>1 DEF BootPlaces, AgentPlaces
<1>3. t = "arch" => ~(proj.completed \/ rs = "PM_BACKLOG")
  BY <1>1, <1>2 DEF BootInv, BuiltInv
<1>4. k = "spec" => ApprovedBrief BY <1>1, <1>2 DEF BootInv, BuiltInv
<1>5. ThreadsKept BY <1>0, <1>1, <1>2, <1>3, <1>4, PostedThreads
<1> QED BY <1>0, <1>1, <1>2, <1>5, BootFacts, StepKeeps

(* LEMMA: what an agent does.                                                *)
LEMMA CallsKeep == ASSUME BootInv, AgentCalls PROVE BootInv'
<1>1. {"handoff", "gaps", "small", "medium", "proposal", "scan_done", "question", "spec"}
        \subseteq Kinds \ {"verified"}
  BY DEF Kinds
<1>2. CASE SpecPublish BY <1>1, <1>2, ToolKeeps DEF SpecPublish
<1>3. CASE PoFinishBrief BY <1>1, <1>3, ToolKeeps DEF PoFinishBrief
<1>4. CASE PoFinishLevel
  <2>1. PICK i \in DOMAIN Levels : Tool(Levels[i], "handoff") BY <1>4 DEF PoFinishLevel
  <2>2. rs = "PO_LEVEL" BY <1>4 DEF PoFinishLevel
  <2> QED BY <1>1, <2>1, <2>2, ToolKeeps
<1>5. CASE SpecReportGaps BY <1>1, <1>5, ToolKeeps DEF SpecReportGaps
<1>6. ASSUME NEW t, NEW k, Tool(t, k), t # "brief" PROVE rs # "SPEC"
  BY <1>6 DEF Tool, BootInv, BuiltInv, AgentPlaces
<1>7. CASE PmProposeProfile BY <1>1, <1>6, <1>7, ToolKeeps DEF PmProposeProfile
<1>8. CASE SaProposeScaffold \/ ArchFinalize \/ OnboardFinishScan \/ BacklogDone
  BY <1>1, <1>6, <1>8, ToolKeeps DEF SaProposeScaffold, ArchFinalize, OnboardFinishScan, BacklogDone
<1>9. CASE AskQuestion BY <1>1, <1>9, ToolKeeps DEF AskQuestion
<1> QED BY <1>2, <1>3, <1>4, <1>5, <1>7, <1>8, <1>9 DEF AgentCalls

(* LEMMA: how its run goes on.                                               *)
LEMMA RunKeeps ==
  ASSUME BootInv, AgentSettles \/ (\E where \in Surfaces : ScannerWrites(where)) \/ AgentEnds
  PROVE  BootInv'
<1>0. /\ TypedThreads /\ SpecIsApproved(log["brief"]) /\ proj \in Projects /\ on \in BootTickets
      /\ tk \in [BootTickets -> TkStatus] /\ {"needs_info", "resolved"} \subseteq TkStatus
  BY BootFacts DEF TkStatus
<1>1. CASE AgentSettles
  <2>1. /\ at \in {"settle", "ask"} /\ at' = "agent"
        /\ UNCHANGED <<cmd, on, rs, repeats, proj, log, drift, scanWrote, crashes>>
    BY <1>1 DEF AgentSettles
  <2>2. at' \in BootPlaces /\ at' \in AgentPlaces /\ at \in AgentPlaces BY <2>1 DEF BootPlaces, AgentPlaces
  <2>3. tk' \in [BootTickets -> TkStatus] BY <1>0, <1>1, StatusSet DEF AgentSettles, SetStatus
  <2>4. ThreadsKept BY <1>0, <2>1, QuietThreads
  <2> QED BY <1>0, <2>1, <2>2, <2>3, <2>4, BootFacts, StepKeeps
<1>2. ASSUME NEW where \in Surfaces, ScannerWrites(where) PROVE BootInv'
  <2>1. /\ at = "agent" /\ rs = "SCAN" /\ drift' = drift \cup {where} /\ scanWrote' = scanWrote \cup {where}
        /\ UNCHANGED <<cmd, on, at, rs, repeats, proj, tk, log, crashes>>
    BY <1>2 DEF ScannerWrites
  <2>2. scanWrote' \subseteq Surfaces \cup {"taken"} BY <2>1, BootFacts
  <2>3. ThreadsKept BY <1>0, <2>1, QuietThreads
  <2>4. drift' \subseteq Surfaces /\ scanWrote' \subseteq drift' \cup {"taken"} BY <2>1, BootFacts
  <2>5. BootShape' BY <2>1, <2>2, <2>3, <2>4 DEF BootInv, BootShape, ThreadsKept
  <2>6. ~Has("scan", "verified") BY <2>1 DEF BootInv, ScanInv, AgentPlaces
  <2>7. proj.baseline BY <2>1, BootFacts DEF BootInv, ScanInv
  <2>8. ScanInv' BY <2>1, <2>3, <2>4, <2>6, <2>7, BootFacts DEF BootInv, ScanInv, ScanGuardSound, ThreadsKept
  <2>9. StampInv' BY <2>1 DEF BootInv, StampInv
  <2>10. ApprovedBrief' = ApprovedBrief /\ ApprovedArch' = ApprovedArch /\ FreshBrief' = FreshBrief
    BY <2>1 DEF ApprovedBrief, ApprovedArch, FreshBrief, LastOf
  <2>11. BuiltInv' BY <2>1, <2>3, <2>10 DEF BootInv, BuiltInv, ThreadsKept
  <2> QED BY <2>5, <2>8, <2>9, <2>11 DEF BootInv
<1>3. CASE AgentEnds
  <2> DEFINE b == proj.completed \/ (rs = "PM_BACKLOG" /\ Has("backlog", "handoff"))
  <2>1. /\ at = "agent" /\ at' = IF rs = "SCAN" THEN "verify" ELSE "loop"
        /\ proj' = [proj EXCEPT !.completed = b]
        /\ UNCHANGED <<cmd, on, rs, repeats, tk, log, drift, scanWrote, crashes>>
    BY <1>3 DEF AgentEnds
  <2>2. b \in BOOLEAN BY Zenon
  <2>3. ~proj.completed BY <2>1 DEF BootInv, BuiltInv
  <2>4. b => rs = "PM_BACKLOG" BY <2>3
  <2> HIDE DEF b
  <2>5. /\ proj' \in Projects /\ (proj'.completed => b) /\ proj'.stamped = proj.stamped
        /\ proj'.arch = proj.arch /\ proj'.baseline = proj.baseline
    <3>1. TRUE \in BOOLEAN /\ FALSE \in BOOLEAN OBVIOUS
    <3>2. CASE b
      <4>1. proj' = [proj EXCEPT !.completed = TRUE] BY <2>1, <2>2, <3>2, Zenon
      <4> QED BY <1>0, <3>1, <3>2, <4>1, ProjectMarked
    <3>3. CASE ~b
      <4>1. proj' = [proj EXCEPT !.completed = FALSE] BY <2>1, <2>2, <3>3, Zenon
      <4> QED BY <1>0, <3>1, <3>3, <4>1, ProjectMarked
    <3> QED BY <3>2, <3>3
  <2>6. ThreadsKept BY <1>0, <2>1, QuietThreads
  <2>7. at' \in {"verify", "loop"} /\ at' \in BootPlaces /\ at' \notin AgentPlaces /\ at \notin {"off", "loop"}
        /\ at \in AgentPlaces
    BY <2>1 DEF BootPlaces, AgentPlaces
  <2>8. BootShape' BY <2>1, <2>5, <2>6, <2>7, BootFacts DEF BootInv, BootShape, ThreadsKept
  <2>9. ScanInv' BY <2>1, <2>5, <2>6, <2>7 DEF BootInv, ScanInv, ScanGuardSound, ThreadsKept
  <2>10. StampInv' BY <2>5, <2>7 DEF BootInv, StampInv
  <2>11. ApprovedArch' = ApprovedArch BY <2>1 DEF ApprovedArch, LastOf
  <2>12. proj'.completed => cmd' = "onboard" /\ ApprovedArch' /\ at' = "loop"
    BY <2>1, <2>4, <2>5, <2>7, <2>11 DEF BootInv, BuiltInv
  <2>13. BuiltInv' BY <2>6, <2>7, <2>12 DEF BuiltInv, ThreadsKept
  <2> QED BY <2>8, <2>9, <2>10, <2>13 DEF BootInv
<1> QED BY <1>1, <1>2, <1>3

(* LEMMA: a scan is marked verified on a tree nobody changed.                *)
LEMMA VerifyKeeps == ASSUME BootInv, VerifyScan PROVE BootInv'
<1>0. /\ TypedThreads /\ SpecIsApproved(log["brief"]) /\ proj \in Projects /\ on \in BootTickets
      /\ tk \in [BootTickets -> TkStatus] /\ "scan" \in BootTickets /\ SameMarks(proj, proj)
      /\ crashes \in 0..MaxCrashes /\ log["scan"] \in Seq(Kinds)
      /\ "violation" \in Kinds /\ "verified" \in Kinds
  BY BootFacts, LastOfThread DEF SameMarks, Kinds, TypedThreads
<1>1. at = "verify" /\ UNCHANGED <<cmd, on, rs, repeats, proj, tk, drift, scanWrote, crashes>>
  BY DEF VerifyScan
<1>2. CASE Post("scan", "violation") /\ Leave
  <2>1. at' = "off" BY <1>2 DEF Leave
  <2>2. ThreadsKept BY <1>0, <1>2, <2>1, PostedThreads
  <2> QED BY <1>0, <1>1, <2>1, <2>2, MovesOn
<1>3. CASE at' = "loop" /\ UNCHANGED log
  <2>1. ThreadsKept BY <1>0, <1>3, QuietThreads
  <2> QED BY <1>0, <1>1, <1>3, <2>1, MovesOn
<1>4. CASE drift = {} /\ Has("scan", "scan_done") /\ Post("scan", "verified") /\ at' = "loop"
  <2> DEFINE u == Append(log["scan"], "verified")
  <2>1. u \in Seq(Kinds) /\ GrewBy(log["scan"], u, {}) BY <1>0, PostGrows
  <2>2. log' = [log EXCEPT !["scan"] = u] BY <1>4 DEF Post
  <2> HIDE DEF u
  <2>3. TypedThreads' BY <1>0, <2>1, <2>2 DEF TypedThreads
  <2>4. log'["brief"] = log["brief"] /\ log'["arch"] = log["arch"] /\ log'["scan"] = u
    BY <1>0, <2>2, LastOfThread DEF TypedThreads
  <2>5. SpecIsApproved(log["brief"])' BY <1>0, <2>4 DEF SpecIsApproved, LastIn
  <2>6. ApprovedArch' = ApprovedArch BY <2>4 DEF ApprovedArch, LastOf
  <2>7. Has("scan", "scan_done")'
    <3>1. LastIn(u, "scan_done") > 0 BY <1>0, <1>4, <2>1, LastOfThread, LastGrows DEF Has
    <3>2. LastOf("scan", "scan_done")' = LastIn(u, "scan_done") BY <2>4 DEF LastOf, LastIn
    <3> QED BY <3>1, <3>2 DEF Has
  <2>8. scanWrote \subseteq {"taken"} BY <1>4 DEF BootInv, ScanInv
  <2>9. BootShape' BY <1>1, <1>4, <2>3, BootFacts DEF BootShape, BootPlaces
  <2>10. ScanInv' BY <1>1, <1>4, <2>7, <2>8 DEF BootInv, ScanInv, ScanGuardSound, AgentPlaces
  <2>11. StampInv' BY <1>1, <1>4 DEF BootInv, StampInv
  <2>12. BuiltInv' BY <1>1, <1>4, <2>5, <2>6 DEF BootInv, BuiltInv, AgentPlaces
  <2> QED BY <2>9, <2>10, <2>11, <2>12 DEF BootInv
<1> QED BY <1>2, <1>3, <1>4 DEF VerifyScan

(* LEMMA: every step of the workflows keeps their invariant.                 *)
LEMMA BootStep == BootInv /\ [BootNext]_bootVars => BootInv'
<1> SUFFICES ASSUME BootInv, [BootNext]_bootVars PROVE BootInv' OBVIOUS
<1>1. CASE UNCHANGED bootVars
  <2>1. UNCHANGED <<cmd, at, on, rs, repeats, proj, tk, log, drift, scanWrote, crashes>>
    BY <1>1 DEF bootVars
  <2>2. ThreadsKept BY <2>1, BootFacts, QuietThreads
  <2>3. BootShape' BY <2>1, <2>2 DEF BootInv, BootShape, ThreadsKept
  <2>4. ScanInv' BY <2>1, <2>2 DEF BootInv, ScanInv, ScanGuardSound, ThreadsKept
  <2>5. StampInv' BY <2>1 DEF BootInv, StampInv
  <2>6. ApprovedBrief' = ApprovedBrief /\ ApprovedArch' = ApprovedArch /\ FreshBrief' = FreshBrief
    BY <2>1 DEF ApprovedBrief, ApprovedArch, FreshBrief, LastOf
  <2>7. BuiltInv' BY <2>1, <2>2, <2>6 DEF BootInv, BuiltInv, ThreadsKept
  <2> QED BY <2>3, <2>4, <2>5, <2>7 DEF BootInv
<1> QED
  BY <1>1, RunsKeep, SeedKeeps, ResetKeeps, OutsideKeeps, DispatchKeeps, SpawnsKeep, BacklogKeeps,
     ChoicesKeep, ScaffoldKeeps, AnswersKeep, CallsKeep, RunKeeps, VerifyKeeps
  DEF BootNext

(* THEOREM: a scan marked verified wrote nothing on the frozen paths, and on *)
(* the owned ones only what a run of the command took over before a scanner  *)
(* said it was done, wherever the command was killed and run again.          *)
THEOREM ScansAreGuarded == BootSpec => []ScanGuardSound
  BY BootStart, BootStep, BootMeans, PTL DEF BootSpec

(* THEOREM: an onboarding completes on approved artefacts, the spec          *)
(* generator starts only on a brief approved after its last handoff and gap  *)
(* report, and a structured spec is made of an approved brief.               *)
THEOREM BuildsOnApproval == BootSpec => []BuiltOnApproval
  BY BootStart, BootStep, BootMeans, PTL DEF BootSpec

-----------------------------------------------------------------------------
(* The suite: its parts move one at a time, so what holds of each part alone *)
(* holds of all of them together.                                            *)

(* LEMMA: every part starts as it starts alone.                              *)
LEMMA SuiteStart == SuiteInit => BootInit /\ DiscoInit /\ RiskInit /\ DraftInit /\ LayersInit
  BY DEF SuiteInit

(* LEMMA: a step of the suite is a step of a part, or leaves it alone.       *)
LEMMA SuiteStep ==
  ASSUME [SuiteNext]_suiteVars
  PROVE  /\ [BootNext]_bootVars /\ [DiscoNext]_discoVars /\ [RiskNext]_riskVars
         /\ [DraftNext]_draftVars /\ [LayersNext]_layerVars
  BY DEF SuiteNext, suiteVars

(* LEMMA: the suite's behaviours are behaviours of each part.                *)
LEMMA SuiteRuns == SuiteSpec => BootSpec /\ DiscoSpec /\ RiskSpec /\ DraftSpec /\ LayersSpec
  BY SuiteStart, SuiteStep, PTL DEF SuiteSpec, BootSpec, DiscoSpec, RiskSpec, DraftSpec, LayersSpec

(* THEOREM: every part's variables keep their types, and the spawns of one   *)
(* state stay within their limit.                                            *)
THEOREM AuthoringTyped == SuiteSpec => []AuthoringTypeOK
<1>1. BootSpec => []BootTypeOK BY BootStart, BootStep, BootMeans, PTL DEF BootSpec
<1>2. DiscoSpec => []DiscoTypeOK BY DiscoStart, DiscoStep, DiscoIsTyped, PTL DEF DiscoSpec
<1>3. RiskSpec => []RiskTypeOK BY RiskStart, RiskStep, RisksAreTyped, PTL DEF RiskSpec
<1>4. DraftSpec => []DraftTypeOK BY DraftTypesStart, DraftTypesStep, PTL DEF DraftSpec
<1>5. LayersSpec => []LayersTypeOK BY LayersStart, LayersStep, LayersAreTyped, PTL DEF LayersSpec
<1>6. BootTypeOK /\ DiscoTypeOK /\ RiskTypeOK /\ DraftTypeOK /\ LayersTypeOK => AuthoringTypeOK
  BY DEF AuthoringTypeOK
<1> QED BY <1>1, <1>2, <1>3, <1>4, <1>5, <1>6, SuiteRuns, PTL

(* THEOREM: what the next level is handed is complete: a stamped project can *)
(* be planned, an architect finds the documents its call names, and an       *)
(* architecture handed over has its rules.                                   *)
THEOREM HandedOverComplete == SuiteSpec => []HandoversComplete
<1>1. BootSpec => []StampedIsPlannable BY BootStart, BootStep, BootMeans, PTL DEF BootSpec
<1>2. StampedIsPlannable /\ ArchitectInputs /\ HandoffIsEnforced => HandoversComplete
  BY DEF HandoversComplete
<1> QED BY <1>1, <1>2, SuiteRuns, DiscoveryFeedsArchitect, DraftHandoffEnforced, PTL

=============================================================================
