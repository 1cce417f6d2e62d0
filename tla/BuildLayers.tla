----------------------------- MODULE BuildLayers -----------------------------
(***************************************************************************)
(* The planner's build plan and the coordinator that walks it: every epic   *)
(* has a bones, an mvp and a final layer of tickets, and a dispatch cycle   *)
(* refreshes the layers' statuses from the tickets, picks the layer that is *)
(* due and creates its tickets.  A cycle awaits the ticket store once per   *)
(* ticket, so agents move tickets while it reads them, and the plan file it *)
(* writes back is the one it loaded.                                        *)
(*                                                                          *)
(* Tickets are the ids the plan names; the texts of epics are left out.     *)
(***************************************************************************)
EXTENDS Naturals, Sequences, FiniteSets

CONSTANTS
  Epics,       \* a sequence of epic ids, in the plan's order
  PlanDrafts,  \* the plans a planner may finalize
  LowEpics,    \* epics that touch only modules marked cascade_risk_low
  MaxStatusMoves  \* bound: status changes made by agents and the operator

ASSUME LayersAssumption == MaxStatusMoves \in Nat

VARIABLES
  planFile,   \* build-plan.yaml; <<>> when absent
  ticketOf,   \* the ticket store: ticket -> status
  cycle,      \* the dispatch cycle in progress
  deferred,   \* the deferred queue: a set of tickets
  overrides,  \* overrides.jsonl: the epics the operator unblocked
  everDone,   \* history: tickets that have been resolved
  statusMoves

layerVars == <<planFile, ticketOf, cycle, deferred, overrides, everDone, statusMoves>>

LayerOrder == <<"bones", "mvp", "final">>
LayerNames == {"bones", "mvp", "final"}
EpicIds == {Epics[i] : i \in DOMAIN Epics}
NoCycle == [at |-> "idle"]

\* The tickets of a plan, by epic and layer.
TicketsIn(p) == UNION {p.layers[e][l].tickets : e \in EpicIds, l \in LayerNames}
StatusIn(store, t) == IF t \in DOMAIN store THEN store[t] ELSE "open"

-----------------------------------------------------------------------------
(* handle_plan_finalize. *)

\* No ticket twice, and some bones ticket to start from.
PlanValid(p) ==
  /\ \A e, f \in EpicIds, k, l \in LayerNames :
       <<e, k>> # <<f, l>> => p.layers[e][k].tickets \cap p.layers[f][l].tickets = {}
  /\ \E e \in EpicIds : p.layers[e]["bones"].tickets # {}

PlanFinalize(p) ==
  /\ PlanValid(p)
  /\ planFile' = p
  /\ UNCHANGED <<ticketOf, cycle, deferred, overrides, everDone, statusMoves>>

-----------------------------------------------------------------------------
(* The coordinator. *)

(* Mutant of ComputeLayerStatus: a ticket not yet created is skipped. *)
CreatedOnly(layer, seen) ==
  LET st == {seen[t] : t \in layer.tickets \cap DOMAIN seen} \ {"missing"}
  IN  IF layer.tickets = {} THEN layer.status
      ELSE IF "failed" \in st THEN "blocked"
      ELSE IF st \subseteq {"resolved"} THEN "done" ELSE "in_progress"
\* What the statuses read for a layer's tickets make of the layer; an empty
\* layer keeps its status, and a ticket not yet created counts as open.
ComputeLayerStatus(layer, seen) ==
  LET st == {IF seen[t] = "missing" THEN "open" ELSE seen[t] : t \in layer.tickets}
  IN  IF layer.tickets = {} THEN layer.status
      ELSE IF "failed" \in st THEN "blocked"
      ELSE IF st = {"resolved"} THEN "done"
      ELSE IF st # {"open"} THEN "in_progress" ELSE "not_started"

DoneOrEmpty(p, e, l) == p.layers[e][l].tickets = {} \/ p.layers[e][l].status = "done"
AllEpicsDone(p, l) == \A e \in EpicIds : DoneOrEmpty(p, e, l)

\* Some bones are done, some are not, and those touch low-risk modules only.
CascadeRiskLowOverride(p) ==
  LET has == {e \in EpicIds : p.layers[e]["bones"].tickets # {}}
      late == {e \in has : p.layers[e]["bones"].status # "done"}
  IN  late # {} /\ late # has /\ late \subseteq LowEpics

\* The first layer that is not done: over all epics, or for the first epic
\* that has one.
FirstOpen(open) == LayerOrder[CHOOSE i \in 1..3 : /\ LayerOrder[i] \in open
                                                 /\ \A j \in 1..i-1 : LayerOrder[j] \notin open]
NextLayerReady(p) ==
  IF p.rule = "bones_first"
  THEN LET open == {l \in LayerNames : ~AllEpicsDone(p, l)}
       IN  CASE open = {} -> "none"
             [] "bones" \in open /\ CascadeRiskLowOverride(p) -> "mvp"
             [] OTHER -> FirstOpen(open)
  ELSE LET openOf(e) == {l \in LayerNames : ~DoneOrEmpty(p, e, l)}
           late == {i \in DOMAIN Epics : openOf(Epics[i]) # {}}
       IN  IF late = {} THEN "none"
           ELSE FirstOpen(openOf(Epics[CHOOSE i \in late : \A j \in late : i <= j]))

\* advance_layer_status loads the plan and reads its tickets one by one.
BeginCycle ==
  /\ cycle = NoCycle /\ planFile # <<>>
  /\ cycle' = [at |-> "refresh", plan |-> planFile, seen |-> <<>>]
  /\ UNCHANGED <<planFile, ticketOf, deferred, overrides, everDone, statusMoves>>

\* Tickets are visited in the order the plan lists them.
FirstOf(ts) == CHOOSE t \in ts : TRUE
ReadTicket ==
  /\ cycle.at = "refresh" /\ DOMAIN cycle.seen # TicketsIn(cycle.plan)
  /\ LET t == FirstOf(TicketsIn(cycle.plan) \ DOMAIN cycle.seen) IN
     cycle' = [cycle EXCEPT !.seen = [x \in DOMAIN @ \cup {t} |->
                IF x # t THEN @[x] ELSE IF t \in DOMAIN ticketOf THEN ticketOf[t] ELSE "missing"]]
  /\ UNCHANGED <<planFile, ticketOf, deferred, overrides, everDone, statusMoves>>

\* The refreshed plan is written when a status changed, over whatever a
\* planner finalized meanwhile, and the due layer is chosen from it.
Refreshed(p, seen) ==
  [p EXCEPT !.layers = [e \in EpicIds |-> [l \in LayerNames |->
     [p.layers[e][l] EXCEPT !.status = ComputeLayerStatus(p.layers[e][l], seen)]]]]
AdvanceLayerStatus ==
  /\ cycle.at = "refresh" /\ DOMAIN cycle.seen = TicketsIn(cycle.plan)
  /\ LET fresh == Refreshed(cycle.plan, cycle.seen)
         next == NextLayerReady(fresh)
     IN  /\ planFile' = IF fresh # cycle.plan THEN fresh ELSE planFile
         /\ cycle' = IF next = "none" THEN NoCycle
                     ELSE [at |-> "create", plan |-> fresh, layer |-> next]
  /\ UNCHANGED <<ticketOf, deferred, overrides, everDone, statusMoves>>

\* materialize_layer: the chosen layer of every epic, one ticket at a time.
Uncreated(p, l) == UNION {p.layers[e][l].tickets : e \in EpicIds} \ DOMAIN ticketOf
MaterializeLayer ==
  /\ cycle.at = "create"
  /\ LET todo == Uncreated(cycle.plan, cycle.layer)
     IN  IF todo = {} THEN cycle' = NoCycle /\ UNCHANGED ticketOf
         ELSE /\ ticketOf' = [t \in DOMAIN ticketOf \cup {FirstOf(todo)} |->
                               StatusIn(ticketOf, t)]
              /\ UNCHANGED cycle
  /\ UNCHANGED <<planFile, deferred, overrides, everDone, statusMoves>>

\* materialize_ready_tickets: the bones, outside any cycle.
MaterializeReadyTickets ==
  /\ cycle = NoCycle /\ planFile # <<>>
  /\ cycle' = [at |-> "create", plan |-> planFile, layer |-> "bones"]
  /\ UNCHANGED <<planFile, ticketOf, deferred, overrides, everDone, statusMoves>>

-----------------------------------------------------------------------------
(* Everybody else. *)

DeferTicket(t) ==
  /\ deferred' = deferred \cup {t}
  /\ UNCHANGED <<planFile, ticketOf, cycle, overrides, everDone, statusMoves>>

\* jig pm unblock: recorded and reported; NextLayerReady does not look at it.
RecordUnblockOverride(e) ==
  /\ planFile # <<>> /\ overrides' = overrides \cup {e}
  /\ UNCHANGED <<planFile, ticketOf, cycle, deferred, everDone, statusMoves>>

\* triage_deferred's advice for a deferred ticket.
Triage(t) == CASE t \notin DOMAIN ticketOf     -> "close"
               [] ticketOf[t] = "resolved"     -> "rematerialize"
               [] OTHER                        -> "leave_deferred"

MoveTicket(t, s) ==
  /\ t \in DOMAIN ticketOf /\ s # ticketOf[t] /\ statusMoves < MaxStatusMoves
  /\ ticketOf' = [ticketOf EXCEPT ![t] = s]
  /\ everDone' = IF s = "resolved" THEN everDone \cup {t} ELSE everDone
  /\ statusMoves' = statusMoves + 1
  /\ UNCHANGED <<planFile, cycle, deferred, overrides>>

-----------------------------------------------------------------------------
LayersInit ==
  /\ planFile = <<>> /\ ticketOf = <<>> /\ cycle = NoCycle /\ deferred = {}
  /\ overrides = {} /\ everDone = {} /\ statusMoves = 0

PlanTickets == UNION {TicketsIn(p) : p \in PlanDrafts}

\* The schema of build-plan.yaml.
Layer == [tickets : SUBSET PlanTickets,
          status : {"not_started", "in_progress", "done", "blocked"}]
Plan == [rule : {"bones_first", "per_epic"}, layers : [EpicIds -> [LayerNames -> Layer]]]
ASSUME PlansAssumption == PlanDrafts \subseteq Plan

\* bound: one record of the operator's, a deferral or an override.
Unrecorded == deferred = {} /\ overrides = {}

LayersNext ==
  \/ \E p \in PlanDrafts : PlanFinalize(p)
  \/ BeginCycle \/ ReadTicket \/ AdvanceLayerStatus \/ MaterializeLayer \/ MaterializeReadyTickets
  \/ \E t \in PlanTickets :
       \/ Unrecorded /\ DeferTicket(t)
       \/ \E s \in {"open", "in_progress", "resolved", "failed"} : MoveTicket(t, s)
  \/ \E e \in EpicIds : Unrecorded /\ RecordUnblockOverride(e)

LayersSpec == LayersInit /\ [][LayersNext]_layerVars

LayersTypeOK ==
  /\ planFile = <<>> \/ planFile.rule \in {"bones_first", "per_epic"}
  /\ \A t \in DOMAIN ticketOf : ticketOf[t] \in {"open", "in_progress", "resolved", "failed"}
  /\ cycle.at \in {"idle", "refresh", "create"} /\ overrides \subseteq EpicIds
  /\ \A t \in deferred : Triage(t) \in {"close", "rematerialize", "leave_deferred"}

\* bones_first: while a cycle creates the tickets of a later layer, each
\* ticket of the earlier layers, of every epic of the plan it works from, has
\* been resolved at some time -- except that epics which touch low-risk
\* modules only may lag when mvp starts.  Agents move the tickets while the
\* cycle reads them, and planners finalize other plans.
BonesFirst ==
  cycle.at = "create" /\ cycle.layer # "bones" /\ cycle.plan.rule = "bones_first" =>
    \A e \in EpicIds, l \in LayerNames :
      \/ l = "final" \/ l = cycle.layer
      \/ cycle.layer = "mvp" /\ e \in LowEpics
      \/ cycle.plan.layers[e][l].tickets \subseteq everDone
=============================================================================
