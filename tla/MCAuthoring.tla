----------------------------- MODULE MCAuthoring -----------------------------
(* How a project comes to be: the commands that bootstrap it, the product     *)
(* owner's discovery, the architect's draft and risks, the planner's layers.  *)
(* The parts share no state: one of them, picked at the start, moves.         *)
EXTENDS Bootstrap, Discovery, RiskCascade, ArchDraft, BuildLayers

CONSTANT MaxEntries  \* bound: entries in all threads together

VARIABLE pick
suiteVars == <<bootVars, discoVars, riskVars, draftVars, layerVars, pick>>

OneSuite == <<"s1">>
TwoDependents == {<<>>, <<"u1", "u2", "u3">>}
SomeModule == CHOOSE m \in Modules : TRUE
TwoEntries == {[waived |-> Checklist \ {"owns"}, consumes |-> {}, riskLow |-> FALSE],
               [waived |-> Checklist, consumes |-> {SomeModule}, riskLow |-> FALSE]}
TwoBounds == {[allow |-> {}, forbid |-> {SomeModule}], [allow |-> {SomeModule}, forbid |-> {}]}
TwoEpics == <<"e1", "e2">>
LayerWith(ts) == [tickets |-> ts, status |-> "not_started"]
PlanWith(rule, b1, m1, b2, f2) ==
  [rule |-> rule,
   layers |-> [e \in {"e1", "e2"} |->
     IF e = "e1" THEN [bones |-> LayerWith(b1), mvp |-> LayerWith(m1), final |-> LayerWith({})]
                 ELSE [bones |-> LayerWith(b2), mvp |-> LayerWith({}), final |-> LayerWith(f2)]]]
TwoPlans == {PlanWith("bones_first", {"t1"}, {"t3"}, {"t4"}, {}),
             PlanWith("per_epic", {"t1"}, {"t3"}, {"t2"}, {"t4"})}

OneSuiteId == CHOOSE s \in SuiteIds : TRUE

\* Two ways to bound the threads of the bootstrap.  One looks at the scan and
\* the brief, with all the calls their agents may make; the other walks on to
\* the end, with few calls beyond those the walk needs.
Written == {t \in BootTickets : log'[t] # <<>>}
Entries == FoldSet(LAMBDA t, n : n + Len(log'[t]), 0, BootTickets)
AtTheBrief == Written \subseteq {"scan", "brief"} /\ Len(log'["scan"]) <= 3
WalkingOn == /\ Entries <= MaxEntries /\ Len(log'["scan"]) <= 2
             /\ \A t \in {"brief"} \cup {Levels[i] : i \in DOMAIN Levels} : Len(log'[t]) <= 3

SuiteInit ==
  /\ BootInit /\ DiscoInit /\ RiskInit /\ DraftInit /\ LayersInit
  /\ pick \in {"brief", "walk", "suites", "edits", "risk", "drafts", "deaths", "plans", "moves"}
  /\ pick \in {"brief", "walk"} \/ cmd = "init"
SuiteNext ==
  /\ UNCHANGED pick
  /\ \/ /\ BootNext
        /\ \/ pick = "brief" /\ AtTheBrief
           \/ pick = "walk" /\ WalkingOn
        /\ UNCHANGED <<discoVars, riskVars, draftVars, layerVars>>
     \/ /\ \/ pick = "suites" /\ DiscoNext /\ md' < MaxEdits
           \/ pick = "edits" /\ DiscoNext /\ OneSuiteId \notin DOMAIN suites'
        /\ UNCHANGED <<bootVars, riskVars, draftVars, layerVars>>
     \/ /\ pick = "risk" /\ RiskNext
        /\ UNCHANGED <<bootVars, discoVars, draftVars, layerVars>>
     \/ /\ \/ pick = "drafts" /\ DraftNext /\ UNCHANGED kills
           \/ pick = "deaths" /\ DraftNext /\ (\A m \in DOMAIN bounds' : bounds'[m].allow = {})
        /\ UNCHANGED <<bootVars, discoVars, riskVars, layerVars>>
     \/ /\ \/ pick = "plans" /\ LayersNext /\ statusMoves' < MaxStatusMoves
           \/ pick = "moves" /\ LayersNext /\ UNCHANGED <<deferred, overrides>>
        /\ UNCHANGED <<bootVars, discoVars, riskVars, draftVars>>
SuiteSpec == SuiteInit /\ [][SuiteNext]_suiteVars

\* Every part's variables keep their types.
AuthoringTypeOK == BootTypeOK /\ DiscoTypeOK /\ RiskTypeOK /\ DraftTypeOK /\ LayersTypeOK

\* What the next level is handed is complete, wherever a process was killed on
\* the way: a stamped project can be planned, an architect called by a handoff
\* finds the documents it names, and an architecture handed over by arch_finalize
\* has its rules (but for a second finalize killed over the rule files).
HandoversComplete == StampedIsPlannable /\ ArchitectInputs /\ HandoffIsEnforced
==============================================================================
