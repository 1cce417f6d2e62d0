------------------------------ MODULE ArchDraft ------------------------------
(***************************************************************************)
(* The architect's documents: architecture.yaml, one contracts.yaml and one *)
(* boundaries.yaml per module, the import rules compiled from the           *)
(* boundaries, and the models generated from data contracts.  The tools     *)
(* upsert one item per call; arch_finalize checks the whole, compiles the   *)
(* rules file by file and only then hands over.  sa_finalize is the one     *)
(* shot path that writes an architecture and one contracts file.            *)
(*                                                                          *)
(* A contracts file is the set of the sections that have an entry, a module *)
(* entry what its checklist waives and whose APIs it consumes.  Texts, ids  *)
(* within a section and intents are left out.  The process may die between  *)
(* two writes.                                                              *)
(***************************************************************************)
EXTENDS Naturals, FiniteSets

CONSTANTS
  Modules,     \* module ids
  DraftEntries,\* the module entries the architect may write
  DraftBounds, \* the boundaries it may write
  DraftSections,  \* the contract sections it fills
  ArchSections,   \* the sections of architecture.yaml, other than modules, it fills
  MaxKills     \* bound: how often the process dies

ASSUME DraftAssumption ==
  /\ MaxKills \in Nat
  /\ DraftSections \subseteq {"owns", "external_dependencies", "integration_ac",
                              "behavioral_contracts", "open_questions"}
  /\ ArchSections \subseteq {"data_stores", "shared_contracts", "policies", "open_questions"}

VARIABLES
  entries,    \* architecture.yaml: module -> its entry
  sections,   \* the other sections of architecture.yaml that have an item
  contracts,  \* contracts.yaml: module -> sections present
  bounds,     \* boundaries.yaml: module -> boundaries
  models,     \* the modules with a generated model file
  rules,      \* .jig/rules/semgrep/boundaries: module -> denied modules
  compiled,   \* what the current or last finalize compiled
  finStep,    \* where the finalize in progress is; "idle" when none
  handover,   \* the finalizes whose handoffs the architect's thread holds
  torn,       \* history: a finalize ended over the rule files since the handoff
  kills

draftVars == <<entries, sections, contracts, bounds, models, rules, compiled,
               finStep, handover, torn, kills>>

Sections == {"owns", "external_dependencies", "integration_ac", "behavioral_contracts",
             "data_contracts", "open_questions", "exposes"}
Entry == [waived : SUBSET Sections, consumes : SUBSET Modules, riskLow : BOOLEAN]
Boundary == [allow : SUBSET Modules, forbid : SUBSET Modules]
ASSUME EntriesAssumption == DraftEntries \subseteq Entry /\ DraftBounds \subseteq Boundary

Put(f, k, v) == [x \in DOMAIN f \cup {k} |-> IF x = k THEN v ELSE f[x]]
SectionsOf(m) == IF m \in DOMAIN contracts THEN contracts[m] ELSE {}

-----------------------------------------------------------------------------
(* Validators. *)

\* validate_module_checklist: what a module neither has nor waives.
Checklist == {"owns", "external_dependencies", "integration_ac", "behavioral_contracts"}
Missing(m) == Checklist \ (entries[m].waived \cup SectionsOf(m))

\* _validate_module_link: no contracts file for a module nobody declared.
Linked == DOMAIN contracts \subseteq DOMAIN entries

\* _validate_consumption_refs: a consumed API is exposed by its provider.
ConsumptionResolves ==
  \A m \in DOMAIN entries : \A p \in entries[m].consumes : "exposes" \in SectionsOf(p)

\* The schema of a boundaries file: nothing both allowed and forbidden, and
\* no module denied to itself.
BoundaryValid(m, b) == b.allow \cap b.forbid = {} /\ m \notin b.forbid

-----------------------------------------------------------------------------
(* Boundary rules. *)

\* Declared modules, and every module directory.
AllModuleIds == DOMAIN entries \cup DOMAIN contracts \cup DOMAIN bounds

KnownModules(m) == bounds[m].allow \cup bounds[m].forbid \subseteq AllModuleIds

\* An allow list denies every other module.
Denied(m) ==
  LET b == bounds[m]
  IN  (b.forbid \cup (IF b.allow = {} THEN {} ELSE AllModuleIds \ b.allow)) \ {m}

GenerateBoundaryRules == [m \in DOMAIN bounds |-> Denied(m)]

-----------------------------------------------------------------------------
(* The tools. *)

\* No finalize is under way: it yields to no other call once it compiles.
DraftCall == finStep = "idle" /\ UNCHANGED <<rules, compiled, finStep, handover, torn, kills>>

ArchSetModule(m, e) ==
  /\ entries' = Put(entries, m, e)
  /\ UNCHANGED <<sections, contracts, bounds, models>> /\ DraftCall

\* Data stores, shared contracts, cross-cutting policies and open questions.
ArchSetSection(s) ==
  /\ sections' = sections \cup {s}
  /\ UNCHANGED <<entries, contracts, bounds, models>> /\ DraftCall

ArchSetCascadeRiskLow(m, low) ==
  /\ m \in DOMAIN entries
  /\ entries' = [entries EXCEPT ![m].riskLow = low]
  /\ UNCHANGED <<sections, contracts, bounds, models>> /\ DraftCall

\* module_set_*: the contracts file is made on the first call.  No tool
\* writes an exposed API.
ModuleSet(m, s) ==
  /\ contracts' = Put(contracts, m, SectionsOf(m) \cup {s})
  /\ UNCHANGED <<entries, sections, bounds, models>> /\ DraftCall

\* A data contract with fields is rendered; one with a schema_ref is not.
ModuleSetDataContract(m, fields) ==
  /\ contracts' = Put(contracts, m, SectionsOf(m) \cup {"data_contracts"})
  /\ models' = IF fields THEN models \cup {m} ELSE models
  /\ UNCHANGED <<entries, sections, bounds>> /\ DraftCall

SaWriteBoundaries(m, b) ==
  /\ BoundaryValid(m, b)
  /\ bounds' = Put(bounds, m, b)
  /\ UNCHANGED <<entries, sections, contracts, models>> /\ DraftCall

\* The bones path: one module, its minimum, both files replaced.
SaFinalize(m, e, given) ==
  /\ finStep = "idle"
  /\ {"owns", "integration_ac"} \subseteq given
  /\ entries' = [x \in {m} |-> e] /\ sections' = {"data_stores"}
  /\ contracts' = Put(contracts, m, given)
  /\ finStep' = "bones"
  /\ UNCHANGED <<bounds, models, rules, compiled, handover, torn, kills>>

-----------------------------------------------------------------------------
(* arch_finalize. *)

\* Everything is validated and compiled before the rule directory is touched.
ArchFinalizeChecks ==
  /\ finStep = "idle"
  /\ DOMAIN entries # {} /\ Linked /\ ConsumptionResolves
  /\ \A m \in DOMAIN entries : Missing(m) = {}
  /\ \A m \in DOMAIN bounds : KnownModules(m)
  /\ compiled' = GenerateBoundaryRules
  /\ finStep' = "clear"
  /\ UNCHANGED <<entries, sections, contracts, bounds, models, rules, handover, torn, kills>>

ClearRules ==
  /\ finStep = "clear"
  /\ IF DOMAIN rules = {} THEN finStep' = "write" /\ UNCHANGED rules
     ELSE \E m \in DOMAIN rules :
            rules' = [x \in DOMAIN rules \ {m} |-> rules[x]] /\ UNCHANGED finStep
  /\ UNCHANGED <<entries, sections, contracts, bounds, models, compiled, handover, torn, kills>>

(* Mutant of RulesWritten: the handoff does not wait for the rule files. *)
RulesUnawaited == TRUE
\* Every compiled file is on disk.
RulesWritten == DOMAIN rules = DOMAIN compiled
WriteRule ==
  /\ finStep = "write" /\ \E m \in DOMAIN compiled \ DOMAIN rules :
       rules' = Put(rules, m, compiled[m])
  /\ UNCHANGED <<entries, sections, contracts, bounds, models, compiled, finStep,
                 handover, torn, kills>>

PostHandoff ==
  /\ finStep' = "idle"
  /\ \/ finStep = "write" /\ RulesWritten /\ handover' = handover \cup {"arch"} /\ torn' = FALSE
     \/ finStep = "bones" /\ handover' = handover \cup {"bones"} /\ UNCHANGED torn
  /\ UNCHANGED <<entries, sections, contracts, bounds, models, rules, compiled, kills>>

\* The process dies, or a write of the call fails.
DraftDies ==
  /\ finStep # "idle" /\ kills < MaxKills
  /\ finStep' = "idle" /\ kills' = kills + 1
  /\ torn' = (torn \/ (finStep # "bones" /\ "arch" \in handover))
  /\ UNCHANGED <<entries, sections, contracts, bounds, models, rules, compiled, handover>>

-----------------------------------------------------------------------------
DraftInit ==
  /\ entries = <<>> /\ sections = {} /\ contracts = <<>> /\ bounds = <<>> /\ models = {}
  /\ rules = <<>> /\ compiled = <<>> /\ finStep = "idle" /\ handover = {}
  /\ torn = FALSE /\ kills = 0

DraftNext ==
  \/ \E m \in Modules :
       \/ \E e \in DraftEntries : ArchSetModule(m, e)
       \/ \E low \in BOOLEAN : ArchSetCascadeRiskLow(m, low)
       \/ \E s \in DraftSections : ModuleSet(m, s)
       \/ \E f \in BOOLEAN : ModuleSetDataContract(m, f)
       \/ \E b \in DraftBounds : SaWriteBoundaries(m, b)
       \/ \E e \in DraftEntries : SaFinalize(m, e, {"owns", "integration_ac", "exposes"})
  \/ \E s \in ArchSections : ArchSetSection(s)
  \/ ArchFinalizeChecks \/ ClearRules \/ WriteRule \/ PostHandoff \/ DraftDies

DraftSpec == DraftInit /\ [][DraftNext]_draftVars

DraftTypeOK ==
  /\ \A m \in DOMAIN entries : m \in Modules /\ entries[m] \in Entry
  /\ \A m \in DOMAIN contracts : m \in Modules /\ contracts[m] \subseteq Sections
  /\ \A m \in DOMAIN bounds : m \in Modules /\ bounds[m] \in Boundary
  /\ models \subseteq DOMAIN contracts /\ kills \in 0..MaxKills
  /\ finStep \in {"idle", "clear", "write", "bones"} /\ handover \subseteq {"arch", "bones"}

\* While the architect's thread holds the handoff of arch_finalize, and no
\* finalize is at work on the rule files, the import rules the checks enforce
\* are the complete set the last finalize compiled: a process that dies while
\* the files are cleared and written leaves no handoff behind, and a second
\* finalize that runs to its end replaces the set whole.  What the code does not
\* prevent is excepted: a second finalize killed over the files leaves the first
\* one's handoff with fewer rules, until a finalize ends well again.  (The bones
\* path hands over without rules.)
HandoffIsEnforced ==
  "arch" \in handover /\ finStep \notin {"clear", "write"} /\ ~torn => rules = compiled
=============================================================================
