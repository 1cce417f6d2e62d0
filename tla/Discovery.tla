------------------------------ MODULE Discovery ------------------------------
(***************************************************************************)
(* The product owner's four levels: L0 names the project, L1 walks the      *)
(* journeys and stages personas, journeys and the capability roster in      *)
(* sidecar files before one finalize commits them, L2 divides the roster    *)
(* into suites, L3 writes one spec per suite, and the architect reads what  *)
(* they left.  One agent runs at a time, for the first level whose thread   *)
(* lacks its handoff.  A finalize validates everything and then writes one  *)
(* file after the other; the process may die between two writes, and the    *)
(* agent may call a finalize again after it succeeded.                      *)
(*                                                                          *)
(* A document is the ids it holds and the references between them; texts    *)
(* and their rendering to markdown are left out.  A digest is the version   *)
(* number of discovery.md.                                                  *)
(***************************************************************************)
EXTENDS Naturals, Sequences, FiniteSets, Functions

CONSTANTS
  Personas, Journeys, Caps, SuiteIds,
  MaxEdits,      \* bound: versions of discovery.md
  MaxDeaths      \* bound: how often the process dies

ASSUME DiscoveryAssumption ==
  /\ MaxEdits \in Nat /\ MaxDeaths \in Nat
  /\ SuiteIds \cap {"l0", "l1", "l2", "sa", "none"} = {}

VARIABLES
  staged,      \* the sidecar files of L1
  disco,       \* discovery.structured.yaml; <<>> when absent
  md,          \* discovery.md: its version, 0 when absent
  walk,        \* discovery.state.yaml
  suites,      \* suites.yaml: suite -> its capabilities
  specs,       \* the suites whose structured spec is on disk
  handed,      \* the levels and suites whose thread holds the handoff
  agent,       \* the level an agent is at work on
  fin,         \* a finalize in progress: the writes it has still to make
  settled,     \* history: the mode of a resume that nothing followed
  deaths

discoVars == <<staged, disco, md, walk, suites, specs, handed, agent, fin, settled, deaths>>

None == "none"
Partial(A, B) == UNION {[X -> B] : X \in SUBSET A}

NoDoc == [personas |-> {}, journeys |-> <<>>, roster |-> <<>>]
NoWalk == [saved |-> FALSE, current |-> None, candidates |-> {}, pending |-> {}, digest |-> 0]

-----------------------------------------------------------------------------
(* Validators. *)

JourneysOf(d) == DOMAIN d.journeys
CapsOf(d) == DOMAIN d.roster

\* The schema's cross references: roster and journeys name what exists.
RefsResolve(d) ==
  /\ \A j \in JourneysOf(d) : d.journeys[j].persona \in d.personas
                              /\ d.journeys[j].caps \subseteq CapsOf(d)
  /\ \A c \in CapsOf(d) : d.roster[c] \subseteq JourneysOf(d)

\* _validate_doc_invariants: no journey without a capability, no persona
\* without a journey.
DocValid(d) ==
  /\ RefsResolve(d)
  /\ \A j \in JourneysOf(d) : d.journeys[j].caps # {}
  /\ \A p \in d.personas : \E j \in JourneysOf(d) : d.journeys[j].persona = p

\* Every capability of the roster is in one suite and no other is in any.
Covers(index, roster) ==
  /\ UNION Range(index) = roster
  /\ \A s, t \in DOMAIN index : s # t => index[s] \cap index[t] = {}

Allowed(s, caps) == caps \subseteq suites[s]

\* next_incomplete_level; "sa" when every level is handed over.
NextOpen ==
  CASE "l0" \notin handed -> {"l0"}
    [] "l0" \in handed /\ "l1" \notin handed -> {"l1"}
    [] {"l0", "l1"} \subseteq handed /\ "l2" \notin handed -> {"l2"}
    [] OTHER -> IF DOMAIN suites \subseteq handed THEN {"sa"}
                ELSE DOMAIN suites \ handed

-----------------------------------------------------------------------------
(* Spawns, crashes, the operator's editor. *)

SpawnLevel ==
  /\ agent = None
  /\ \E level \in NextOpen \ {"sa"} : agent' = level
  /\ UNCHANGED <<staged, disco, md, walk, suites, specs, handed, fin, settled, deaths>>

LevelEnds ==
  /\ agent # None /\ fin = <<>>
  /\ agent' = None
  /\ UNCHANGED <<staged, disco, md, walk, suites, specs, handed, fin, settled, deaths>>

Dies ==
  /\ agent # None /\ deaths < MaxDeaths
  /\ agent' = None /\ fin' = <<>> /\ deaths' = deaths + 1
  /\ UNCHANGED <<staged, disco, md, walk, suites, specs, handed, settled>>

HandEdit ==
  /\ agent = None /\ md \in 1..(MaxEdits - 1)
  /\ md' = md + 1 /\ settled' = None
  /\ UNCHANGED <<staged, disco, walk, suites, specs, handed, agent, fin, deaths>>

At(level) == agent = level /\ fin = <<>>
SavesWalk(w) == walk' = [w EXCEPT !.saved = TRUE] /\ settled' = None

-----------------------------------------------------------------------------
(* L1: staging and the walk's state. *)

AddPersona(p) ==
  /\ At("l1")
  /\ staged' = [staged EXCEPT !.personas = @ \cup {p}]
  /\ UNCHANGED <<disco, md, walk, suites, specs, handed, agent, fin, settled, deaths>>

\* A journey with the same id is replaced.
AddJourney(j, p, cs) ==
  /\ At("l1")
  /\ staged' = [staged EXCEPT !.journeys =
                  [i \in DOMAIN @ \cup {j} |-> IF i = j THEN [persona |-> p, caps |-> cs]
                                               ELSE @[i]]]
  /\ UNCHANGED <<disco, md, walk, suites, specs, handed, agent, fin, settled, deaths>>

\* A capability with the same id gains the journeys.
AddCapability(c, js) ==
  /\ At("l1")
  /\ staged' = [staged EXCEPT !.roster =
                  [i \in DOMAIN @ \cup {c} |->
                     (IF i \in DOMAIN @ THEN @[i] ELSE {}) \cup (IF i = c THEN js ELSE {})]]
  /\ UNCHANGED <<disco, md, walk, suites, specs, handed, agent, fin, settled, deaths>>

SetPhase(j) ==
  /\ At("l1") /\ SavesWalk([walk EXCEPT !.current = j])
  /\ UNCHANGED <<staged, disco, md, suites, specs, handed, agent, fin, deaths>>

SetPartialWalk(js) ==
  /\ At("l1") /\ SavesWalk([walk EXCEPT !.candidates = js])
  /\ UNCHANGED <<staged, disco, md, suites, specs, handed, agent, fin, deaths>>

\* Stashing what is stashed already writes nothing.
StashPending(c, j) ==
  /\ At("l1") /\ <<c, j>> \notin walk.pending
  /\ SavesWalk([walk EXCEPT !.pending = @ \cup {<<c, j>>}])
  /\ UNCHANGED <<staged, disco, md, suites, specs, handed, agent, fin, deaths>>

ClearPending(j) ==
  /\ At("l1") /\ SavesWalk([walk EXCEPT !.pending = {x \in @ : x[2] # j}])
  /\ UNCHANGED <<staged, disco, md, suites, specs, handed, agent, fin, deaths>>

-----------------------------------------------------------------------------
(* L1: resuming a walk after the session ended. *)

Known == IF disco = <<>> THEN Journeys ELSE JourneysOf(disco)
StaleJourney(w) == disco # <<>> /\ w.current # None /\ w.current \notin Known
ConcurrentEdit(w) == w.digest # 0 /\ md # 0 /\ w.digest # md
OrphanedWalk(w) == disco # <<>> /\ ~(w.candidates \subseteq Known)

Divergences(w) == (IF StaleJourney(w) THEN {"reanchor"} ELSE {})
                    \cup (IF ConcurrentEdit(w) THEN {"prefer-doc"} ELSE {})
                    \cup (IF OrphanedWalk(w) THEN {"abandon-state"} ELSE {})

(* Mutant of Reconciled: orphaned candidates survive a reanchor. *)
ReconciledKeepsWalk(w, mode) ==
  IF mode = "abandon-state" THEN [NoWalk EXCEPT !.digest = md]
  ELSE [w EXCEPT
    !.current = IF StaleJourney(w) /\ mode # "prefer-state" THEN None ELSE @,
    !.candidates = IF OrphanedWalk(w) /\ mode \notin {"prefer-state", "reanchor"}
                   THEN @ \cap Known ELSE @,
    !.digest = md]
\* _apply_reconcile.  Each divergence suggests a mode of its own, and "auto"
\* takes each one's: all of them drop what the document does not know.
Reconciled(w, mode) ==
  IF mode = "abandon-state" THEN [NoWalk EXCEPT !.digest = md]
  ELSE [w EXCEPT
    !.current = IF StaleJourney(w) /\ mode # "prefer-state" THEN None ELSE @,
    !.candidates = IF OrphanedWalk(w) /\ mode # "prefer-state" THEN @ \cap Known ELSE @,
    !.digest = md]

Resume(mode) ==
  /\ At("l1") /\ walk.saved /\ Divergences(walk) # {} /\ mode # "prompt"
  /\ walk' = [Reconciled(walk, mode) EXCEPT !.saved = TRUE]
  /\ settled' = mode
  /\ UNCHANGED <<staged, disco, md, suites, specs, handed, agent, fin, deaths>>

-----------------------------------------------------------------------------
(* Finalizing: validate, then write file after file, the handoff last. *)

Writes(level, doc, steps) == fin' = [level |-> level, doc |-> doc, todo |-> steps]

L0Finalize ==
  /\ At("l0") /\ Writes("l0", NoDoc, <<"handoff">>)
  /\ UNCHANGED <<staged, disco, md, walk, suites, specs, handed, agent, settled, deaths>>

\* discovery_finalize takes the staged parts, or the ones given with the call.
DiscoveryFinalize(doc) ==
  /\ At("l1") /\ DocValid(doc) /\ md < MaxEdits
  /\ Writes("l1", doc, <<"md", "doc", "state", "drain", "handoff">>)
  /\ UNCHANGED <<staged, disco, md, walk, suites, specs, handed, agent, settled, deaths>>

L2Finalize(index) ==
  /\ At("l2") /\ disco # <<>>
  /\ DOMAIN index # {} /\ Covers(index, CapsOf(disco))
  /\ Writes("l2", index, <<"index", "handoff">>)
  /\ UNCHANGED <<staged, disco, md, walk, suites, specs, handed, agent, settled, deaths>>

(* Mutant of SuiteWrites: the handoff is posted before the spec. *)
HandoffFirst == <<"handoff", "spec">>
SuiteWrites == <<"spec", "handoff">>
L3Finalize(s, caps) ==
  /\ At(s) /\ s \in DOMAIN suites /\ Allowed(s, caps)
  /\ Writes(s, caps, SuiteWrites)
  /\ UNCHANGED <<staged, disco, md, walk, suites, specs, handed, agent, settled, deaths>>

\* The next write of the finalize in progress.
Write ==
  /\ fin # <<>>
  /\ LET w == Head(fin.todo)
     IN  /\ md' = IF w = "md" THEN md + 1 ELSE md
         /\ disco' = IF w = "doc" THEN fin.doc ELSE disco
         /\ walk' = IF w = "state" THEN [NoWalk EXCEPT !.saved = TRUE, !.digest = md]
                                   ELSE walk
         /\ staged' = IF w = "drain" THEN NoDoc ELSE staged
         /\ suites' = IF w = "index" THEN fin.doc ELSE suites
         /\ specs' = IF w = "spec" THEN specs \cup {fin.level} ELSE specs
         /\ handed' = IF w = "handoff" THEN handed \cup {fin.level} ELSE handed
         /\ settled' = IF w = "handoff" THEN settled ELSE None
  /\ fin' = IF Len(fin.todo) = 1 THEN <<>> ELSE [fin EXCEPT !.todo = Tail(@)]
  /\ UNCHANGED <<agent, deaths>>

-----------------------------------------------------------------------------
DiscoInit ==
  /\ staged = NoDoc /\ disco = <<>> /\ md = 0 /\ walk = NoWalk
  /\ suites = <<>> /\ specs = {} /\ handed = {} /\ agent = None
  /\ fin = <<>> /\ settled = None /\ deaths = 0

Modes == {"auto", "prefer-doc", "prefer-state", "reanchor", "abandon-state"}

\* The parts of a document an agent may give with the call.
GivenDocs == {[personas |-> Personas,
               journeys |-> [j \in js |-> [persona |-> p, caps |-> Caps]],
               roster |-> [c \in Caps |-> js]] : js \in SUBSET Journeys, p \in Personas}

DiscoNext ==
  \/ SpawnLevel \/ LevelEnds \/ Dies \/ HandEdit \/ L0Finalize \/ Write
  \/ \E p \in Personas : AddPersona(p)
  \/ \E j \in Journeys, p \in Personas, cs \in SUBSET Caps : AddJourney(j, p, cs)
  \/ \E c \in Caps, js \in SUBSET Journeys : AddCapability(c, js)
  \/ \E j \in Journeys \cup {None} : SetPhase(j)
  \/ \E js \in SUBSET Journeys : SetPartialWalk(js)
  \/ \E j \in Journeys : ClearPending(j) \/ \E c \in Caps : StashPending(c, j)
  \/ \E mode \in Modes : Resume(mode)
  \/ \E doc \in GivenDocs \cup {staged} : DiscoveryFinalize(doc)
  \/ \E index \in Partial(SuiteIds, SUBSET Caps) : L2Finalize(index)
  \/ \E s \in SuiteIds, caps \in SUBSET Caps : L3Finalize(s, caps)

DiscoSpec == DiscoInit /\ [][DiscoNext]_discoVars

DiscoTypeOK ==
  /\ md \in 0..MaxEdits /\ deaths \in 0..MaxDeaths
  /\ handed \subseteq {"l0", "l1", "l2"} \cup SuiteIds /\ specs \subseteq SuiteIds
  /\ suites \in Partial(SuiteIds, SUBSET Caps)
  /\ walk.current \in Journeys \cup {None} /\ walk.digest \in 0..MaxEdits

\* When no level is open any more, what the architect's preflight asks for is
\* on disk: the discovery, the index, a spec for each suite it names, and the
\* suites divide the discovery's roster among themselves.  No crash between a
\* finalize's writes and no second finalize may leave it otherwise.
ArchitectInputs ==
  NextOpen = {"sa"} => /\ disco # <<>> /\ DocValid(disco)
                       /\ DOMAIN suites # {} /\ DOMAIN suites \subseteq specs
                       /\ Covers(suites, CapsOf(disco))

\* A resume that lets the document win leaves nothing to resolve: the same
\* check, made again at once, finds no divergence.
ReconcileSettles == settled \in Modes \ {"prefer-state"} => Divergences(walk) = {}
=============================================================================
