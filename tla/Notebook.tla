------------------------------ MODULE Notebook ------------------------------
(***************************************************************************)
(* What agents write down beside their work: proposals to change a ticket's  *)
(* specification and the section locks on it, checkpoints and the deferred   *)
(* items promoted to tickets of their own, decision records, and the project *)
(* specification that is made anew from the brief.                           *)
(*                                                                            *)
(* A field's content is the number of the proposal that wrote it.  Handlers   *)
(* run in one process and interleave where they await; the process may die.   *)
(***************************************************************************)
EXTENDS Naturals, Sequences, FiniteSets

CONSTANTS
  Authors,        \* the agents and people that call the tools
  SpecFields,     \* the fields the work type's schema allows
  LockedAfter,    \* field -> the phase whose accepted handoff locks it
  OwnerRouting,   \* field -> the assignment of its owner's role
  SelfApproval,   \* config.self_approval: "blocked", "warn", "allowed"
  Briefs,         \* what the brief may say: sets of [id, aliases, section]
  MaxProposals, MaxCheckpoints, MaxChildren, MaxRegenerations, MaxDeaths  \* bounds

ASSUME NotebookAssumption ==
  /\ {MaxProposals, MaxCheckpoints, MaxChildren, MaxRegenerations, MaxDeaths} \subseteq Nat
  /\ DOMAIN LockedAfter \subseteq SpecFields /\ "nobody" \notin Authors

VARIABLES
  spec,        \* the ticket's specification: [version, fields]
  proposals,   \* the proposals: [author, target, change, state, by]
  deal,        \* caller -> the call it has under way
  phasesDone,  \* the phases with an accepted handoff
  lockedAs,    \* field -> its content when its lock closed
  cps,         \* the checkpoints: [phase, items, historical]
  marking,     \* the checkpoints an accepted handoff still has to mark
  children,    \* the tickets made from deferred items
  decisions,   \* [posted, records]: thread entries and files under decisions/
  caps,        \* the project specification's capabilities
  everRoots,   \* the capabilities it ever had
  regens, deaths \* the bounds' counters

noteVars == <<spec, proposals, deal, phasesDone, lockedAs, cps, marking, children, decisions,
              caps, everRoots, regens, deaths>>

NoDeal == [at |-> "none", n |-> 0, i |-> 0, verdict |-> "none", locks |-> {}, items |-> <<>>, child |-> 0]
LockedFields == {f \in DOMAIN LockedAfter : LockedAfter[f] \in phasesDone}
Going(a, next) == deal' = [deal EXCEPT ![a] = next]
Done(a) == Going(a, NoDeal)

-----------------------------------------------------------------------------
(* The ticket's specification. *)

\* A feature ticket derived from a capability gets a specification; any other
\* has none, and a change of it is refused.
MaterializeSpec ==
  /\ spec.version = 0 /\ proposals = <<>> /\ spec' = [spec EXCEPT !.version = 1]
  /\ UNCHANGED <<proposals, deal, phasesDone, lockedAs, cps, marking, children, decisions, caps, everRoots, regens, deaths>>

\* propose_change: a field with no owner cannot be proposed for; a helper drafts
\* a note for an owner who has one.
OwnerOf(target) == IF target = "spec" THEN "human" ELSE OwnerRouting[target]
ProposeChange(a, target, change) ==
  /\ deal[a] = NoDeal /\ Len(proposals) < MaxProposals
  /\ IF target = "spec" THEN change # {} ELSE target \in DOMAIN OwnerRouting /\ change = {target}
  /\ proposals' = Append(proposals, [author |-> a, target |-> target, change |-> change, state |-> "pending", by |-> "nobody", note |-> FALSE])
  /\ IF OwnerOf(target) = "human_with_helper"
     THEN Going(a, [NoDeal EXCEPT !.at = "helper", !.n = Len(proposals) + 1])
     ELSE UNCHANGED deal
  /\ UNCHANGED <<spec, phasesDone, lockedAs, cps, marking, children, decisions, caps, everRoots, regens, deaths>>
\* A helper that is missing, late, fails or says nothing leaves no note.
HelperEnds(a, drafted) ==
  /\ deal[a].at = "helper" /\ Done(a)
  /\ proposals' = [proposals EXCEPT ![deal[a].n].note = drafted]
  /\ UNCHANGED <<spec, phasesDone, lockedAs, cps, marking, children, decisions, caps, everRoots, regens, deaths>>

\* resolve_proposal reads the proposal, which must be pending then.
MayResolve(a, p) ==
  proposals[p].state = "pending" /\ (proposals[p].author # a \/ SelfApproval # "blocked")
BeginResolve(a, p, verdict) ==
  /\ deal[a] = NoDeal /\ MayResolve(a, p)
  /\ Going(a, [NoDeal EXCEPT !.at = IF verdict = "accept" THEN "apply" ELSE "post",
                 !.n = p, !.verdict = verdict, !.locks = LockedFields])
  /\ UNCHANGED <<spec, proposals, phasesDone, lockedAs, cps, marking, children, decisions, caps, everRoots, regens, deaths>>

(* Mutant: the locks are those of the time the proposal was read. *)
LocksWhenRead(a) == deal[a].locks
\* The locks are read last, and nothing is awaited between that and the write.
LocksToRespect(a) == LockedFields
SavedSpec(change, n) ==
  [version |-> spec.version + 1, fields |-> [f \in SpecFields |-> IF f \in change THEN n ELSE spec.fields[f]]]
ApplySpecChange(a, valid) ==
  LET p == proposals[deal[a].n]
  IN  /\ deal[a].at = "apply"
      /\ IF p.change \cap LocksToRespect(a) # {} \/ spec.version = 0 \/ ~valid
         THEN Done(a) /\ UNCHANGED spec
         ELSE spec' = SavedSpec(p.change, deal[a].n) /\ Going(a, [deal[a] EXCEPT !.at = "post"])
      /\ UNCHANGED <<proposals, phasesDone, lockedAs, cps, marking, children, decisions, caps, everRoots, regens, deaths>>
StateAfter(verdict) ==
  CASE verdict = "accept" -> "accepted" [] verdict = "reject" -> "rejected" [] OTHER -> "refining"
PostVerdict(a) ==
  /\ deal[a].at = "post" /\ Done(a)
  /\ proposals' = [proposals EXCEPT ![deal[a].n].state = StateAfter(deal[a].verdict), ![deal[a].n].by = a]
  /\ UNCHANGED <<spec, phasesDone, lockedAs, cps, marking, children, decisions, caps, everRoots, regens, deaths>>

\* A handoff of the phase is accepted: its locks close, and its checkpoints are
\* marked historical one by one.
AcceptPhase(ph) ==
  /\ ph \notin phasesDone /\ phasesDone' = phasesDone \cup {ph}
  /\ lockedAs' = [f \in DOMAIN LockedAfter |-> IF LockedAfter[f] = ph THEN spec.fields[f] ELSE lockedAs[f]]
  /\ marking' = marking \cup {c \in DOMAIN cps : cps[c].phase = ph /\ ~cps[c].historical}
  /\ UNCHANGED <<spec, proposals, deal, cps, children, decisions, caps, everRoots, regens, deaths>>
MarkHistorical(c) ==
  /\ c \in marking /\ marking' = marking \ {c} /\ cps' = [cps EXCEPT ![c].historical = TRUE]
  /\ UNCHANGED <<spec, proposals, deal, phasesDone, lockedAs, children, decisions, caps, everRoots, regens, deaths>>

-----------------------------------------------------------------------------
(* Checkpoints and their deferred items. *)

OpenItem == [status |-> "open", child |-> 0]
PostCheckpoint(ph, n) ==
  /\ Len(cps) < MaxCheckpoints
  /\ cps' = Append(cps, [phase |-> ph, items |-> [i \in 1..n |-> OpenItem], historical |-> FALSE])
  /\ UNCHANGED <<spec, proposals, deal, phasesDone, lockedAs, marking, children, decisions, caps, everRoots, regens, deaths>>

\* promote_deferred: an item that has its ticket is left alone.  The ticket is
\* made, then the checkpoint's items are read, and all of them written back.
BeginPromote(a, c, i) ==
  /\ deal[a] = NoDeal /\ i \in DOMAIN cps[c].items /\ cps[c].items[i].child = 0
  /\ Going(a, [NoDeal EXCEPT !.at = "create", !.n = c, !.i = i])
  /\ UNCHANGED <<spec, proposals, phasesDone, lockedAs, cps, marking, children, decisions, caps, everRoots, regens, deaths>>
CreateChild(a) ==
  /\ deal[a].at = "create" /\ children < MaxChildren /\ children' = children + 1
  /\ Going(a, [deal[a] EXCEPT !.at = "items", !.child = children + 1])
  /\ UNCHANGED <<spec, proposals, phasesDone, lockedAs, cps, marking, decisions, caps, everRoots, regens, deaths>>
ReadItems(a) ==
  /\ deal[a].at = "items" /\ Going(a, [deal[a] EXCEPT !.at = "mark", !.items = cps[deal[a].n].items])
  /\ UNCHANGED <<spec, proposals, phasesDone, lockedAs, cps, marking, children, decisions, caps, everRoots, regens, deaths>>
MarkPromoted(a) ==
  /\ deal[a].at = "mark" /\ Done(a)
  /\ cps' = [cps EXCEPT ![deal[a].n].items =
               [deal[a].items EXCEPT ![deal[a].i] = [status |-> "promoted", child |-> deal[a].child]]]
  /\ UNCHANGED <<spec, proposals, phasesDone, lockedAs, marking, children, decisions, caps, everRoots, regens, deaths>>

\* thread_decide: the entry is posted; the number of the file is found and the
\* file written with nothing awaited between.
PostDecision(a) ==
  /\ deal[a] = NoDeal /\ decisions.posted < MaxCheckpoints
  /\ decisions' = [decisions EXCEPT !.posted = @ + 1]
  /\ Going(a, [NoDeal EXCEPT !.at = "record", !.n = decisions.posted + 1])
  /\ UNCHANGED <<spec, proposals, phasesDone, lockedAs, cps, marking, children, caps, everRoots, regens, deaths>>
NextDecisionSeq == Len(decisions.records) + 1
RecordDecision(a) ==
  /\ deal[a].at = "record" /\ Done(a)
  /\ decisions' = [decisions EXCEPT !.records =
       [s \in 1..NextDecisionSeq |-> IF s = NextDecisionSeq THEN deal[a].n ELSE decisions.records[s]]]
  /\ UNCHANGED <<spec, proposals, phasesDone, lockedAs, cps, marking, children, caps, everRoots, regens, deaths>>

-----------------------------------------------------------------------------
(* spec_regenerate *)

Names(c) == {c.id} \cup c.aliases
\* An existing capability is found by the id of the brief's, then by an alias.
MatchesOf(b) ==
  LET byId == {c \in caps : b.id \in Names(c)}
  IN  IF byId # {} THEN byId ELSE {c \in caps : b.aliases \cap Names(c) # {}}
StateOf(section) ==
  CASE section \in {"built", "planned_committed"} -> "planned"
    [] section = "planned_not_committed" -> "planned_uncommitted"
    [] OTHER -> section
MergeOne(b, old) ==
  [id |-> b.id, aliases |-> b.aliases, state |-> StateOf(b.section), root |-> old.root,
   since |-> IF StateOf(b.section) = old.state THEN old.since ELSE regens + 1]
NewCapability(b) ==
  [id |-> b.id, aliases |-> b.aliases, state |-> StateOf(b.section),
   root |-> [id |-> b.id, at |-> regens + 1], since |-> regens + 1]
\* What the brief no longer mentions is a blocking gap, and nothing is written.
RegenerateSpec(brief, match) ==
  /\ regens < MaxRegenerations /\ regens' = regens + 1
  /\ \A b \in brief : IF MatchesOf(b) = {} THEN match[b] = NewCapability(b)
                      ELSE match[b] \in {MergeOne(b, c) : c \in MatchesOf(b)}
  /\ LET merged == {match[b] : b \in brief}
         gaps == {c \in caps : \A b \in brief : c \notin MatchesOf(b) \/ match[b] # MergeOne(b, c)}
     IN  IF gaps # {} THEN UNCHANGED <<caps, everRoots>>
         ELSE caps' = merged /\ everRoots' = everRoots \cup {c.root : c \in merged}
  /\ UNCHANGED <<spec, proposals, deal, phasesDone, lockedAs, cps, marking, children, decisions, deaths>>

-----------------------------------------------------------------------------
DaemonKilled ==
  /\ deaths < MaxDeaths /\ deaths' = deaths + 1
  /\ deal' = [a \in Authors |-> NoDeal] /\ marking' = {}
  /\ UNCHANGED <<spec, proposals, phasesDone, lockedAs, cps, children, decisions, caps, everRoots, regens>>

SpecPhases == {LockedAfter[f] : f \in DOMAIN LockedAfter}
NotebookInit ==
  /\ spec = [version |-> 0, fields |-> [f \in SpecFields |-> 0]] /\ proposals = <<>>
  /\ deal = [a \in Authors |-> NoDeal] /\ phasesDone = {}
  /\ lockedAs = [f \in DOMAIN LockedAfter |-> 0] /\ cps = <<>> /\ marking = {} /\ children = 0
  /\ decisions = [posted |-> 0, records |-> <<>>] /\ caps = {} /\ everRoots = {} /\ regens = 0 /\ deaths = 0

\* Proposals, checkpoints and the brief share only the callers and the phases.
ProposalNext ==
  \/ MaterializeSpec \/ DaemonKilled \/ \E ph \in SpecPhases : AcceptPhase(ph)
  \/ \E a \in Authors :
       \/ \E target \in SpecFields \cup {"spec"}, change \in SUBSET SpecFields : ProposeChange(a, target, change)
       \/ \E b \in BOOLEAN : HelperEnds(a, b) \/ ApplySpecChange(a, b)
       \/ \E p \in DOMAIN proposals, verdict \in {"accept", "reject", "refine"} : BeginResolve(a, p, verdict)
       \/ PostVerdict(a)
CheckpointNext ==
  \/ DaemonKilled \/ \E ph \in SpecPhases : AcceptPhase(ph) \/ \E n \in 0..2 : PostCheckpoint(ph, n)
  \/ \E a \in Authors :
       \/ CreateChild(a) \/ ReadItems(a) \/ MarkPromoted(a) \/ PostDecision(a) \/ RecordDecision(a)
       \/ \E c \in DOMAIN cps, i \in 1..2 : BeginPromote(a, c, i)
  \/ \E c \in DOMAIN cps : MarkHistorical(c)
BriefNext ==
  \E brief \in Briefs : \E match \in [brief -> {NewCapability(b) : b \in brief}
                                                 \cup {MergeOne(b, c) : b \in brief, c \in caps}] :
    RegenerateSpec(brief, match)
NotebookNext == ProposalNext \/ CheckpointNext \/ BriefNext

NotebookSpec == NotebookInit /\ [][NotebookNext]_noteVars

NotebookTypeOK ==
  /\ spec.version \in Nat /\ \A f \in SpecFields : spec.fields[f] \in 0..Len(proposals)
  /\ marking \subseteq DOMAIN cps /\ children \in 0..MaxChildren
  /\ Len(decisions.records) <= decisions.posted

\* A section that an accepted handoff locked keeps its content, whatever
\* proposals were under way when the lock closed.
LockedSectionsFixed == \A f \in LockedFields : spec.fields[f] = lockedAs[f]
\* A capability that the project specification once had is never dropped: a
\* brief renames it or is refused.  A deferred item that counts as promoted has
\* its ticket, and nobody approved a proposal of his own where that is blocked.
NotesKept ==
  /\ everRoots \subseteq {c.root : c \in caps}
  /\ \A c \in DOMAIN cps : \A i \in DOMAIN cps[c].items :
       cps[c].items[i].status = "promoted" => cps[c].items[i].child \in 1..children
  /\ SelfApproval = "blocked" => \A p \in DOMAIN proposals : proposals[p].by # proposals[p].author
=============================================================================
