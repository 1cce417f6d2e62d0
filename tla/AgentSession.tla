---------------------------- MODULE AgentSession ----------------------------
(***************************************************************************)
(* One agent from spawn to end (run_agent): its prompt, the rules compiled   *)
(* from its role's capabilities, the tools its MCP server offers, its own    *)
(* configuration directory, its bus subscription, the stream that feeds it   *)
(* messages until the ticket stops, and the cleaning up on every way out.    *)
(*                                                                           *)
(* Several sessions run at once; tool calls of one session run in tasks of   *)
(* their own, which do not inherit its context.  What a tool does is modelled*)
(* in the other modules: here a call is known by its name, the ticket it     *)
(* names and the context its writes are stamped with.  Prompt text, model    *)
(* output and the events for the screen are left out.                        *)
(***************************************************************************)
EXTENDS Naturals, Sequences, FiniteSets

CONSTANTS
  Spawns,       \* the runs of agents
  AgentRoles,   \* role -> [allowed, strict, cross, caps, phaseCaps, judges, installs,
                \*          required, reads, exclude]
  AgentTickets,
  HasCheckpoints, HasPackageManager, \* what the project has
  ToolsTried,   \* the tools agents try in this instance
  PathsTried,   \* the paths reviewers ask for
  Links,        \* path -> where a symbolic link leads
  MaxToolCalls  \* bound: tool calls altogether

ASSUME SessionAssumption == MaxToolCalls \in Nat /\ {HasCheckpoints, HasPackageManager} \subseteq BOOLEAN

VARIABLES
  ses,          \* spawn -> the run: step, role, ticket, tools, policy, done, result
  subs,         \* the spawns subscribed to their ticket's topic
  cfgDirs,      \* the per-spawn configuration directories on disk
  beating,      \* the spawns whose heartbeat task runs
  toolCall,     \* spawn -> the tool call in progress
  tstatus,      \* ticket -> status
  inbox,        \* spawn -> a message is queued: "no", "other", "terminal"
  stamps,       \* history: what calls wrote: [by, to, stamp]
  madeCalls

sesVars == <<ses, subs, cfgDirs, beating, toolCall, tstatus, inbox, stamps, madeCalls>>

NoSession == [at |-> "off", role |-> "none", ticket |-> "none", tools |-> {},
              hooks |-> {}, done |-> FALSE, result |-> "none"]
NoToolCall == [tool |-> "none"]
Terminal3 == {"resolved", "blocked", "needs_info"}

-----------------------------------------------------------------------------
(* The tools create_agent_mcp_server defines, in its order. *)

TicketTools == {"create_ticket", "read_ticket", "update_ticket", "comment_on_ticket"}
QuestionTools == {"ask_question", "thread_ask", "thread_answer", "thread_resolve_question",
                  "thread_object", "thread_resolve_objection", "thread_accept_resolution",
                  "thread_waive", "thread_waive_check"}
HandoffTools == {"thread_decide", "thread_note", "thread_escalate", "thread_uncertain",
                 "thread_handoff", "thread_accept_handoff", "thread_reject_handoff"}
WorkTools == {"list_tickets", "read_comments", "commit_progress", "record_learning",
              "request_context"}
CheckpointTools == {"checkpoint_milestone", "checkpoint_decision", "checkpoint_deferred",
                    "checkpoint_promote_deferred"}
BriefTools == {"brief_list_sections", "brief_get_section", "brief_set_section",
               "po_finish_brief", "onboard_finish_scan", "l0_finalize"}
DiscoveryTools == {"discovery_set_intro", "discovery_add_persona", "discovery_set_phase",
                   "discovery_set_next_question", "discovery_add_journey"}
CapabilityTools == {"discovery_add_capability", "discovery_stash_pending_capability",
                    "discovery_clear_pending", "discovery_set_playback",
                    "discovery_load_state", "discovery_finalize"}
OntologyTools == {"ontology_stash_term", "ontology_add_term", "ontology_get_terms",
                  "ontology_lookup", "ontology_edit_term"}
SuiteTools == {"ontology_remove_term", "ontology_find_references", "l2_finalize",
               "l3_finalize", "add_tradeoff", "list_tradeoffs"}
GraphTools == {"graph_get_impact", "graph_neighbors", "graph_consumers_of",
               "graph_tracers_for", "graph_changed_interfaces"}
ArchTools == {"sa_finalize", "arch_set_module", "arch_set_data_store",
              "arch_set_shared_contract", "arch_set_cross_cutting_policy",
              "arch_set_open_question"}
SpikeTools == {"arch_propose_spike", "arch_complete_spike", "arch_reject_cascade",
               "arch_stage_cascade", "arch_approve_cascade_stage"}
ModuleTools == {"arch_set_cascade_risk_low", "arch_set_risk", "module_set_owned_collection",
                "module_set_external_dependency", "module_set_integration_ac",
                "module_set_behavioral_contract"}
BoundaryTools == {"module_set_data_contract", "module_set_open_question",
                  "sa_write_boundaries", "arch_regenerate_pydantic_models", "arch_finalize"}
VisualTools == {"vd_set_wireframe", "vd_set_design_token", "vd_set_component",
                "wireframe_lint", "wireframe_get_notes", "wireframe_set_notes"}
PlanTools == {"vd_import_claude_design", "vd_finalize", "dev_derive_manifest",
              "plan_finalize", "quartermaster_briefing"}
SpecTools == {"record_feedback", "spec_publish", "spec_report_gaps", "spec_get_field",
              "spec_list_fields", "spec_list_capabilities", "spec_get_capability"}
SpecReadTools == {"spec_get_behavior", "spec_list_non_goals", "spec_get_non_goal",
                  "spec_resolve_uri", "spec_load_existing", "spec_generate_from_brief"}
ScaffoldTools == {"arch_get_field", "arch_list_fields", "arch_set_field",
                  "arch_list_templates", "pm_propose_profile", "sa_propose_scaffold"}
ReviewTools == {"recent_events", "reviewer_read_file"}
DiffTools == {"reviewer_get_diff", "reviewer_post_comment"}
FindingTools == {"mark_finding_addressed", "mark_finding_resolved"}
CanonTools == {"log_audit_entry", "create_canonicalization_issue"}

\* Offered to every agent, strict ones apart.
BaseTools == TicketTools \cup QuestionTools \cup HandoffTools \cup WorkTools
\* Defined for a role that names them.
NamedTools == BriefTools \cup DiscoveryTools \cup CapabilityTools \cup OntologyTools
  \cup SuiteTools \cup GraphTools \cup ArchTools \cup SpikeTools \cup ModuleTools
  \cup BoundaryTools \cup VisualTools \cup PlanTools \cup SpecTools \cup SpecReadTools
  \cup ScaffoldTools \cup ReviewTools \cup DiffTools \cup FindingTools \cup CanonTools

(* Mutant of OfferedTools: whatever the role names is offered. *)
OfferedAsNamed(role) == BaseTools \cup AgentRoles[role].allowed
\* judges: is this the spawn that adjudicates escalated findings?
OfferedTools(role) ==
  LET cfg == AgentRoles[role]
      all == BaseTools \cup (cfg.allowed \cap NamedTools)
             \cup (IF HasCheckpoints THEN CheckpointTools ELSE {})
             \cup (IF HasPackageManager /\ cfg.installs THEN {"add_dependency"} ELSE {})
             \cup (IF cfg.judges THEN {"sa_adjudicate_finding"} ELSE {})
  IN  IF cfg.strict THEN all \cap cfg.allowed ELSE all

-----------------------------------------------------------------------------
(* What an agent may touch. *)

\* A glob against a path, both as sequences of names: "**" stands for any
\* number of names, "*" for one.
GlobMatch(path, pattern) ==
  LET m[i \in 0..Len(path), j \in 0..Len(pattern)] ==
        IF j = Len(pattern) THEN i = Len(path)
        ELSE IF pattern[j + 1] = "**" THEN \E k \in i..Len(path) : m[k, j + 1]
        ELSE i < Len(path) /\ pattern[j + 1] \in {"*", path[i + 1]} /\ m[i + 1, j + 1]
  IN  m[0, 0]

\* A relative path without dots that some pattern includes and none excludes.
PathInScope(path, reads, exclude) ==
  /\ path # <<>> /\ \A i \in DOMAIN path : path[i] \notin {"/", ".", ".."}
  /\ reads = {} \/ \E g \in reads : GlobMatch(path, g)
  /\ ~\E g \in exclude : GlobMatch(path, g)

\* reviewer_read_file: the path is in scope, and so is the file behind it.
MayRead(role, path) ==
  LET cfg == AgentRoles[role]
      target == IF path \in DOMAIN Links THEN Links[path] ELSE path
  IN  /\ PathInScope(path, cfg.reads, cfg.exclude)
      /\ PathInScope(target, cfg.reads, cfg.exclude)

\* merge_declarations and compile: every list is united.
Merged(a, b) == [k \in DOMAIN a |-> a[k] \cup b[k]]
\* _build_claude_settings: a hook where there is something to enforce.
HooksFor(caps) ==
  (IF caps.deny # {} THEN {"check-bash"} ELSE {})
  \cup (IF caps.writable \cup caps.denied # {} THEN {"check-write"} ELSE {})
  \cup (IF caps.readable \cup caps.denied # {} THEN {"check-path"} ELSE {})

-----------------------------------------------------------------------------
(* Setting up. *)

At(s, step) == ses[s].at = step
Moves(s, step) == ses' = [ses EXCEPT ![s].at = step]

StartSession(s, role, t) ==
  /\ At(s, "off")
  /\ ses' = [ses EXCEPT ![s] = [NoSession EXCEPT !.at = "prompt", !.role = role, !.ticket = t]]
  /\ tstatus[t] = "in_progress"
  /\ UNCHANGED <<subs, cfgDirs, beating, toolCall, tstatus, inbox, stamps, madeCalls>>

\* What a context URI <<scheme, body>> resolves to, given what there is.  The
\* project's specification always resolves: to a remark when it is missing.
TicketContext(body, has) ==
  CASE body = "design" -> has \cap {"decision", "design_file"} # {}
    [] body = "plan" -> has \cap {"plan_decision", "plan_file"} # {}
    [] body = "thread" -> has \cap {"decision", "plan_decision", "entry"} # {}
    [] body \in {"description", "spec"} -> body \in has
    [] OTHER -> FALSE
ProjectContext(body, has) == body = "spec" \/ "file" \in has
FileContext(has) == "file" \in has
ResolveOne(uri, has) ==
  CASE uri[1] \in {"ticket", "issue"} -> TicketContext(uri[2], has)
    [] uri[1] = "project" -> ProjectContext(uri[2], has)
    [] uri[1] \in {"role", "decision", "repo"} -> FileContext(has)
    [] OTHER -> FALSE

\* Required context that does not resolve raises; optional context is skipped.
ResolveContextUris(uris, has) == \A u \in uris : ResolveOne(u, has)
BuildAgentPrompt(s, has) ==
  /\ At(s, "prompt")
  /\ Moves(s, IF ResolveContextUris(AgentRoles[ses[s].role].required, has) THEN "policy" ELSE "out")
  /\ UNCHANGED <<subs, cfgDirs, beating, toolCall, tstatus, inbox, stamps, madeCalls>>

\* No sandbox, or a file system that refuses the rules: the run goes on
\* without hooks.
MaterializePolicy(s, written) ==
  /\ At(s, "policy")
  /\ LET cfg == AgentRoles[ses[s].role]
     IN ses' = [ses EXCEPT ![s].at = "server",
          ![s].hooks = IF written THEN HooksFor(Merged(cfg.caps, cfg.phaseCaps)) ELSE {}]
  /\ UNCHANGED <<subs, cfgDirs, beating, toolCall, tstatus, inbox, stamps, madeCalls>>

CreateServer(s) ==
  /\ At(s, "server")
  /\ ses' = [ses EXCEPT ![s].at = "config",
                        ![s].tools = OfferedTools(ses[s].role)]
  /\ UNCHANGED <<subs, cfgDirs, beating, toolCall, tstatus, inbox, stamps, madeCalls>>

\* ensure_agent_config_dir: a write that fails leaves a directory of which
\* run_agent does not know.
MakeConfigDir(s, fails) ==
  /\ At(s, "config") /\ cfgDirs' = cfgDirs \cup {s}
  /\ Moves(s, IF fails THEN "orphaned" ELSE "subscribe")
  /\ UNCHANGED <<subs, beating, toolCall, tstatus, inbox, stamps, madeCalls>>

\* sync_project_claude_md may raise before, and the transport's settings after,
\* the subscription; the latter are not yet inside the inner try.
SubscribeAgent(s, outcome) ==
  /\ At(s, "subscribe")
  /\ subs' = IF outcome = "sync_fails" THEN subs ELSE subs \cup {s}
  /\ beating' = IF outcome = "ok" THEN beating \cup {s} ELSE beating
  /\ Moves(s, CASE outcome = "ok" -> "run" [] outcome = "sync_fails" -> "out"
                [] OTHER -> "unsubscribed_never")
  /\ UNCHANGED <<cfgDirs, toolCall, tstatus, inbox, stamps, madeCalls>>

-----------------------------------------------------------------------------
(* Running. *)

\* The prompt stream: every half second without a message it looks at the
\* ticket; a relevant message is passed on, and ends the stream when it says
\* that the ticket has stopped.
PromptStream(s) ==
  /\ At(s, "run") /\ ~ses[s].done
  /\ ses' = [ses EXCEPT ![s].done =
       IF inbox[s] = "no" THEN tstatus[ses[s].ticket] \in Terminal3 ELSE inbox[s] = "terminal"]
  /\ ses' # ses \/ inbox[s] # "no"
  /\ inbox' = [inbox EXCEPT ![s] = "no"]
  /\ UNCHANGED <<subs, cfgDirs, beating, toolCall, tstatus, stamps, madeCalls>>

\* _is_relevant: to the role or to all, and not from the role itself.
Deliver(topic, sender, kind) ==
  inbox' = [x \in Spawns |->
    IF x \in subs /\ ses[x].ticket = topic /\ ses[x].role # sender THEN kind ELSE inbox[x]]

(* Mutant of NamesOther: the argument is not looked at. *)
NamesUnchecked(s, target) == FALSE
\* _wrap_with_context: another ticket than the agent's own is refused, unless
\* the role may cross tickets.
NamesOther(s, target) ==
  target \notin {ses[s].ticket, "unnamed"} /\ ~AgentRoles[ses[s].role].cross

\* The call runs in a task of its own, whose context the wrapper sets.  A
\* refused call, or a read out of the role's scope, changes nothing.
BeginToolCall(s, tool, target) ==
  /\ At(s, "run") /\ tool \in ses[s].tools /\ toolCall[s] = NoToolCall
  /\ tool = "reviewer_read_file" => \E p \in PathsTried : MayRead(ses[s].role, p)
  /\ ~NamesOther(s, target) /\ madeCalls < MaxToolCalls
  /\ toolCall' = [toolCall EXCEPT ![s] =
       [tool |-> tool, to |-> IF target = "unnamed" THEN ses[s].ticket ELSE target,
        stamp |-> ses[s].ticket]]
  /\ madeCalls' = madeCalls + 1
  /\ UNCHANGED <<ses, subs, cfgDirs, beating, tstatus, inbox, stamps>>

\* update_ticket and ask_question change the status and tell the topic.
EndToolCall(s, status) ==
  /\ toolCall[s] # NoToolCall
  /\ LET c == toolCall[s] IN
       /\ stamps' = stamps \cup {[by |-> s, to |-> c.to, stamp |-> c.stamp]}
       /\ IF c.tool \in {"update_ticket", "ask_question"}
          THEN LET new == IF c.tool = "ask_question" THEN "needs_info" ELSE status IN
               /\ tstatus' = [tstatus EXCEPT ![c.to] = new]
               /\ Deliver(c.to, ses[s].role, IF new \in Terminal3 THEN "terminal" ELSE "other")
          ELSE UNCHANGED <<tstatus, inbox>>
  /\ toolCall' = [toolCall EXCEPT ![s] = NoToolCall]
  /\ UNCHANGED <<ses, subs, cfgDirs, beating, madeCalls>>

\* The result message, an authentication failure, or any other exception.
AgentStops(s, how) ==
  /\ At(s, "run") /\ toolCall[s] = NoToolCall
  /\ ses' = [ses EXCEPT ![s].at = "finally", ![s].done = TRUE,
                        ![s].result = IF how = "result" THEN "none" ELSE how]
  /\ UNCHANGED <<subs, cfgDirs, beating, toolCall, tstatus, inbox, stamps, madeCalls>>

\* The inner finally: stop the heartbeat, then leave the topic.
StopHeartbeat(s) ==
  /\ At(s, "finally") /\ s \in beating /\ beating' = beating \ {s}
  /\ UNCHANGED <<ses, subs, cfgDirs, toolCall, tstatus, inbox, stamps, madeCalls>>
(* Mutant of Unsubscribed: only a run that ended well leaves its topic. *)
UnsubscribedIfWell(s) == IF ses[s].result = "none" THEN subs \ {s} ELSE subs
Unsubscribed(s) == subs \ {s}
LeaveTopic(s) ==
  /\ At(s, "finally") /\ s \notin beating
  /\ subs' = Unsubscribed(s) /\ inbox' = [inbox EXCEPT ![s] = "no"]
  /\ Moves(s, "out")
  /\ UNCHANGED <<cfgDirs, beating, toolCall, tstatus, stamps, madeCalls>>

\* _status_to_result.
StatusToResult(status) ==
  IF status \in {"blocked", "needs_info", "failed"} THEN status ELSE "success"
\* The outer finally removes the directory it knows of.
RunAgentEnds(s) ==
  /\ ses[s].at \in {"out", "orphaned", "unsubscribed_never"}
  /\ ses' = [ses EXCEPT ![s].at = CASE @ = "out" -> "over" [] @ = "orphaned" -> "over_orphaned"
                                        [] OTHER -> "over_subscribed",
       ![s].result = IF ses[s].done /\ @ = "none"
                     THEN StatusToResult(tstatus[ses[s].ticket])
                     ELSE IF @ = "none" THEN "raised" ELSE @]
  /\ cfgDirs' = IF ses[s].at = "orphaned" THEN cfgDirs ELSE cfgDirs \ {s}
  /\ UNCHANGED <<subs, beating, toolCall, tstatus, inbox, stamps, madeCalls>>

-----------------------------------------------------------------------------
SessionInit ==
  /\ ses = [s \in Spawns |-> NoSession] /\ subs = {} /\ cfgDirs = {} /\ beating = {}
  /\ toolCall = [s \in Spawns |-> NoToolCall] /\ stamps = {} /\ madeCalls = 0
  /\ tstatus = [t \in AgentTickets |-> "in_progress"] /\ inbox = [s \in Spawns |-> "no"]

SessionNext ==
  \/ \E s \in Spawns :
       \/ \E role \in DOMAIN AgentRoles, t \in AgentTickets : StartSession(s, role, t)
       \/ \E has \in SUBSET {"design_file"} : BuildAgentPrompt(s, has)
       \/ \E b \in BOOLEAN : MaterializePolicy(s, b) \/ MakeConfigDir(s, b)
       \/ \E o \in {"ok", "sync_fails", "transport_fails"} : SubscribeAgent(s, o)
       \/ CreateServer(s) \/ PromptStream(s) \/ StopHeartbeat(s) \/ LeaveTopic(s) \/ RunAgentEnds(s)
       \/ \E tool \in ToolsTried, t \in AgentTickets \cup {"unnamed"} : BeginToolCall(s, tool, t)
       \/ \E status \in {"resolved", "blocked", "in_progress"} : EndToolCall(s, status)
       \/ \E how \in {"result", "auth", "raised"} : AgentStops(s, how)

SessionSpec == SessionInit /\ [][SessionNext]_sesVars

SessionTypeOK ==
  /\ subs \cup cfgDirs \cup beating \subseteq Spawns
  /\ \A s \in Spawns : ses[s].tools \subseteq BaseTools \cup NamedTools \cup CheckpointTools
                                              \cup {"add_dependency", "sa_adjudicate_finding"}
  /\ \A s \in Spawns : inbox[s] \in {"no", "other", "terminal"}

IsOver(s) == ses[s].at \in {"over", "over_orphaned", "over_subscribed"}

\* However the run of an agent ends, its heartbeat has stopped.  Its directory
\* stays only where making it failed half-way, so that run_agent never knew of
\* it, and its subscription only where the set-up failed after subscribing and
\* before the inner try; a run that leaves the one does not leave the other.
EndsClean ==
  \A s \in Spawns : IsOver(s) =>
    /\ s \notin beating
    /\ s \in cfgDirs => At(s, "over_orphaned")
    /\ s \in subs => At(s, "over_subscribed")

\* What a call writes bears the ticket of the agent that made it, and reaches
\* another ticket only from a role that may cross tickets.
WritesInScope ==
  \A w \in stamps : /\ w.stamp = ses[w.by].ticket
                    /\ w.to # w.stamp => AgentRoles[ses[w.by].role].cross
=============================================================================
