------------------------------- MODULE DevEnv -------------------------------
(***************************************************************************)
(* The development environment of the agents: each run is given the services*)
(* of the manifest before it starts and they are taken away when it ends,     *)
(* while the operator lists, drops and sweeps what is left behind.            *)
(*                                                                            *)
(* No caller passes an SQL executor: schemas, subject prefixes and per-agent  *)
(* Postgres databases are only names in a URL, and what exists on disk is the *)
(* SQLite file of an ephemeral service.  URLs, sizes and table counts are     *)
(* left out.                                                                  *)
(***************************************************************************)
EXTENDS Naturals, Sequences, FiniteSets

CONSTANTS
  DevRuns,      \* the runs of agents
  DevTickets,   \* ticket -> work type
  DevRoles,
  DataStores,   \* the data stores the architecture may come to have: sequences
                \* of [id, provisioned, kind, strategy, perAgent, url, onSuccess, onFailure]
  Requests,     \* the external requests that agents make
  MaxDevFaults, \* bound: failing file operations and restarts of the daemon
  MaxCommands   \* bound: the operator's commands and changes of tickets

ASSUME DevEnvAssumption == "any" \notin DevRoles /\ {MaxDevFaults, MaxCommands} \subseteq Nat

VARIABLES
  manifest,   \* dev-manifest.yaml: whether it exists, and its services
  files,      \* the SQLite files, [service, name]
  archived,   \* the files moved to the archive
  agent,      \* run -> [at, role, ticket, todo, given, ok]
  statusOf,   \* ticket -> status
  old,        \* the tickets last changed before the sweeper's threshold
  cassettes,  \* the recorded requests, in the file's order
  fetch,      \* run -> the request it is recording
  robbed,     \* history: [of, by, shared]: who removed a database from under whom,
              \* and whether its template names the ticket alone
  opLog,      \* orphan-log and sweeper-log: the last line
  devFaults, commands \* the bounds' counters

devVars == <<manifest, files, archived, agent, statusOf, old, cassettes, fetch, robbed, opLog, devFaults, commands>>

NoManifest == [exists |-> FALSE, services |-> <<>>]
NoAgent == [at |-> "off", role |-> "none", ticket |-> "none", todo |-> <<>>, given |-> {}, ok |-> FALSE]
NoFetch == "none"
DevStatus == {"open", "in_progress", "resolved", "closed", "failed", "blocked"}
Manifest == manifest.services

-----------------------------------------------------------------------------
(* Names. *)

\* derive_manifest keeps the data stores that have a provisioning block.
DeriveServices(stores) == SelectSeq(stores, LAMBDA s : s.provisioned)

(* Mutant: the agent is not part of any name. *)
NamespaceOfTicket(s, role, t) == <<"any", t>>
\* agent_id is the role and the ticket; a template may name the ticket alone.
render_namespace(s, role, t) == IF s.perAgent THEN <<role, t>> ELSE <<"any", t>>

\* The provisioners that need an executor, or nothing, leave no trace.
Traceless(s) == s.strategy = "shared_namespaced" \/ s.kind = "postgres"
HasFile(s) == ~Traceless(s) /\ s.strategy = "per_agent_ephemeral" /\ s.kind = "sqlite"
\* OperatorSuppliedProvisioner.provision refuses an empty template.
Refuses(s) == s.strategy = "operator_supplied" /\ s.url = ""
FileOf(s, role, t) == [service |-> s.id, name |-> render_namespace(s, role, t)]
Policy(s, ok) == IF ok THEN s.onSuccess ELSE s.onFailure

Who(a) == <<agent[a].role, agent[a].ticket>>
\* Whoever runs with this file when it is removed has lost it.
Robbed(f, who, shared) ==
  robbed \cup {[of |-> Who(b), by |-> who, shared |-> shared] :
                 b \in {c \in DevRuns : agent[c].at = "running" /\ f \in agent[c].given}}

-----------------------------------------------------------------------------
(* provision_for_agent, the run, cleanup_for_agent. *)

SpawnAgent(a, role, t) ==
  /\ agent[a].at = "off" /\ statusOf[t] = "open"
  /\ agent' = [agent EXCEPT ![a] = [NoAgent EXCEPT !.at = "provisioning", !.role = role,
                 !.ticket = t, !.todo = Manifest]]
  /\ UNCHANGED <<manifest, files, archived, statusOf, old, cassettes, fetch, robbed, opLog, devFaults, commands>>

\* One service after the other.  A service of a kind nobody provisions is
\* skipped; sqlite touches the file, which may be there already.
ProvisionService(a) ==
  LET s == Head(agent[a].todo)  f == FileOf(s, agent[a].role, agent[a].ticket)
  IN  /\ agent[a].at = "provisioning" /\ agent[a].todo # <<>>
      /\ ~Refuses(s)
      /\ files' = IF HasFile(s) THEN files \cup {f} ELSE files
      /\ agent' = [agent EXCEPT ![a].todo = Tail(@), ![a].given = IF HasFile(s) THEN @ \cup {f} ELSE @]
      /\ UNCHANGED <<manifest, archived, statusOf, old, cassettes, fetch, robbed, opLog, devFaults, commands>>
\* DevProvisioningError: the ticket fails; nothing is cleaned up.
ProvisioningFails(a) ==
  /\ agent[a].at = "provisioning" /\ agent[a].todo # <<>>
  /\ LET s == Head(agent[a].todo)
     IN  \/ Refuses(s) /\ UNCHANGED devFaults
         \/ HasFile(s) /\ devFaults < MaxDevFaults /\ devFaults' = devFaults + 1
  /\ agent' = [agent EXCEPT ![a] = [NoAgent EXCEPT !.at = "over"]]
  /\ statusOf' = [statusOf EXCEPT ![agent[a].ticket] = "failed"]
  /\ old' = old \ {agent[a].ticket}
  /\ UNCHANGED <<manifest, files, archived, cassettes, fetch, robbed, opLog, commands>>
RunsProvisioned(a) ==
  /\ agent[a].at = "provisioning" /\ agent[a].todo = <<>>
  /\ agent' = [agent EXCEPT ![a].at = "running"]
  /\ UNCHANGED <<manifest, files, archived, statusOf, old, cassettes, fetch, robbed, opLog, devFaults, commands>>

\* run_agent returns or raises; the manifest is read again for the cleanup.
AgentRunEnds(a, ok) ==
  /\ agent[a].at = "running" /\ fetch[a] = NoFetch
  /\ agent' = [agent EXCEPT ![a].at = "cleaning", ![a].todo = Manifest, ![a].ok = ok]
  /\ UNCHANGED <<manifest, files, archived, statusOf, old, cassettes, fetch, robbed, opLog, devFaults, commands>>
\* Drop, archive or keep; an error is logged and the next service follows.
CleanupService(a, works) ==
  LET s == Head(agent[a].todo)  f == FileOf(s, agent[a].role, agent[a].ticket)
      done == works /\ HasFile(s) /\ f \in files /\ Policy(s, agent[a].ok) # "keep"
  IN  /\ agent[a].at = "cleaning" /\ agent[a].todo # <<>>
      /\ works \/ (devFaults < MaxDevFaults /\ HasFile(s))
      /\ devFaults' = IF works THEN devFaults ELSE devFaults + 1
      /\ files' = IF done THEN files \ {f} ELSE files
      /\ archived' = IF done /\ Policy(s, agent[a].ok) = "archive" THEN archived \cup {f} ELSE archived
      /\ robbed' = IF done THEN Robbed(f, Who(a), ~s.perAgent) ELSE robbed
      /\ agent' = [agent EXCEPT ![a].todo = Tail(@)]
      /\ UNCHANGED <<manifest, statusOf, old, cassettes, fetch, opLog, commands>>
CleanupOver(a) ==
  /\ agent[a].at = "cleaning" /\ agent[a].todo = <<>>
  /\ agent' = [agent EXCEPT ![a] = [NoAgent EXCEPT !.at = "over"]]
  /\ UNCHANGED <<manifest, files, archived, statusOf, old, cassettes, fetch, robbed, opLog, devFaults, commands>>

\* The daemon ends: nobody cleans up, what was provisioned stays.
DaemonEnds ==
  /\ devFaults < MaxDevFaults /\ devFaults' = devFaults + 1
  /\ agent' = [a \in DevRuns |-> IF agent[a].at = "off" THEN NoAgent ELSE [NoAgent EXCEPT !.at = "over"]]
  /\ fetch' = [a \in DevRuns |-> NoFetch]
  /\ UNCHANGED <<manifest, files, archived, statusOf, old, cassettes, robbed, opLog, commands>>

-----------------------------------------------------------------------------
(* Recorded requests. *)

\* fixture_mode_for_ticket: spikes record, everything else replays.
FixtureMode(t) == IF DevTickets[t] = "spike" THEN "record_new" ELSE "replay_only"

\* record_or_replay: a recorded answer is replayed; without one only a spike
\* may ask the service itself (a missing fixture is an error of the caller).
AskService(a, q) ==
  /\ agent[a].at = "running" /\ fetch[a] = NoFetch
  /\ FixtureMode(agent[a].ticket) = "record_new" /\ \A i \in DOMAIN cassettes : cassettes[i] # q
  /\ fetch' = [fetch EXCEPT ![a] = q]
  /\ UNCHANGED <<manifest, files, archived, agent, statusOf, old, cassettes, robbed, opLog, devFaults, commands>>
\* The answer is appended; another run may have recorded the same request.
RecordAnswer(a) ==
  /\ fetch[a] # NoFetch /\ fetch' = [fetch EXCEPT ![a] = NoFetch]
  /\ cassettes' = Append(cassettes, fetch[a])
  /\ UNCHANGED <<manifest, files, archived, agent, statusOf, old, robbed, opLog, devFaults, commands>>

-----------------------------------------------------------------------------
(* The operator's commands. *)

\* One more command, or change of a ticket.
Command == commands < MaxCommands /\ commands' = commands + 1

\* jig dev manifest --derive
DeriveManifest(stores) ==
  /\ Command
  /\ manifest' = [exists |-> TRUE, services |-> DeriveServices(stores)]
  /\ UNCHANGED <<files, archived, agent, statusOf, old, cassettes, fetch, robbed, opLog, devFaults>>

\* A namespace counts as an orphan when its ticket is neither open nor in work.
Orphans == {t \in DOMAIN DevTickets : /\ statusOf[t] \notin {"open", "in_progress"}
                                      /\ \E i \in DOMAIN Manifest : Manifest[i].strategy = "shared_namespaced"}
\* Orphans of finished tickets are dropped without asking once they are old.
SweepBucket(t) ==
  CASE statusOf[t] \in {"resolved", "closed"} /\ t \in old -> "auto_safe"
    [] statusOf[t] \in {"failed", "blocked"} -> "needs_confirm"
    [] OTHER -> "keep"

\* Each command ends with a line in its log.
Logged(what, n) ==
  /\ Command /\ manifest.exists /\ opLog' = [what |-> what, n |-> n]
  /\ UNCHANGED <<manifest, files, archived, agent, statusOf, old, cassettes, fetch, robbed, devFaults>>

\* drop_orphan: the service's cleanup, by the name of the tracker and not of
\* the agent; for a shared namespace, without an executor, it touches nothing.
drop_orphan(n) == n
\* jig dev orphans list, drop and purge
ListOrphans == Logged("detect", Cardinality(Orphans))
DropOrphan(t) == t \in Orphans /\ Logged("drop", drop_orphan(1))
PurgeOrphans == Logged("purge", drop_orphan(Cardinality(Orphans)))
\* jig dev sweeper run and apply
SweepTargets(bucket) == {t \in Orphans : SweepBucket(t) = bucket \/ (bucket = "all" /\ SweepBucket(t) # "keep")}
RunSweeper == Logged("run", Cardinality(Orphans))
ApplySweep(bucket) == Logged("apply", drop_orphan(Cardinality(SweepTargets(bucket))))

\* list_ephemeral_instances: every file, whoever may be using it.
Instances == files
\* jig dev ephemeral drop: whatever file is listed, in use or not.
DropEphemeral(f) ==
  /\ Command
  /\ f \in Instances /\ files' = files \ {f} /\ robbed' = Robbed(f, <<"operator">>, FALSE)
  /\ UNCHANGED <<manifest, archived, agent, statusOf, old, cassettes, fetch, opLog, devFaults>>
\* jig dev fixtures clear --confirm
ClearFixtures ==
  /\ Command
  /\ cassettes # <<>> /\ cassettes' = <<>>
  /\ UNCHANGED <<manifest, files, archived, agent, statusOf, old, fetch, robbed, opLog, devFaults>>

\* The ticket goes on elsewhere, and grows old.
TicketMovesOn(t, s) ==
  /\ Command
  /\ statusOf[t] # s /\ statusOf' = [statusOf EXCEPT ![t] = s] /\ old' = old \ {t}
  /\ UNCHANGED <<manifest, files, archived, agent, cassettes, fetch, robbed, opLog, devFaults>>
TicketAges(t) ==
  /\ Command
  /\ t \notin old /\ old' = old \cup {t}
  /\ UNCHANGED <<manifest, files, archived, agent, statusOf, cassettes, fetch, robbed, opLog, devFaults>>

-----------------------------------------------------------------------------
DevInit ==
  /\ manifest = NoManifest /\ files = {} /\ archived = {}
  /\ agent = [a \in DevRuns |-> NoAgent] /\ statusOf = [t \in DOMAIN DevTickets |-> "open"]
  /\ old = {} /\ cassettes = <<>> /\ fetch = [a \in DevRuns |-> NoFetch]
  /\ robbed = {} /\ opLog = [what |-> "none", n |-> 0] /\ devFaults = 0 /\ commands = 0

DevNext ==
  \/ \E a \in DevRuns :
       \/ \E role \in DevRoles, t \in DOMAIN DevTickets : SpawnAgent(a, role, t)
       \/ ProvisionService(a) \/ ProvisioningFails(a) \/ RunsProvisioned(a)
       \/ \E ok \in BOOLEAN : AgentRunEnds(a, ok) \/ CleanupService(a, ok)
       \/ CleanupOver(a) \/ RecordAnswer(a) \/ \E q \in Requests : AskService(a, q)
  \/ DaemonEnds \/ ClearFixtures
  \/ ListOrphans \/ PurgeOrphans \/ RunSweeper
  \/ \E bucket \in {"auto_safe", "needs_confirm", "all"} : ApplySweep(bucket)
  \/ \E stores \in DataStores : DeriveManifest(stores)
  \/ \E t \in DOMAIN DevTickets :
       \/ DropOrphan(t)
       \/ \E s \in DevStatus : TicketMovesOn(t, s)
       \/ TicketAges(t)
  \/ \E f \in files : DropEphemeral(f)

DevSpec == DevInit /\ [][DevNext]_devVars

DevTypeOK ==
  /\ \A a \in DevRuns : agent[a].at \in {"off", "provisioning", "running", "cleaning", "over"}
  /\ statusOf \in [DOMAIN DevTickets -> DevStatus]
  /\ \A a \in DevRuns : fetch[a] # NoFetch => agent[a].at = "running"

\* An agent keeps the databases it was given as long as it runs: whatever the
\* operator sweeps, whoever else starts, fails or ends, and however often the
\* manifest changes, one whose template names the agent goes only by the
\* operator's own drop or by another run of the same role for the same ticket.
DatabaseStaysMine ==
  \A r \in robbed : r.by \in {<<"operator">>, r.of} \/ r.shared
=============================================================================
