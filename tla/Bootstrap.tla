------------------------------ MODULE Bootstrap ------------------------------
(***************************************************************************)
(* `jig init` and `jig onboard`: the two resumable workflows that take a    *)
(* directory to a project the orchestrator can run.  Neither keeps a        *)
(* program counter on disk.  Each turn of the loop classifies what the      *)
(* files, the tickets and the threads say (classify_resume,                 *)
(* classify_onboard_resume) and dispatches the step that is still missing,  *)
(* so a process killed anywhere is resumed by running the command again.    *)
(*                                                                          *)
(* A thread is the sequence of the entries the classifiers look at, each    *)
(* reduced to its kind; the texts are left out.  An agent is external: it   *)
(* may make any tool call of its role, in any number, and stop at any time. *)
(* Every tool posts to the thread first and sets the ticket's status after, *)
(* and the process may die in between.                                      *)
(***************************************************************************)
EXTENDS Naturals, Sequences, FiniteSets, FiniteSetsExt

CONSTANTS
  Suites,       \* the suite tickets of the L3 level, a sequence
  MaxThread,    \* bound: entries in one thread
  MaxCrashes    \* bound: how often the process dies or is run with --force

ASSUME BootAssumption == MaxThread \in Nat /\ MaxCrashes \in Nat /\ Suites \in Seq(STRING)

VARIABLES
  cmd,       \* the command this directory is driven with
  at,        \* what the process is doing; "off" when none runs
  on,        \* the ticket the agent of this step works on
  rs,        \* the resume state last dispatched
  repeats,   \* consecutive dispatches of the same state (onboard)
  proj,      \* project.yaml and config.yaml
  tk,        \* ticket -> status
  log,       \* ticket -> thread
  drift,     \* where the tree differs from the scan guard's baseline
  scanWrote, \* history: where the scanner wrote outside what it owns
  crashes

bootVars == <<cmd, at, on, rs, repeats, proj, tk, log, drift, scanWrote, crashes>>

Levels == <<"l0", "l1", "l2">> \o Suites
BootTickets == {"brief", "arch", "profile", "scan", "backlog", "planning"}
                 \cup {Levels[i] : i \in DOMAIN Levels}
TkStatus == {"none", "in_progress", "needs_info", "resolved"}
Kinds == {"question", "answer", "handoff", "gaps", "approved", "spec", "small",
          "medium", "proposal", "skipped", "applied", "scan_done", "verified",
          "violation", "rerun", "artifacts_ok"}

NoProject == [stub |-> FALSE, arch |-> FALSE, stamped |-> FALSE, profile |-> "none",
              completed |-> FALSE, baseline |-> FALSE, desired |-> FALSE]

\* The scan guard's surface: the paths run_onboard writes itself
\* (_is_run_onboard_owned), and all the others, frozen from the first run.
Surfaces == {"owned", "frozen"}

-----------------------------------------------------------------------------
(* What the classifiers read. *)

\* The index of the last entry of kind k, 0 when there is none.
LastOf(t, k) == Max({0} \cup {i \in DOMAIN log[t] : log[t][i] = k})
Has(t, k) == LastOf(t, k) > 0
Count(t, k) == Cardinality({i \in DOMAIN log[t] : log[t][i] = k})

DirState == IF ~proj.stub THEN "fresh"
            ELSE IF proj.stamped THEN "already_done" ELSE "in_progress"

OpenQuestions(t) == Count(t, "question") > Count(t, "answer")
AwaitsAnswer(t) == tk[t] = "needs_info" /\ OpenQuestions(t)

\* The medium profile's sa_role is the module architect.
UsesModuleSA == proj.profile = "medium"

\* The first level whose thread lacks the handoff to the next; 0 when none does.
NextLevel ==
  LET open == {i \in DOMAIN Levels : ~Has(Levels[i], "handoff")}
  IN  IF open = {} THEN 0 ELSE Min(open)

ProfileState == IF Has("profile", "small") \/ Has("profile", "medium")
                THEN "PM_CONFIRM" ELSE "PM_PROFILE"

ArchState(default) ==
  IF tk["arch"] = "none" THEN default
  ELSE IF Has("arch", "applied") THEN "DONE"
  ELSE IF Has("arch", "skipped") THEN "DIRECT"
  ELSE IF Has("arch", "proposal") THEN "SA_CONFIRM"
  ELSE IF Has("arch", "handoff") THEN "DONE"
  ELSE IF AwaitsAnswer("arch") THEN "ANSWER_ARCH" ELSE "SA"

(* Mutant of NeedsApproval: one approval is good for every later brief. *)
NeverApproved == ~Has("brief", "approved")
\* The brief was handed over again since the operator last approved it.
NeedsApproval == LastOf("brief", "handoff") > LastOf("brief", "approved")

\* classify_resume's guards are tried in order.
InitState ==
  IF DirState = "already_done" THEN "DONE"
  ELSE IF UsesModuleSA THEN
    IF NextLevel = 0 THEN ArchState("SA")
    ELSE IF AwaitsAnswer(Levels[NextLevel]) THEN "ANSWER_LEVEL" ELSE "PO_LEVEL"
  ELSE IF tk["brief"] = "none" THEN "PO"
  ELSE IF AwaitsAnswer("brief") THEN "ANSWER_BRIEF"
  ELSE IF ~Has("brief", "spec") THEN
    IF ~Has("brief", "handoff") THEN "PO"
    ELSE IF LastOf("brief", "gaps") > LastOf("brief", "handoff") THEN "GAP"
    ELSE IF NeedsApproval THEN "APPROVAL" ELSE "SPEC"
  ELSE IF proj.profile = "none" THEN ProfileState
  ELSE ArchState("BRANCH")

\* The scanner said it is done and nobody has verified its writes since.
InCrashWindow == LastOf("scan", "verified") < LastOf("scan", "scan_done")

OnboardState ==
  IF DirState = "already_done" THEN "BROKEN"
  ELSE IF proj.completed THEN "DONE"
  ELSE IF tk["scan"] = "none" THEN "SCAN"
  ELSE IF Has("scan", "violation") THEN "BROKEN"
  ELSE IF ~Has("scan", "scan_done") \/ InCrashWindow THEN "SCAN"
  ELSE IF tk["brief"] = "none" THEN "PO"
  ELSE IF AwaitsAnswer("brief") THEN "ANSWER_BRIEF"
  ELSE IF ~Has("brief", "spec") THEN
    IF ~Has("brief", "handoff") THEN "PO"
    ELSE IF ~NeedsApproval /\ LastOf("brief", "approved") > LastOf("brief", "gaps") THEN "SPEC"
    ELSE "APPROVAL"
  ELSE IF proj.profile = "none" THEN ProfileState
  ELSE IF tk["arch"] = "none" THEN "SA"
  ELSE IF AwaitsAnswer("arch") THEN "ANSWER_ARCH"
  ELSE IF LastOf("arch", "rerun") >= LastOf("arch", "handoff") THEN "SA"
  ELSE IF LastOf("arch", "artifacts_ok") < LastOf("arch", "handoff") THEN "REVIEW"
  ELSE IF AwaitsAnswer("backlog") THEN "ANSWER_BACKLOG"
  ELSE "PM_BACKLOG"

Classified == IF cmd = "init" THEN InitState ELSE OnboardState

-----------------------------------------------------------------------------
(* Writes. *)

Room(t) == Len(log[t]) < MaxThread
Post(t, k) == log' = [log EXCEPT ![t] = Append(@, k)]
SetStatus(t, s) == tk' = [tk EXCEPT ![t] = s]
\* A resolved ticket would end the agent at its first poll.
Reactivated(t) == IF tk[t] \in {"none", "resolved"} THEN "in_progress" ELSE tk[t]
Leave == at' = "off"

\* Every spawn helper creates its ticket if needed and reactivates it.
Spawn(t) == SetStatus(t, Reactivated(t)) /\ on' = t /\ at' = "agent"

-----------------------------------------------------------------------------
(* Running the command. *)

\* run_init: refuses a finished project; the stub and the profile are on disk
\* before the loop starts.
RunInit(p) ==
  /\ cmd = "init" /\ at = "off" /\ ~proj.stamped
  /\ proj' = [proj EXCEPT !.stub = TRUE,
                          !.profile = IF @ = "none" THEN p ELSE @]
  /\ at' = "loop" /\ rs' = "NEW"
  /\ UNCHANGED <<cmd, on, repeats, tk, log, drift, scanWrote, crashes>>

\* init --brief: a brief written by the operator counts as handed off and
\* approved; a role that works by modules cannot use it.
SeedBrief ==
  /\ cmd = "init" /\ at = "loop" /\ rs = "NEW" /\ ~UsesModuleSA
  /\ LET need(k) == IF Has("brief", k) THEN <<>> ELSE <<k>>
     IN  log' = [log EXCEPT !["brief"] = @ \o need("handoff") \o need("approved")]
  /\ SetStatus("brief", IF Has("brief", "handoff") THEN Reactivated("brief")
                                                   ELSE "resolved")
  /\ rs' = "SEEDED"
  /\ UNCHANGED <<cmd, on, at, repeats, proj, drift, scanWrote, crashes>>

\* run_onboard: a baseline missing inside the crash window ends the command.
EnsureBaseline == proj.baseline \/ ~InCrashWindow
(* Mutant of KeptDrift: an existing baseline takes over the owned paths at  *)
(* every run.                                                              *)
RefreshedDrift(writes) == IF proj.baseline THEN drift \ {"owned"} ELSE {}
\* The first run takes the baseline.  A later one takes over the owned paths
\* as it finds them, except in the crash window: what the command itself
\* writes there is then drift.
KeptDrift(writes) ==
  IF ~proj.baseline THEN {}
  ELSE IF InCrashWindow THEN drift \cup (IF writes THEN {"owned"} ELSE {})
  ELSE drift \ {"owned"}
\* History: owned paths a scanner wrote that said nothing yet of being done
\* are taken over with the rest.
TakenOver ==
  IF "owned" \in scanWrote /\ ~Has("scan", "scan_done")
  THEN (scanWrote \ {"owned"}) \cup {"taken"} ELSE scanWrote
RunOnboard(d, p) ==
  /\ cmd = "onboard" /\ at = "off" /\ DirState # "already_done"
  /\ EnsureBaseline
  /\ drift' = KeptDrift((d /\ ~proj.desired) \/ (p # "none" /\ proj.profile = "none"))
  /\ scanWrote' = TakenOver
  /\ proj' = [proj EXCEPT !.stub = TRUE, !.baseline = TRUE, !.desired = @ \/ d,
                          !.profile = IF @ = "none" THEN p ELSE @]
  /\ at' = "loop" /\ repeats' = 0
  /\ UNCHANGED <<cmd, on, rs, tk, log, crashes>>

\* --force removes .jig: the tickets, the threads and the project with it.
\* The tree as it stands is the next baseline.
ForceReset ==
  /\ at = "off" /\ proj.stub /\ crashes < MaxCrashes
  /\ proj' = NoProject
  /\ tk' = [t \in BootTickets |-> "none"] /\ log' = [t \in BootTickets |-> <<>>]
  /\ drift' = {} /\ scanWrote' = {} /\ rs' = "NEW"
  /\ crashes' = crashes + 1
  /\ UNCHANGED <<cmd, on, at, repeats>>

\* The process dies; what is on disk stays.
Crash ==
  /\ at # "off" /\ crashes < MaxCrashes
  /\ crashes' = crashes + 1 /\ Leave
  /\ UNCHANGED <<cmd, on, rs, repeats, proj, tk, log, drift, scanWrote>>

\* The operator edits the tree while no command runs.
OperatorEdits(where) ==
  /\ cmd = "onboard" /\ at = "off" /\ proj.baseline /\ ~Has("scan", "verified")
  /\ drift' = drift \cup {where}
  /\ UNCHANGED <<cmd, on, at, rs, repeats, proj, tk, log, scanWrote, crashes>>

\* The orchestrator, started on a project with an architecture, makes the
\* planning ticket when nothing else did.
EnsurePlanningTicket ==
  /\ at = "off" /\ proj.arch /\ tk["planning"] = "none"
  /\ SetStatus("planning", "in_progress")
  /\ UNCHANGED <<cmd, on, at, rs, repeats, proj, log, drift, scanWrote, crashes>>

-----------------------------------------------------------------------------
(* The loop: classify, then dispatch. *)

SpawnStates == {"SCAN", "PO", "PM_PROFILE", "SA", "PM_BACKLOG"}
MaxSameStateSpawns == 3
(* Mutant of SpawnLimitHit: nothing stops a state that never moves on. *)
SpawnsUnlimited(n) == FALSE
SpawnLimitHit(n) == n > MaxSameStateSpawns

Dispatch ==
  /\ at = "loop"
  /\ rs' = Classified
  /\ repeats' = IF cmd = "init" THEN 0
                ELSE IF rs' = rs /\ repeats > 0 THEN Min({repeats + 1, MaxSameStateSpawns + 1})
                ELSE 1
  /\ at' = IF \/ rs' \in {"DONE", "BROKEN"}
              \/ rs' \in SpawnStates /\ SpawnLimitHit(repeats')
           THEN "off" ELSE "step"
  /\ UNCHANGED <<cmd, on, proj, tk, log, drift, scanWrote, crashes>>

Step(states) == at = "step" /\ rs \in states

\* The states whose step is to run an agent at once, in either command.
RunAgentOn(c, state, t) ==
  /\ cmd = c /\ Step({state}) /\ Spawn(t)
  /\ UNCHANGED <<cmd, rs, repeats, proj, log, drift, scanWrote, crashes>>
RunPoConversation == RunAgentOn("init", "PO", "brief")
RunPoLevel == RunAgentOn("init", "PO_LEVEL", Levels[NextLevel])
RunSaConversation == RunAgentOn("init", "SA", "arch")
RunOnboardPoConversation == RunAgentOn("onboard", "PO", "brief")
RunOnboardPmProfilePass == RunAgentOn("onboard", "PM_PROFILE", "profile")
RunOnboardSaConversation == RunAgentOn("onboard", "SA", "arch")
SpawnAgent ==
  \/ RunPoConversation \/ RunPoLevel \/ RunSaConversation
  \/ RunOnboardPoConversation \/ RunOnboardPmProfilePass \/ RunOnboardSaConversation

\* run_spec_generator does not reactivate the brief.
SpawnSpecGenerator ==
  /\ Step({"SPEC"}) /\ at' = "agent" /\ on' = "brief"
  /\ UNCHANGED <<cmd, rs, repeats, proj, tk, log, drift, scanWrote, crashes>>

\* run_onboard_scan_pass: a scan that already ended is only verified.
SpawnScanner ==
  /\ Step({"SCAN"})
  /\ IF Has("scan", "scan_done") THEN at' = "verify" /\ UNCHANGED <<tk, on>> ELSE Spawn("scan")
  /\ UNCHANGED <<cmd, rs, repeats, proj, log, drift, scanWrote, crashes>>

\* run_onboard_pm_backlog: nothing to plan when no desired state was given.
SpawnBacklog ==
  /\ Step({"PM_BACKLOG"})
  /\ IF proj.desired THEN Spawn("backlog") /\ UNCHANGED proj
     ELSE proj' = [proj EXCEPT !.completed = TRUE] /\ at' = "loop" /\ UNCHANGED <<tk, on>>
  /\ UNCHANGED <<cmd, rs, repeats, log, drift, scanWrote, crashes>>

\* prompt_brief_approval.  Init's "resume" only reopens the ticket; onboard's
\* runs the product owner again.
ApproveBrief(choice) ==
  /\ Step({"APPROVAL"}) /\ Room("brief")
  /\ \/ choice = "yes" /\ Post("brief", "approved") /\ at' = "loop" /\ UNCHANGED <<tk, on>>
     \/ choice = "resume" /\ cmd = "init" /\ SetStatus("brief", Reactivated("brief"))
        /\ at' = "loop" /\ UNCHANGED <<on, log>>
     \/ choice = "resume" /\ cmd = "onboard" /\ Spawn("brief") /\ UNCHANGED log
     \/ choice = "no" /\ Leave /\ UNCHANGED <<tk, on, log>>
  /\ UNCHANGED <<cmd, rs, repeats, proj, drift, scanWrote, crashes>>

\* prompt_gap_decision: back to the product owner, or leave.
DecideGap(choice) ==
  /\ Step({"GAP"})
  /\ \/ choice = "no" /\ Leave /\ UNCHANGED <<tk, on>>
     \/ choice # "no" /\ Spawn("brief")
  /\ UNCHANGED <<cmd, rs, repeats, proj, log, drift, scanWrote, crashes>>

\* prompt_branch_choice: stay with the product owner, go to the architect, or
\* pick a template directly.
ChooseBranch(choice) ==
  /\ Step({"BRANCH"})
  /\ \/ choice = "resume" /\ Spawn("brief") /\ UNCHANGED log
     \/ choice = "yes" /\ Spawn("arch") /\ UNCHANGED log
     \/ choice = "no" /\ SetStatus("arch", Reactivated("arch")) /\ Post("arch", "skipped")
        /\ at' = "loop" /\ UNCHANGED on
  /\ UNCHANGED <<cmd, rs, repeats, proj, drift, scanWrote, crashes>>

\* prompt_profile_confirm: the latest proposal, or the other one on a swap.
ConfirmProfile(choice) ==
  /\ Step({"PM_CONFIRM"})
  /\ LET small == LastOf("profile", "small") > LastOf("profile", "medium")
     IN  \/ choice = "no" /\ Leave /\ UNCHANGED proj
         \/ /\ choice # "no" /\ at' = "loop"
            /\ proj' = [proj EXCEPT !.profile = IF small = (choice = "yes")
                                                THEN "small" ELSE "medium"]
  /\ UNCHANGED <<cmd, on, rs, repeats, tk, log, drift, scanWrote, crashes>>

\* prompt_sa_confirm; a direct pick applies its template at once.
ConfirmScaffold(choice) ==
  /\ Step({"SA_CONFIRM", "DIRECT"})
  /\ \/ choice = "no" /\ rs = "SA_CONFIRM" /\ Leave /\ UNCHANGED <<tk, on>>
     \/ choice = "resume" /\ rs = "SA_CONFIRM" /\ Spawn("arch")
     \/ choice = "yes" /\ at' = "scaffold" /\ UNCHANGED <<tk, on>>
  /\ UNCHANGED <<cmd, rs, repeats, proj, log, drift, scanWrote, crashes>>

(* Mutant of ScaffoldWrites: project.yaml is stamped first. *)
StampFirst(p) == IF p = "scaffold" THEN "stamped" ELSE "arch"
\* The file each write of apply_scaffold makes durable.
ScaffoldWrites(p) == IF p = "scaffold" THEN "arch" ELSE "stamped"
\* apply_scaffold: architecture.yaml, the stamp in project.yaml, the event,
\* and then the planning ticket, one write after the other.
ApplyScaffold ==
  /\ \/ at \in {"scaffold", "stamp"} /\ proj' = [proj EXCEPT ![ScaffoldWrites(at)] = TRUE]
        /\ at' = (IF at = "scaffold" THEN "stamp" ELSE "event") /\ UNCHANGED <<tk, log>>
     \/ at = "event" /\ at' = "plan" /\ Post("arch", "applied")
        /\ SetStatus("arch", IF tk["arch"] = "none" THEN "in_progress" ELSE tk["arch"])
        /\ UNCHANGED proj
     \/ at = "plan" /\ at' = "off" /\ UNCHANGED <<log, proj>>
        /\ SetStatus("planning", IF tk["planning"] = "none" THEN "in_progress"
                                                           ELSE tk["planning"])
  /\ UNCHANGED <<cmd, on, rs, repeats, drift, scanWrote, crashes>>

\* prompt_onboard_review: rejection asks the architect again.
ReviewArtifacts(choice) ==
  /\ Step({"REVIEW"}) /\ Room("arch")
  /\ \/ choice = "yes" /\ Post("arch", "artifacts_ok") /\ UNCHANGED tk
     \/ choice # "yes" /\ Post("arch", "rerun") /\ SetStatus("arch", Reactivated("arch"))
  /\ at' = "loop"
  /\ UNCHANGED <<cmd, on, rs, repeats, proj, drift, scanWrote, crashes>>

\* prompt_and_post_answers: every open question is answered, then the status
\* is set.
AnsweredTicket == CASE rs = "ANSWER_BRIEF"   -> "brief"
                    [] rs = "ANSWER_ARCH"    -> "arch"
                    [] rs = "ANSWER_BACKLOG" -> "backlog"
                    [] rs = "ANSWER_LEVEL"   -> Levels[NextLevel]
AnswerQuestions ==
  /\ Step({"ANSWER_BRIEF", "ANSWER_ARCH", "ANSWER_BACKLOG", "ANSWER_LEVEL"})
  /\ LET t == AnsweredTicket
     IN  \/ OpenQuestions(t) /\ Post(t, "answer") /\ UNCHANGED <<tk, at>>
         \/ ~OpenQuestions(t) /\ SetStatus(t, "in_progress") /\ at' = "loop"
            /\ UNCHANGED log
  /\ UNCHANGED <<cmd, on, rs, repeats, proj, drift, scanWrote, crashes>>

-----------------------------------------------------------------------------
(* Agents. *)

\* A tool call posts its entry; the ticket's status follows, except after the
\* backlog's plain thread_handoff, which sets none.
Tool(t, k) ==
  /\ at = "agent" /\ on = t /\ Room(t)
  /\ Post(t, k)
  /\ at' = IF k = "question" THEN "ask" ELSE IF t = "backlog" THEN "agent" ELSE "settle"
  /\ UNCHANGED <<cmd, on, rs, repeats, proj, tk, drift, scanWrote, crashes>>
PoFinishBrief == rs # "SPEC" /\ Tool("brief", "handoff")
PoFinishLevel == rs = "PO_LEVEL" /\ \E i \in DOMAIN Levels : Tool(Levels[i], "handoff")
SpecPublish == rs = "SPEC" /\ Tool("brief", "spec")
SpecReportGaps == rs = "SPEC" /\ Tool("brief", "gaps")
PmProposeProfile == \E p \in {"small", "medium"} : Tool("profile", p)
FlatSA == cmd = "init" /\ ~UsesModuleSA
SaProposeScaffold == FlatSA /\ Tool("arch", "proposal")
ArchFinalize == ~FlatSA /\ Tool("arch", "handoff")
OnboardFinishScan == Tool("scan", "scan_done")
BacklogDone == Tool("backlog", "handoff")
AskQuestion == rs # "SPEC" /\ on \notin {"profile", "scan"} /\ Tool(on, "question")
AgentCalls ==
  \/ PoFinishBrief \/ PoFinishLevel \/ SpecPublish \/ SpecReportGaps
  \/ PmProposeProfile \/ SaProposeScaffold \/ ArchFinalize \/ OnboardFinishScan
  \/ BacklogDone \/ AskQuestion

\* The session goes on until a poll of the status ends it.
AgentSettles ==
  /\ at \in {"settle", "ask"}
  /\ SetStatus(on, IF at = "ask" THEN "needs_info" ELSE "resolved")
  /\ at' = "agent"
  /\ UNCHANGED <<cmd, on, rs, repeats, proj, log, drift, scanWrote, crashes>>

\* The scanner has file tools: nothing stops it from writing in the tree.
ScannerWrites(where) ==
  /\ at = "agent" /\ rs = "SCAN"
  /\ drift' = drift \cup {where} /\ scanWrote' = scanWrote \cup {where}
  /\ UNCHANGED <<cmd, on, at, rs, repeats, proj, tk, log, crashes>>

\* run_agent returns.  The backlog pass records completion when its thread
\* holds the handoff.
AgentEnds ==
  /\ at = "agent"
  /\ at' = IF rs = "SCAN" THEN "verify" ELSE "loop"
  /\ proj' = [proj EXCEPT !.completed =
                @ \/ (rs = "PM_BACKLOG" /\ Has("backlog", "handoff"))]
  /\ UNCHANGED <<cmd, on, rs, repeats, tk, log, drift, scanWrote, crashes>>

\* _verify_scan_writes: any drift from the baseline is a violation and ends
\* the command; otherwise a finished scan is marked verified.
VerifyScan ==
  /\ at = "verify" /\ Room("scan")
  /\ \/ drift # {} /\ Post("scan", "violation") /\ Leave
     \/ drift = {} /\ Has("scan", "scan_done") /\ Post("scan", "verified") /\ at' = "loop"
     \/ drift = {} /\ ~Has("scan", "scan_done") /\ at' = "loop" /\ UNCHANGED log
  /\ UNCHANGED <<cmd, on, rs, repeats, proj, tk, drift, scanWrote, crashes>>

-----------------------------------------------------------------------------
BootInit ==
  /\ cmd \in {"init", "onboard"} /\ at = "off" /\ on = "brief" /\ rs = "NEW" /\ repeats = 0
  /\ proj = NoProject
  /\ tk = [t \in BootTickets |-> "none"] /\ log = [t \in BootTickets |-> <<>>]
  /\ drift = {} /\ scanWrote = {} /\ crashes = 0

BootNext ==
  \/ \E p \in {"small", "medium"} : RunInit(p)
  \/ \E d \in BOOLEAN, p \in {"none", "small"} : RunOnboard(d, p)
  \/ SeedBrief \/ ForceReset \/ Crash \/ EnsurePlanningTicket
  \/ \E where \in Surfaces : OperatorEdits(where) \/ ScannerWrites(where)
  \/ Dispatch \/ SpawnAgent \/ SpawnSpecGenerator \/ SpawnScanner \/ SpawnBacklog
  \/ \E c \in {"yes", "resume", "no"} :
       \/ ApproveBrief(c) \/ DecideGap(c) \/ ChooseBranch(c) \/ ConfirmProfile(c)
       \/ ConfirmScaffold(c) \/ ReviewArtifacts(c)
  \/ ApplyScaffold \/ AnswerQuestions
  \/ AgentCalls \/ AgentSettles \/ AgentEnds \/ VerifyScan

BootSpec == BootInit /\ [][BootNext]_bootVars

BootTypeOK ==
  /\ cmd \in {"init", "onboard"} /\ repeats \in 0..MaxSameStateSpawns + 1
  /\ at \in {"off", "loop", "step", "agent", "settle", "ask", "verify",
             "scaffold", "stamp", "event", "plan"}
  /\ on \in BootTickets
  /\ tk \in [BootTickets -> TkStatus] /\ log \in [BootTickets -> Seq(Kinds)]
  /\ drift \subseteq Surfaces /\ scanWrote \subseteq Surfaces \cup {"taken"}
  /\ crashes \in 0..MaxCrashes
  /\ at = "agent" /\ rs \in SpawnStates => repeats <= MaxSameStateSpawns

\* The scan guard: once an onboarding's scan is marked verified, all that the
\* scanner ever wrote on the guarded surface is what a run of the command took
\* into the baseline before any scanner had said it was done, and that lies on
\* the paths run_onboard owns.  Of the frozen paths it wrote none, however
\* often the command was killed and run again between its writes, its finish
\* call and the verification, and of the owned ones none after that run.
ScanGuardSound == Has("scan", "verified") => scanWrote \subseteq {"taken"}

\* However the process dies while it applies a scaffold, a project that `jig
\* init` refuses to touch again has what the orchestrator needs to plan it.
StampedIsPlannable == proj.stamped => proj.arch \/ tk["planning"] # "none"

\* An onboarding is completed only on artefacts the operator approved after
\* the architect last handed them over.  The spec generator is started only
\* when the operator approved the brief after its last handoff and its last
\* gap report, and a structured spec is made of a brief approved after its last
\* handoff.  A session that reports gaps may still publish: nothing in
\* spec_publish looks at the gaps of its own session.
BuiltOnApproval ==
  /\ proj.completed => /\ LastOf("arch", "artifacts_ok") > LastOf("arch", "handoff")
                       /\ LastOf("arch", "rerun") < LastOf("arch", "handoff")
  /\ Step({"SPEC"}) => \A k \in {"handoff", "gaps"} : LastOf("brief", "approved") > LastOf("brief", k)
  /\ Has("brief", "spec") =>
       LET spec == LastOf("brief", "spec")
           before(k) == Max({0} \cup {i \in 1..spec : log["brief"][i] = k})
       IN  before("approved") > before("handoff")
=============================================================================
