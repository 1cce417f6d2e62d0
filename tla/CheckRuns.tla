----------------------------- MODULE CheckRuns -----------------------------
(***************************************************************************)
(* The automated checks behind a handoff: the runners, the results they      *)
(* store, the gate that scores them, waivers of failures, the evaluator who   *)
(* then decides, and the agents that are spawned to answer on a ticket.       *)
(*                                                                            *)
(* A commit is what it changes in the tests; output, prompts and justification*)
(* are left out.  ThreadGate has the handoff's own races; here a harness      *)
(* judgement reads and writes the handoff in one step.                        *)
(***************************************************************************)
EXTENDS Naturals, Sequences, FiniteSets, SequencesExt

CONSTANTS
  Catalog,        \* check -> [type, severity, context, excluded]
  WfPhases,       \* the workflow: a sequence of [role, checks, evaluator]
  Changes,        \* what a commit may do: sets of test functions
  KnownRoles,     \* roles with a file
  CanWaive,       \* the severities the waiving role may waive
  MaxChanges,     \* bound: commits
  MaxHandoffs,    \* bound: handoffs
  MaxResults      \* bound: stored results when a gate begins

ASSUME ChecksAssumption ==
  /\ {MaxChanges, MaxHandoffs, MaxResults} \subseteq Nat
  /\ \A c \in DOMAIN Catalog : Catalog[c].type \in {"script", "red", "green", "aware", "blackbox"}
  /\ Len(WfPhases) \in Nat \ {0} /\ DOMAIN WfPhases = 1..Len(WfPhases)
  /\ \A i \in DOMAIN WfPhases :
       /\ WfPhases[i].checks \in Seq({WfPhases[i].checks[k] : k \in DOMAIN WfPhases[i].checks})
       /\ WfPhases[i].role # "harness"   \* the name the gate accepts under

VARIABLES
  commits,   \* the ticket branch's commits
  phaseNo,   \* the current phase
  handoffs,  \* the handoff entries: [phase, author, state, by]
  results,   \* CheckResultsStore: [phase, check, verdict, sha]
  failures,  \* the check_failure events: [check, sha, severity, waived]
  gate,      \* where the ticket's task is
  waiving,   \* the thread_waive_check call under way: 0 or an event
  live,      \* _live_subscribers: role -> "no", "starting", "running"
  gatePassed \* the handoffs whose gate passed

checkVars == <<commits, phaseNo, handoffs, results, failures, gate, waiving, live, gatePassed>>

NoSha == 0
Phase == WfPhases[phaseNo]
Roles == {WfPhases[i].role : i \in DOMAIN WfPhases}
Scripted == {"script", "red", "green"}
IsKnown(c) == c \in DOMAIN Catalog
GateAt(at) == [at |-> at, hid |-> 0, names |-> <<>>, pos |-> 0, sha |-> NoSha,
               failing |-> {}, missing |-> {}, from |-> 0, tools |-> {}, sees |-> {}]
\* An exception out of the gate fails the ticket.
GateRaises == gate' = GateAt("failed")

-----------------------------------------------------------------------------
(* pytest_diff: the tests a commit range touches, and the verdict on them.    *)
(* A file is [path, readable, parses, tests], a test [changed, baseline, result]*)

TestFiles(change) == {f \in change : f.path = "test" /\ \E t \in f.tests : t.changed}
FatalFiles(change) == {f \in TestFiles(change) : ~f.readable \/ ~f.parses}
SelectedTests(change) ==
  UNION {{t \in f.tests : t.changed /\ ~t.baseline} : f \in TestFiles(change)}
\* red: every selected test must fail, and not err, pass or be skipped.
DiffVerdict(mode, change) ==
  CASE FatalFiles(change) # {} -> "fail"
    [] FatalFiles(change) = {} /\ SelectedTests(change) = {} -> "pass"
    [] OTHER -> IF \A t \in SelectedTests(change) :
                     IF mode = "red" THEN t.result = "failed" ELSE t.result \in {"passed", "skipped"}
                THEN "pass" ELSE "fail"

-----------------------------------------------------------------------------
(* The phase's agent works, commits and hands off. *)

AgentCommits(change) ==
  /\ Len(commits) <= MaxChanges /\ commits' = Append(commits, change)
  /\ UNCHANGED <<phaseNo, handoffs, results, failures, gate, waiving, live, gatePassed>>
AgentHandsOver ==
  /\ gate.at = "agent" /\ Len(handoffs) < MaxHandoffs
  /\ handoffs' = Append(handoffs, [phase |-> phaseNo, author |-> Phase.role, state |-> "pending", by |-> "nobody"])
  /\ UNCHANGED <<commits, phaseNo, results, failures, gate, waiving, live, gatePassed>>

\* _run_handoff_gate_if_pending: the last pending handoff of the phase; the
\* scripted checks run first, then the agents', in the phase's order.
PendingHandoffs == {h \in DOMAIN handoffs : handoffs[h].phase = phaseNo /\ handoffs[h].state = "pending"}
IsScripted(c) == ~IsKnown(c) \/ Catalog[c].type \in Scripted
IsAgentCheck(c) == ~IsScripted(c)
\* The names are swept twice; position n + i is that of names[i] in the second.
NameAt(p) == LET n == Len(gate.names) IN gate.names[IF p <= n THEN p ELSE p - n]
InOrder(p) == IF p <= Len(gate.names) THEN IsScripted(NameAt(p)) ELSE IsAgentCheck(NameAt(p))
Sweep == 1..2 * Len(gate.names)
SkippedTo(p) == gate.pos <= p /\ \A q \in gate.pos..p - 1 : ~InOrder(q)
BeginGate ==
  /\ gate.at = "agent" /\ Len(results) < MaxResults
  /\ gate' = IF PendingHandoffs = {} THEN GateAt("over")
             ELSE [GateAt("run") EXCEPT !.hid = CHOOSE h \in PendingHandoffs : \A k \in PendingHandoffs : k <= h,
                     !.names = Phase.checks, !.pos = 1, !.from = Len(results)]
  /\ UNCHANGED <<commits, phaseNo, handoffs, results, failures, waiving, live, gatePassed>>

\* _resolve_check_context: what the check's author excluded is not resolved; a
\* black box check has no tool but its verdict.
Excluded(c, uri) == Catalog[c].type = "blackbox" /\ uri.scheme = "repo" /\ uri \in Catalog[c].excluded
ToolsOf(c) == CASE Catalog[c].type = "blackbox" -> {"verdict"}
                [] Catalog[c].type = "aware" -> {"verdict", "read"}
                [] OTHER -> {}
\* run_check: the commit is read first, and may not be readable.
StartCheck(p, sha) ==
  /\ gate.at = "run" /\ SkippedTo(p) /\ InOrder(p) /\ sha \in {NoSha, Len(commits)}
  /\ LET c == NameAt(p)
     IN  IF IsKnown(c)
         THEN gate' = [gate EXCEPT !.at = "running", !.pos = p, !.sha = sha, !.tools = ToolsOf(c),
                         !.sees = {u \in Catalog[c].context : ~Excluded(c, u)}]
         ELSE GateRaises
  /\ UNCHANGED <<commits, phaseNo, handoffs, results, failures, waiving, live, gatePassed>>

\* A check ends in a verdict, or is unfinished: it could not be started ("error")
\* or was killed at its "timeout", which nothing tells apart.  The tests decide
\* what pytest_diff says.  An agent's garbled verdict is no result.
CheckOutcomes(c) ==
  LET type == Catalog[c].type
  IN  {"unfinished"} \cup
      CASE type \in {"red", "green"} -> {DiffVerdict(type, commits[Len(commits)])}
        [] type \in {"aware", "blackbox"} -> {"pass", "fail", "garbled"}
        [] OTHER -> {"pass", "fail"}
EndCheck(outcome) ==
  /\ gate.at = "running" /\ outcome \in CheckOutcomes(NameAt(gate.pos))
  /\ IF outcome = "garbled"
     THEN GateRaises /\ UNCHANGED results
     ELSE /\ results' = Append(results, [phase |-> phaseNo, check |-> NameAt(gate.pos), verdict |-> outcome, sha |-> gate.sha])
          /\ gate' = [gate EXCEPT !.at = "run", !.pos = @ + 1, !.tools = {}, !.sees = {}]
  /\ UNCHANGED <<commits, phaseNo, handoffs, failures, waiving, live, gatePassed>>

-----------------------------------------------------------------------------
(* evaluate_handoff_gate *)

Required(c) == IsKnown(c) /\ Catalog[c].severity = "required"
\* latest_batch: the last result of each check in this phase.
ResultsOf(c) == {i \in DOMAIN results : results[i].check = c /\ results[i].phase = phaseNo}
LatestResult(c) == CHOOSE i \in ResultsOf(c) : \A k \in ResultsOf(c) : k <= i
FailuresOf(c) == {i \in DOMAIN failures : failures[i].check = c}
LatestFailure(c) == CHOOSE i \in FailuresOf(c) : \A k \in FailuresOf(c) : k <= i

\* The newest failure of the check was waived, and for the commit of the result.
WaivedForResult(r) ==
  /\ r.sha # NoSha /\ FailuresOf(r.check) # {}
  /\ failures[LatestFailure(r.check)].waived
  /\ failures[LatestFailure(r.check)].sha = r.sha

(* Mutant: a check that timed out or could not run does not block. *)
OnlyFailBlocks(r) == r.verdict # "fail" \/ WaivedForResult(r)
NotBlocking(r) == r.verdict = "pass" \/ WaivedForResult(r)

BeginEvaluate ==
  /\ gate.at = "run" /\ SkippedTo(2 * Len(gate.names) + 1)
  /\ gate' = [gate EXCEPT !.at = "score", !.pos = 1]
  /\ UNCHANGED <<commits, phaseNo, handoffs, results, failures, waiving, live, gatePassed>>
\* Every failure that is not waived is posted as an event of its own.
ScoreCheck ==
  /\ gate.at = "score" /\ gate.pos <= Len(gate.names)
  /\ LET c == gate.names[gate.pos]
         next == [gate EXCEPT !.pos = @ + 1]
     IN  IF ~Required(c) THEN gate' = next /\ UNCHANGED failures
         ELSE IF ResultsOf(c) = {} THEN gate' = [next EXCEPT !.missing = @ \cup {c}] /\ UNCHANGED failures
         ELSE LET r == results[LatestResult(c)]
              IN  IF NotBlocking(r)
                  THEN gate' = next /\ UNCHANGED failures
                  ELSE /\ gate' = [next EXCEPT !.failing = @ \cup {c}]
                       /\ failures' = Append(failures, [check |-> c, sha |-> r.sha, severity |-> "required", waived |-> FALSE])
  /\ UNCHANGED <<commits, phaseNo, handoffs, results, waiving, live, gatePassed>>
GateVerdict ==
  /\ gate.at = "score" /\ gate.pos > Len(gate.names)
  /\ LET passing == gate.failing = {} /\ gate.missing = {}
     IN  /\ gate' = [gate EXCEPT !.at = IF passing THEN "passed" ELSE "bounce"]
         /\ gatePassed' = IF passing THEN gatePassed \cup {gate.hid} ELSE gatePassed
  /\ UNCHANGED <<commits, phaseNo, handoffs, results, failures, waiving, live>>

\* bounce_handoff, accept_handoff_automated: refused when the handoff was closed
\* in the meantime.
Judged(h, state, by) ==
  IF handoffs[h].state # "pending" THEN GateRaises /\ UNCHANGED handoffs
  ELSE gate' = GateAt("over") /\ handoffs' = [handoffs EXCEPT ![h].state = state, ![h].by = by]
BounceHandoff ==
  /\ gate.at = "bounce" /\ Judged(gate.hid, "rejected", "harness")
  /\ UNCHANGED <<commits, phaseNo, results, failures, waiving, live, gatePassed>>

-----------------------------------------------------------------------------
(* The evaluator of a phase. *)

NextRole(p) == IF p < Len(WfPhases) THEN {WfPhases[p + 1].role} ELSE {}
\* previous_phase_role: whoever accepted the last accepted handoff of a phase
\* with that role.
AcceptedOf(role) ==
  {h \in DOMAIN handoffs : WfPhases[handoffs[h].phase].role = role /\ handoffs[h].state = "accepted"}
NoEvaluator == [kind |-> "none", actors |-> {}]
ResolveSingle(spec) ==
  CASE spec.kind = "previous" ->
         IF AcceptedOf(spec.role) = {} THEN NoEvaluator
         ELSE [kind |-> "role", actors |-> {handoffs[CHOOSE h \in AcceptedOf(spec.role) :
                                                        \A k \in AcceptedOf(spec.role) : k <= h].by}]
    [] spec.kind \in {"role", "human"} -> [kind |-> spec.kind, actors |-> {spec.role}]
    [] OTHER -> [kind |-> "automated", actors |-> {}]
\* A list is unresolved when one of its members is.
ResolveEvaluator(specs) ==
  LET each == {ResolveSingle(specs[i]) : i \in DOMAIN specs}
  IN  CASE specs = <<>> \/ NoEvaluator \in each -> NoEvaluator
        [] Len(specs) = 1 -> ResolveSingle(specs[1])
        [] OTHER -> [kind |-> "multi", actors |-> UNION {r.actors : r \in each}]
SpawnedFor(specs) ==
  UNION {ResolveSingle(specs[i]).actors : i \in {k \in DOMAIN specs : ResolveSingle(specs[k]).kind = "role"}}

\* A passing gate: the harness accepts, or the evaluators are spawned, or the
\* handoff stays pending for a human or nobody.
GateAccepts ==
  /\ gate.at = "passed" /\ ResolveEvaluator(Phase.evaluator).kind = "automated"
  /\ Judged(gate.hid, "accepted", "harness")
  /\ UNCHANGED <<commits, phaseNo, results, failures, waiving, live, gatePassed>>
\* _spawn_evaluator and _spawn_qa_responder claim the role before they await.
Claimed(roles) == [r \in Roles |-> IF r \in roles /\ live[r] = "no" THEN "starting" ELSE live[r]]
SpawnEvaluators ==
  LET resolved == ResolveEvaluator(Phase.evaluator)
  IN  /\ gate.at = "passed" /\ resolved.kind # "automated" /\ gate' = GateAt("over")
      /\ live' = IF resolved.kind = "none" THEN live ELSE Claimed(SpawnedFor(Phase.evaluator))
      /\ UNCHANGED <<commits, phaseNo, handoffs, results, failures, waiving, gatePassed>>
\* _run_dispatch_loop: a message to a role on a ticket that no task runs.
SpawnQaResponder(r) ==
  /\ gate.at \in {"failed", "done"} /\ live[r] = "no" /\ live' = Claimed({r})
  /\ UNCHANGED <<commits, phaseNo, handoffs, results, failures, gate, waiving, gatePassed>>
\* No role file or no worktree: the claim is given back.
ResponderStarts(r) ==
  /\ live[r] = "starting" /\ live' = [live EXCEPT ![r] = IF r \in KnownRoles THEN "running" ELSE "no"]
  /\ UNCHANGED <<commits, phaseNo, handoffs, results, failures, gate, waiving, gatePassed>>
ResponderEnds(r) ==
  /\ live[r] # "no" /\ live' = [live EXCEPT ![r] = "no"]
  /\ UNCHANGED <<commits, phaseNo, handoffs, results, failures, gate, waiving, gatePassed>>

\* _close_handoff by an agent: the phase's evaluator, else the next phase's
\* role, and never the author.
MayJudge(r, h) ==
  LET specs == WfPhases[handoffs[h].phase].evaluator
      resolved == ResolveEvaluator(specs)
  IN  /\ handoffs[h].state = "pending" /\ r # handoffs[h].author
      /\ IF resolved.kind = "none" THEN r \in NextRole(handoffs[h].phase)
         ELSE resolved.kind # "automated" /\ r \in resolved.actors
AgentJudges(r, h, state) ==
  /\ live[r] = "running" /\ MayJudge(r, h)
  /\ handoffs' = [handoffs EXCEPT ![h].state = state, ![h].by = IF state = "accepted" THEN r ELSE "nobody"]
  /\ UNCHANGED <<commits, phaseNo, results, failures, gate, waiving, live, gatePassed>>

\* The phase goes on unless its last handoff was rejected; that one runs again.
LastRejected ==
  LET mine == {h \in DOMAIN handoffs : handoffs[h].phase = phaseNo}
  IN  mine # {} /\ handoffs[CHOOSE h \in mine : \A k \in mine : k <= h].state = "rejected"
PhaseEnds ==
  /\ gate.at = "over" /\ PendingHandoffs = {}
  /\ phaseNo' = IF LastRejected \/ phaseNo = Len(WfPhases) THEN phaseNo ELSE phaseNo + 1
  /\ gate' = GateAt(IF phaseNo = Len(WfPhases) /\ ~LastRejected THEN "done" ELSE "agent")
  /\ UNCHANGED <<commits, handoffs, results, failures, waiving, live, gatePassed>>
\* A failed ticket is reopened at its phase.
ReopenFailed ==
  /\ gate.at = "failed" /\ gate' = GateAt("agent")
  /\ UNCHANGED <<commits, phaseNo, handoffs, results, failures, waiving, live, gatePassed>>

-----------------------------------------------------------------------------
(* thread_waive_check: the event is read, a waiver posted, the event updated. *)

BeginWaive(f) ==
  /\ waiving = 0 /\ ~failures[f].waived /\ failures[f].severity \in CanWaive /\ waiving' = f
  /\ UNCHANGED <<commits, phaseNo, handoffs, results, failures, gate, live, gatePassed>>
FinishWaive ==
  /\ waiving # 0 /\ failures' = [failures EXCEPT ![waiving].waived = TRUE] /\ waiving' = 0
  /\ UNCHANGED <<commits, phaseNo, handoffs, results, gate, live, gatePassed>>

-----------------------------------------------------------------------------
CheckInit ==
  /\ commits = <<{}>> /\ phaseNo = 1 /\ handoffs = <<>> /\ results = <<>> /\ failures = <<>>
  /\ gate = GateAt("agent") /\ waiving = 0 /\ live = [r \in Roles |-> "no"] /\ gatePassed = {}

CheckNext ==
  \/ \E change \in Changes : AgentCommits(change)
  \/ AgentHandsOver \/ BeginGate \/ BeginEvaluate \/ ScoreCheck \/ GateVerdict \/ BounceHandoff
  \/ GateAccepts \/ SpawnEvaluators \/ PhaseEnds \/ ReopenFailed \/ FinishWaive
  \/ \E p \in Sweep, sha \in {NoSha, Len(commits)} : StartCheck(p, sha)
  \/ \E outcome \in {"pass", "fail", "unfinished", "garbled"} : EndCheck(outcome)
  \/ \E f \in DOMAIN failures : BeginWaive(f)
  \/ \E r \in Roles :
       \/ SpawnQaResponder(r) \/ ResponderStarts(r) \/ ResponderEnds(r)
       \/ \E h \in DOMAIN handoffs, state \in {"accepted", "rejected"} : AgentJudges(r, h, state)

CheckSpec == CheckInit /\ [][CheckNext]_checkVars

CheckTypeOK ==
  /\ phaseNo \in DOMAIN WfPhases /\ waiving \in {0} \cup DOMAIN failures
  /\ gate.at \in {"agent", "run", "running", "score", "passed", "bounce", "over", "failed", "done"}
  /\ gate.hid \in {0} \cup DOMAIN handoffs /\ gatePassed \subseteq DOMAIN handoffs
  /\ \A i \in DOMAIN results : results[i].verdict \in {"pass", "fail", "unfinished"}

\* When the gate passes a handoff, each required check of the phase was run for
\* it, and its result is a pass or a failure that somebody waived for the very
\* commit the result names; and only such a handoff is accepted by the harness.
PassMeansChecked ==
  /\ gate.at = "passed" => \A i \in DOMAIN gate.names : Required(gate.names[i]) =>
       LET last == LatestResult(gate.names[i])
           r == results[last]
       IN  /\ last > gate.from
           /\ \/ r.verdict = "pass"
              \/ r.sha # NoSha /\ \E f \in FailuresOf(r.check) : failures[f].waived /\ failures[f].sha = r.sha
  /\ \A h \in DOMAIN handoffs : handoffs[h].state = "accepted" /\ handoffs[h].by = "harness" => h \in gatePassed
============================================================================
