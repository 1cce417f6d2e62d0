------------------------------ MODULE ThreadGate ------------------------------
(***************************************************************************)
(* The thread of one ticket while one phase is attempted: the entries that *)
(* block (jig/thread.py), the tools that post and close them               *)
(* (jig/thread_mcp.py), the handoff gate and the wait of the orchestrator  *)
(* (jig/handoff_gate.py, jig/orchestrator.py), and the sweep that nudges   *)
(* and escalates what stays open too long (jig/deadlock.py).               *)
(*                                                                         *)
(* Everything runs in one event loop, and reads of the store do not yield. *)
(* A write yields while its line is appended, so a handler is two steps:   *)
(* it reads and checks, and later its write takes effect.  Answers,        *)
(* resolutions, decisions and plain notes never block and nothing here     *)
(* reads them; they are left out of the thread.                            *)
(***************************************************************************)
EXTENDS Integers, Sequences, FiniteSets

CONSTANTS
    Roles,        \* the roles whose agents hold the tools
    Dev,          \* the role of the phase, author of its handoffs
    Evaluators,   \* the actors the phase's evaluator resolves to
    CanWaive,     \* the roles that may waive an objection
    Callers,      \* tool calls that may be in flight at a time
    Posters,      \* who may post: pairs of a blocking kind and a role
    MaxPosts      \* bound: blocking entries that agents post

ASSUME RoleAssumption ==
    /\ Dev \in Roles /\ Evaluators \subseteq Roles /\ CanWaive \subseteq Roles
    /\ Posters \subseteq {"question", "objection", "escalation"} \X Roles

ASSUME PostAssumption == MaxPosts \in Nat

VARIABLES
    thread,      \* the entries of the ticket, in the order of posting
    status,      \* the ticket's status
    automated,   \* is the phase's evaluator automated_only?
    call,        \* the tool calls in flight
    gate,        \* where the orchestrator is with the phase
    hid,         \* the entry it is working on
    sweep,       \* the deadlock sweep: its place and what it still has to do
    seen         \* history: the length of the thread when the phase passed

vars == <<thread, status, automated, call, gate, hid, sweep, seen>>

Statuses == {"in_progress", "resolved", "needs_info"}
Terminal == {"resolved"}     \* _TERMINAL_STATUSES, of the statuses above

Kinds == {"question", "objection", "escalation", "handoff", "note"}

(* A thread entry: closed by its resolver, waived, judged (a handoff; with *)
(* or without a rejection reason on file), posted by the sweep about       *)
(* another entry, and how old: past the first threshold, past the second.  *)
Entry == [kind : Kinds, author : Roles \cup {"orchestrator"},
          resolved : BOOLEAN, waived : BOOLEAN,
          acceptance : {"pending", "accepted", "rejected"}, reason : BOOLEAN,
          responds_to : Nat, age : 0..2]

Ops == {"resolve", "accept", "waive", "accept_handoff", "reject_handoff",
        "pause", "answer"}

Idle == [op |-> "none", id |-> 0]

Ended == {"passed", "rejected", "dead"}

Places == {"agent", "checks", "bounce", "auto", "look", "wait", "resume",
           "prompt", "unpause", "silent"} \cup Ended

Ids == 1..Len(thread)

(* The entry of S that was posted last, as a predicate. *)
Latest(i, S) == i \in S /\ \A j \in S : j <= i

(* The type invariant: the records of thread.py, the calls in flight and   *)
(* the places of the orchestrator and of the sweep.                        *)
TypeOK ==
    /\ thread \in Seq(Entry) /\ status \in Statuses /\ automated \in BOOLEAN
    /\ call \in [Callers -> [op : Ops \cup {"none"}, id : Nat]]
    /\ \A c \in Callers : call[c].id \in Ids \cup {0}
    /\ gate \in Places /\ hid \in Ids \cup {0} /\ seen \in Nat
    /\ sweep \in [pc : {"idle", "listed", "scan", "flip"},
                  escalate : SUBSET Ids, nudge : SUBSET Ids]

Init ==
    /\ thread = <<>> /\ status = "in_progress" /\ automated \in BOOLEAN
    /\ call = [c \in Callers |-> Idle]
    /\ gate = "agent" /\ hid = 0 /\ seen = 0
    /\ sweep = [pc |-> "idle", escalate |-> {}, nudge |-> {}]

-----------------------------------------------------------------------------
(* thread.py: what is closed, what blocks, what can be read back. *)

(* is_resolved, of the kinds that have a life cycle *)
IsResolved(e) ==
    CASE e.kind = "handoff" -> e.acceptance # "pending"
      [] e.kind = "objection" -> e.resolved \/ e.waived
      [] OTHER -> e.resolved

(* A note never blocks; a question is in the thread only if it blocks. *)
IsBlocking(e) == e.kind # "note" /\ ~IsResolved(e)

(* model_post_init of Objection and of Handoff: a record that breaks these *)
(* rules raises when the store reads it.                                   *)
Parses(e) ==
    /\ e.kind = "objection" => ~(e.resolved /\ e.waived)
    /\ (e.kind = "handoff" /\ e.acceptance = "accepted") => ~e.reason

(* ThreadStore.for_ticket raises if any entry of the ticket does. *)
Readable == \A i \in Ids : Parses(thread[i])

Blocking == {i \in Ids : IsBlocking(thread[i])}

New(kind, author, target) ==
    [kind |-> kind, author |-> author, resolved |-> kind = "note",
     waived |-> FALSE, acceptance |-> "pending", reason |-> FALSE,
     responds_to |-> target, age |-> 0]

(* ThreadStore.post *)
Post(e) == thread' = Append(thread, e)

Posted == {i \in Ids : thread[i].responds_to = 0}

(* Time passes over an open entry, up to a threshold of the sweep. *)
Age(i) ==
    /\ i \in Blocking /\ thread[i].responds_to = 0 /\ thread[i].age < 2
    /\ thread' = [thread EXCEPT ![i].age = @ + 1]
    /\ UNCHANGED <<status, automated, call, gate, hid, sweep, seen>>

-----------------------------------------------------------------------------
(* The tools that post: thread_ask with blocking, thread_object,           *)
(* thread_escalate, thread_handoff.                                        *)

(* Posts that may still be made before the attempt is over. *)
MayPost == gate \notin Ended /\ Cardinality(Posted) < MaxPosts

PostBy(kind, by) ==
    /\ MayPost
    /\ Post(New(kind, by, 0))
    /\ UNCHANGED <<status, automated, call, gate, hid, sweep, seen>>

ThreadAsk(by) == <<"question", by>> \in Posters /\ PostBy("question", by)

ThreadObject(by) == <<"objection", by>> \in Posters /\ PostBy("objection", by)

(* and thread_uncertain that names no role *)
ThreadEscalate(by) ==
    <<"escalation", by>> \in Posters /\ PostBy("escalation", by)

ThreadHandoff == gate = "agent" /\ PostBy("handoff", Dev)

(* ask_question of the agent at work: a blocking question, then (a second  *)
(* write) the ticket pauses.                                               *)
AskQuestion(c) ==
    /\ gate = "agent" /\ call[c] = Idle /\ MayPost
    /\ Post(New("question", Dev, 0))
    /\ call' = [call EXCEPT ![c] = [op |-> "pause", id |-> 0]]
    /\ UNCHANGED <<status, automated, gate, hid, sweep, seen>>

-----------------------------------------------------------------------------
(* The tools that close: the checks, made on the record as it is read. *)

MayClose(op, e, by) ==
    /\ Parses(e) /\ ~IsResolved(e)
    /\ \/ op = "resolve" /\ e.kind = "question" /\ by = e.author
       \/ op = "accept" /\ e.kind = "objection" /\ by = e.author
       \/ op = "waive" /\ e.kind = "objection" /\ by \in CanWaive
       \/ /\ op \in {"accept_handoff", "reject_handoff"} /\ e.kind = "handoff"
          /\ ~automated /\ by \in Evaluators /\ by # e.author

BeginClose(c, op, i, by) ==
    /\ call[c] = Idle /\ i \in Ids /\ MayClose(op, thread[i], by)
    /\ call' = [call EXCEPT ![c] = [op |-> op, id |-> i]]
    /\ UNCHANGED <<thread, status, automated, gate, hid, sweep, seen>>

Accepted(e) == [e EXCEPT !.acceptance = "accepted"]
Rejected(e) == [e EXCEPT !.acceptance = "rejected", !.reason = TRUE]

Closed(op, e) ==
    CASE op = "waive" -> [e EXCEPT !.waived = TRUE]
      [] op = "accept_handoff" -> Accepted(e)
      [] op = "reject_handoff" -> Rejected(e)
      [] OTHER -> [e EXCEPT !.resolved = TRUE]

(* ThreadStore.update merges the changes into the record as it is now. *)
FinishClose(c) ==
    /\ call[c].id # 0
    /\ thread' = [thread EXCEPT ![call[c].id] = Closed(call[c].op, @)]
    /\ call' = [call EXCEPT ![c] = Idle]
    /\ UNCHANGED <<status, automated, gate, hid, sweep, seen>>

FinishPause(c) ==
    /\ call[c].op = "pause"
    /\ status' = "needs_info"
    /\ call' = [call EXCEPT ![c] = Idle]
    /\ UNCHANGED <<thread, automated, gate, hid, sweep, seen>>

(* The operator's answer_questions: the status is read before the answers  *)
(* are posted and written after; the questions stay open.                  *)
BeginAnswer(c) ==
    /\ call[c] = Idle /\ status = "needs_info"
    /\ call' = [call EXCEPT ![c] = [op |-> "answer", id |-> 0]]
    /\ UNCHANGED <<thread, status, automated, gate, hid, sweep, seen>>

(* Mutant of FinishAnswer: the ticket goes back to the scheduler. *)
FinishAnswerOpen(c) ==
    /\ call[c].op = "answer"
    /\ status' = "open"
    /\ call' = [call EXCEPT ![c] = Idle]
    /\ UNCHANGED <<thread, automated, gate, hid, sweep, seen>>

FinishAnswer(c) ==
    /\ call[c].op = "answer"
    /\ status' = "in_progress"
    /\ call' = [call EXCEPT ![c] = Idle]
    /\ UNCHANGED <<thread, automated, gate, hid, sweep, seen>>
-----------------------------------------------------------------------------
(* The phase of the ticket: its agent, the handoff gate, the wait. *)

(* update_ticket: the agent reports success. *)
AgentResolves ==
    /\ gate = "agent" /\ status # "resolved"
    /\ status' = "resolved"
    /\ UNCHANGED <<thread, automated, call, gate, hid, sweep, seen>>

Pending == {i \in Ids : thread[i].kind = "handoff" /\ ~IsResolved(thread[i])}

(* The session is over.  A paused ticket waits for its operator; after a   *)
(* success the checks of the phase run on its latest pending handoff.  A   *)
(* thread that does not parse takes the ticket's task down.                *)
AgentReturns ==
    /\ gate = "agent"
    /\ \/ status = "needs_info" /\ gate' = "resume" /\ UNCHANGED hid
       \/ status # "needs_info" /\ ~Readable /\ gate' = "dead" /\ UNCHANGED hid
       \/ /\ status # "needs_info" /\ Readable /\ Pending = {}
          /\ gate' = "look" /\ UNCHANGED hid
       \/ /\ status # "needs_info" /\ Readable /\ Pending # {}
          /\ gate' = "checks" /\ \E i \in Ids : Latest(i, Pending) /\ hid' = i
    /\ UNCHANGED <<thread, status, automated, call, sweep, seen>>

(* bounce_handoff and accept_handoff_automated read the handoff again and  *)
(* raise if somebody has judged it in the meantime.                        *)
StillPending == Parses(thread[hid]) /\ ~IsResolved(thread[hid])

(* run_handoff_gate scores the checks; a pass is the harness's to accept   *)
(* only if the phase is automated_only.                                    *)
ChecksEnd(passing) ==
    /\ gate = "checks"
    /\ gate' = IF passing /\ ~automated THEN "look"
               ELSE IF ~StillPending THEN "dead"
               ELSE IF passing THEN "auto" ELSE "bounce"
    /\ UNCHANGED <<thread, status, automated, call, hid, sweep, seen>>

(* The harness's verdict is written. *)
HarnessJudges ==
    /\ gate \in {"bounce", "auto"}
    /\ thread' = [thread EXCEPT ![hid] =
                    IF gate = "auto" THEN Accepted(@) ELSE Rejected(@)]
    /\ gate' = "look"
    /\ UNCHANGED <<status, automated, call, hid, sweep, seen>>

(* _phase_handoff_rejected: the latest handoff of the phase. *)
HandoffRejected ==
    \E i \in Ids : /\ Latest(i, {j \in Ids : thread[j].kind = "handoff"})
                  /\ thread[i].acceptance = "rejected"

(* Mutant of Look: after the wait the thread is not read again. *)
LookAway ==
    /\ gate = "look"
    /\ gate' = IF ~Readable THEN "dead"
               ELSE IF HandoffRejected THEN "rejected" ELSE "passed"
    /\ seen' = IF gate' = "passed" THEN Len(thread) ELSE seen
    /\ UNCHANGED <<thread, status, automated, call, hid, sweep>>

(* has_unresolved_blocking and the verdict of the handoff, read without    *)
(* yielding in between.                                                    *)
Look ==
    /\ gate = "look"
    /\ gate' = IF ~Readable THEN "dead"
               ELSE IF Blocking # {} THEN "wait"
               ELSE IF HandoffRejected THEN "rejected" ELSE "passed"
    /\ seen' = IF gate' = "passed" THEN Len(thread) ELSE seen
    /\ UNCHANGED <<thread, status, automated, call, hid, sweep>>

(* Mutant of WaitEnds: an error of the store is swallowed in the loop. *)
WaitSwallows ==
    /\ gate = "wait" /\ Readable /\ Blocking = {}
    /\ gate' = "look"
    /\ UNCHANGED <<thread, status, automated, call, hid, sweep, seen>>

(* _wait_for_thread_unblock wakes on a message or after two seconds. *)
WaitEnds ==
    /\ gate = "wait" /\ (~Readable \/ Blocking = {})
    /\ gate' = IF Readable THEN "look" ELSE "dead"
    /\ UNCHANGED <<thread, status, automated, call, hid, sweep, seen>>

Questions == {i \in Blocking : thread[i].kind = "question"}

(* _prompt_for_needs_info: the latest blocking question becomes a prompt;  *)
(* without one the wait is silent.                                         *)
WaitForResume ==
    /\ gate = "resume"
    /\ \/ ~Readable /\ gate' = "dead" /\ UNCHANGED hid
       \/ Readable /\ Questions = {} /\ gate' = "silent" /\ UNCHANGED hid
       \/ /\ Readable /\ Questions # {}
          /\ gate' = "prompt" /\ \E i \in Ids : Latest(i, Questions) /\ hid' = i
    /\ UNCHANGED <<thread, status, automated, call, sweep, seen>>

(* The operator replies; the question is closed in the operator's name,    *)
(* whatever has become of it, and then the ticket is resumed.              *)
OperatorReplies ==
    /\ gate = "prompt"
    /\ thread' = [thread EXCEPT ![hid].resolved = TRUE]
    /\ gate' = "unpause"
    /\ UNCHANGED <<status, automated, call, hid, sweep, seen>>

Unpause ==
    /\ gate = "unpause"
    /\ status' = "in_progress" /\ gate' = "agent"
    /\ UNCHANGED <<thread, automated, call, hid, sweep, seen>>

SilentWaitEnds ==
    /\ gate = "silent" /\ status # "needs_info"
    /\ gate' = "agent"
    /\ UNCHANGED <<thread, status, automated, call, hid, sweep, seen>>

-----------------------------------------------------------------------------
(* sweep_blocking_entries *)

(* Mutants of HasResponder: the idempotency check is forgotten; a nudge    *)
(* counts as an escalation.                                                *)
NeverResponded(i, kind) == FALSE
AnyResponder(i, kind) == \E j \in Ids : thread[j].responds_to = i

(* _has_responder *)
HasResponder(i, kind) ==
    \E j \in Ids : thread[j].kind = kind /\ thread[j].responds_to = i

(* Entries that block and that the orchestrator did not post itself. *)
Sweepable == {i \in Blocking : thread[i].responds_to = 0}

(* The tickets are listed first; a terminal one is passed over. *)
SweepLists ==
    /\ sweep.pc = "idle" /\ status \notin Terminal
    /\ sweep' = [sweep EXCEPT !.pc = "listed"]
    /\ UNCHANGED <<thread, status, automated, call, gate, hid, seen>>

(* The thread is read; what is due is decided on this reading. *)
SweepReads ==
    /\ sweep.pc = "listed"
    /\ sweep' =
         IF ~Readable THEN [sweep EXCEPT !.pc = "idle"]
         ELSE [pc |-> "scan",
               escalate |-> {i \in Sweepable :
                   thread[i].age >= 2 /\ ~HasResponder(i, "escalation")},
               nudge |-> {i \in Sweepable :
                   thread[i].age >= 1 /\ ~HasResponder(i, "note")}]
    /\ UNCHANGED <<thread, status, automated, call, gate, hid, seen>>

Due == sweep.escalate \cup sweep.nudge

(* The entries are taken in the order of the thread. *)
Foremost(i) == \A j \in Due : i <= j

(* _post_escalation: the entry, then the ticket's status. *)
SweepEscalates(i) ==
    /\ sweep.pc = "scan" /\ i \in sweep.escalate /\ Foremost(i)
    /\ Post(New("escalation", "orchestrator", i))
    /\ sweep' = [sweep EXCEPT !.pc = "flip", !.escalate = @ \ {i}]
    /\ UNCHANGED <<status, automated, call, gate, hid, seen>>

SweepFlips ==
    /\ sweep.pc = "flip"
    /\ status' = "needs_info"
    /\ sweep' = [sweep EXCEPT !.pc = "scan"]
    /\ UNCHANGED <<thread, automated, call, gate, hid, seen>>

(* _post_nudge *)
SweepNudges(i) ==
    /\ sweep.pc = "scan" /\ i \in sweep.nudge \ sweep.escalate /\ Foremost(i)
    /\ Post(New("note", "orchestrator", i))
    /\ sweep' = [sweep EXCEPT !.nudge = @ \ {i}]
    /\ UNCHANGED <<status, automated, call, gate, hid, seen>>

SweepEnds ==
    /\ sweep.pc = "scan" /\ Due = {}
    /\ sweep' = [sweep EXCEPT !.pc = "idle"]
    /\ UNCHANGED <<thread, status, automated, call, gate, hid, seen>>

Sweep ==
    \/ SweepLists \/ SweepReads \/ SweepFlips \/ SweepEnds
    \/ \E i \in Ids : SweepEscalates(i) \/ SweepNudges(i)

-----------------------------------------------------------------------------
Task ==
    \/ AgentReturns \/ (\E passing \in BOOLEAN : ChecksEnd(passing))
    \/ HarnessJudges \/ Look \/ WaitEnds
    \/ WaitForResume \/ OperatorReplies \/ Unpause \/ SilentWaitEnds

Finish(c) == FinishClose(c) \/ FinishPause(c) \/ FinishAnswer(c)

CloseEntry(i) ==
    \E c \in Callers, op \in Ops, by \in Roles : BeginClose(c, op, i, by)

Answer == \E c \in Callers : BeginAnswer(c)

AgentPosts ==
    \/ \E by \in Roles : ThreadAsk(by) \/ ThreadObject(by) \/ ThreadEscalate(by)
    \/ ThreadHandoff
    \/ \E c \in Callers : AskQuestion(c)

Next ==
    \/ AgentPosts \/ AgentResolves
    \/ (\E i \in Ids : Age(i) \/ CloseEntry(i))
    \/ Answer \/ (\E c \in Callers : Finish(c))
    \/ Task \/ Sweep

Spec == Init /\ [][Next]_vars

(* Entries and their responders: two at most for each entry of an agent. *)
AllIds == 1..(3 * MaxPosts)

(* The event loop runs every task that can go on; the sweep comes round    *)
(* again; time passes.  The actors an entry waits for do act on it, and    *)
(* the operator answers a paused ticket.                                   *)
Fairness ==
    /\ WF_vars(Task) /\ WF_vars(Sweep)
    /\ \A c \in Callers : WF_vars(Finish(c))
    /\ \A i \in AllIds : WF_vars(i \in Ids /\ Age(i))
    /\ \A i \in AllIds : SF_vars(i \in Ids /\ CloseEntry(i))
    /\ SF_vars(Answer)

FairSpec == Spec /\ Fairness

-----------------------------------------------------------------------------
(* The sweep speaks once to an entry, and never to what it has said itself *)
(* (deadlock.py: "re-sweeping them would cascade into escalations-of-      *)
(* escalations"), though it decides on a reading of the thread that other  *)
(* tasks change while it posts.                                            *)
SweepSpeaksOnce ==
    /\ \A i, j \in Ids :
         /\ thread[i].responds_to # 0 /\ thread[j].responds_to # 0
         /\ thread[i].responds_to = thread[j].responds_to
         /\ thread[i].kind = thread[j].kind
         => i = j
    /\ \A i \in Ids : thread[i].responds_to # 0 =>
         thread[thread[i].responds_to].responds_to = 0

(* A phase passes only when every entry that was in the thread by then is  *)
(* closed, and it stays so: no call in flight opens it again.              *)
PassedMeansSettled ==
    gate = "passed" => \A i \in 1..seen : ~IsBlocking(thread[i])

(* An entry open beyond the second threshold on a live ticket is raised to *)
(* a human, unless it is closed, the ticket ends, or the thread can no     *)
(* longer be read.                                                         *)
OverdueIsRaised ==
    \A i \in AllIds :
        (i \in Ids /\ i \in Sweepable /\ thread[i].age = 2 /\ status \notin Terminal)
        ~> (\/ i \notin Blocking \/ status \in Terminal \/ ~Readable
            \/ \E j \in Blocking : thread[j].responds_to = i)

OpenEscalation == \E i \in Blocking : thread[i].kind = "escalation"

(* Somebody else was quicker: two calls closed one entry, which then can   *)
(* no longer be read, or an evaluator judged the handoff whose checks ran. *)
Overtaken ==
    \/ ~Readable
    \/ /\ hid \in Ids /\ thread[hid].kind = "handoff"
       /\ IsResolved(thread[hid])

(* The attempt at the phase comes to a verdict, and no order of calls,     *)
(* pauses and sweeps leaves the task waiting for something that has        *)
(* happened already.  It fails to in two ways, which are the code's: the   *)
(* task dies, but only of a record that two overlapping calls have made    *)
(* unreadable, or of a handoff judged under the gate's hands; or an        *)
(* escalation stays open, an agent's or the one the sweep posts ("the      *)
(* orchestrator has to break the wait", deadlock.py), since nothing in the *)
(* program closes one.                                                     *)
AttemptEnds ==
    \/ <>(gate \in {"passed", "rejected"} \/ (gate = "dead" /\ Overtaken))
    \/ <>[]OpenEscalation
=============================================================================
