------------------------------ MODULE TicketRun ------------------------------
(***************************************************************************)
(* One ticket on its way through its workflow: Orchestrator._run_ticket,   *)
(* the review federation's verdict, the adjudication of findings that      *)
(* survive, the routing of a blocked phase back to the phase that owns the *)
(* findings, and the merge at the end (jig/orchestrator.py, with phase.py, *)
(* reviewer_routing.py and worktree.py).                                   *)
(*                                                                         *)
(* A step of this module is the code between two awaits whose effects      *)
(* another party, or a restart of the daemon, can tell apart.  The parties *)
(* are the task of the ticket, the agent it has spawned, the people who    *)
(* answer questions and judge handoffs, the deadlock sweep (deadlock.py),  *)
(* and the crash.  The daemon runs with the review federation on, so a     *)
(* phase with role "review" is a round of reviewers and every other phase  *)
(* is one agent.                                                           *)
(***************************************************************************)
EXTENDS Integers, Sequences, FiniteSets

CONSTANTS
    Role,           \* the workflow: the role of each phase, in order
    Keys,           \* persistence keys a reviewer's finding can have
    Owner,          \* the phase whose writes glob a key's file matches, or 0
    KeepsBranch,    \* merge strategy feature_branch or PR, not direct or squash
    Flags,          \* the statuses agents set with update_ticket
    Faults,         \* what may go wrong outside the orchestrator
    MaxAsks, MaxOpens, MaxCrashes, MaxReopens,    \* bounds of the model
    MaxSweeps

Phases == 1..Len(Role)

FaultKinds == {"worktree", "raise", "escape", "federation", "sa", "commit",
               "merge", "conflict"}

ASSUME WorkflowAssumption ==
    /\ Role \in Seq(STRING)
    /\ Owner \in [Keys -> 0..Len(Role)]
    /\ KeepsBranch \in BOOLEAN

ASSUME AgentAssumption ==
    /\ Flags \subseteq {"resolved", "blocked", "failed"}
    /\ Faults \subseteq FaultKinds

ASSUME BoundAssumption ==
    /\ MaxAsks \in Nat /\ MaxOpens \in Nat
    /\ MaxCrashes \in Nat /\ MaxReopens \in Nat /\ MaxSweeps \in Nat

max_fix_cycles == 3
SURVIVAL_THRESHOLD == 2
MAX_SA_ESCALATIONS == 2

VARIABLES
    \* what the stores and the git worktree hold
    status,      \* the ticket's status
    recorded,    \* phases with a phase_run record of success
    handoff,     \* acceptance state of each phase's latest handoff
    open,        \* is another blocking thread entry unresolved?
    dirty,       \* does the worktree hold uncommitted changes?
    dismissed,   \* keys with a dismissal on file
    posted,      \* the review comments of the highest cycle on file
    merged,      \* is the branch merged (or published)?
    \* the locals of _run_ticket
    pc, idx, result,
    fix,         \* fix_counts
    sa,          \* sa_escalations
    cycle,       \* current_fix_cycle
    \* fields of the Orchestrator object
    surv,        \* _survival_counts of each review phase
    prev,        \* _prev_blocking_keys
    \* the deadlock sweep of the daemon
    sweep,       \* how far its pass has come with this ticket
    escalated,   \* has it raised an escalation on the thread?
    \* history, read by the properties only
    fresh,       \* phases that succeeded after every run of an earlier phase
    tried,       \* phases such that work was done since they last blocked
    lost,        \* was a worktree with uncommitted changes removed?
    unanswered,  \* has an agent asked, and nobody answered or overruled it?
    asks, opens, crashes, reopens, sweeps

sweeper == <<sweep, escalated>>
disk == <<status, recorded, handoff, open, dirty, dismissed, posted, merged>>
locals == <<idx, result, fix, sa, cycle>>
tracker == <<surv, prev>>
history == <<fresh, tried, lost, unanswered>>
budget == <<asks, opens, crashes, reopens, sweeps>>
vars == <<disk, pc, locals, tracker, history, sweeper, budget>>

Statuses == {"in_progress", "needs_info", "blocked", "failed", "resolved",
             "merge_conflict"}

Places == {"queued", "wait", "head", "agent", "review", "gate", "thread",
           "record", "advance", "commit", "blocked", "sa", "route", "recommit",
           "merge", "resolver", "retry", "conflict", "finish", "remove",
           "fail", "done", "dead", "off", "left"}

(* The type invariant: what the orchestrator's locals, its two trackers    *)
(* and the persisted state of the ticket can be.                           *)
TypeOK ==
    /\ status \in Statuses /\ recorded \subseteq Phases
    /\ handoff \in [Phases -> {"none", "pending", "accepted", "rejected"}]
    /\ open \in BOOLEAN /\ dirty \in BOOLEAN /\ dismissed \subseteq Keys
    /\ posted \in [cycle : Nat, keys : SUBSET Keys] /\ merged \in BOOLEAN
    /\ pc \in Places /\ idx \in 1..(Len(Role) + 1)
    /\ result \in {"none", "success", "blocked", "needs_info", "failed"}
    /\ fix \in [Phases -> Nat] /\ sa \in [Phases -> Nat] /\ cycle \in Nat
    /\ surv \in [Phases -> [Keys -> Nat]] /\ prev \in [Phases -> SUBSET Keys]
    /\ sweep \in {"idle", "listed", "posted"} /\ escalated \in BOOLEAN
    /\ fresh \subseteq Phases /\ tried \subseteq Phases
    /\ lost \in BOOLEAN /\ unanswered \in BOOLEAN
    /\ asks \in 0..MaxAsks /\ opens \in 0..MaxOpens
    /\ crashes \in 0..MaxCrashes /\ reopens \in 0..MaxReopens
    /\ sweeps \in 0..MaxSweeps

Zero == [p \in Phases |-> 0]
Unraised == [p \in Phases |-> [k \in Keys |-> 0]]

(* A ticket _handle_schedule has just accepted. *)
Init ==
    /\ status = "in_progress" /\ recorded = {}
    /\ handoff = [p \in Phases |-> "none"]
    /\ open = FALSE /\ dirty = FALSE /\ dismissed = {}
    /\ posted = [cycle |-> 0, keys |-> {}] /\ merged = FALSE
    /\ pc = "queued" /\ idx = 1 /\ result = "none"
    /\ fix = Zero /\ sa = Zero /\ cycle = 0
    /\ surv = Unraised /\ prev = [p \in Phases |-> {}]
    /\ sweep = "idle" /\ escalated = FALSE
    /\ fresh = {} /\ tried = {} /\ lost = FALSE /\ unanswered = FALSE
    /\ asks = 0 /\ opens = 0 /\ crashes = 0 /\ reopens = 0 /\ sweeps = 0

Goto(place) == pc' = place

-----------------------------------------------------------------------------
(* Dispatch and the head of the phase loop. *)

(* phase.current_phase_index: the first phase without a success record,    *)
(* or the end of the workflow, as a set of one element.                    *)
CurrentPhaseIndex ==
    {i \in 1..(Len(Role) + 1) :
        /\ i \in Phases => i \notin recorded
        /\ \A p \in Phases : p < i => p \in recorded}

(* Mutant of Dispatch: a ticket that waits for its operator runs on. *)
DispatchAtOnce ==
    /\ pc = "queued"
    /\ idx' \in CurrentPhaseIndex
    /\ result' = "none" /\ fix' = Zero /\ sa' = Zero /\ cycle' = 0
    /\ Goto("head")
    /\ UNCHANGED <<disk, tracker, history, sweeper, budget>>

(* The worktree, the resume point, fresh locals; a ticket that waits for   *)
(* its operator keeps waiting.                                             *)
Dispatch ==
    /\ pc = "queued"
    /\ idx' \in CurrentPhaseIndex
    /\ result' = "none" /\ fix' = Zero /\ sa' = Zero /\ cycle' = 0
    /\ Goto(IF status = "needs_info" THEN "wait" ELSE "head")
    /\ UNCHANGED <<disk, tracker, history, sweeper, budget>>

WorktreeFails ==
    /\ pc = "queued" /\ "worktree" \in Faults
    /\ Goto("fail")
    /\ UNCHANGED <<disk, locals, tracker, history, sweeper, budget>>

(* Mutant of Resume: whatever wakes the task ends its wait. *)
ResumeAwoken ==
    /\ pc = "wait"
    /\ Goto("head")
    /\ UNCHANGED <<disk, locals, tracker, history, sweeper, budget>>

(* _wait_for_resume returns. *)
Resume ==
    /\ pc = "wait" /\ status # "needs_info"
    /\ Goto("head")
    /\ UNCHANGED <<disk, locals, tracker, history, sweeper, budget>>

(* The loop test, and the phase begins: a run of phase idx makes what the  *)
(* later phases established about the tree out of date.                    *)
StartPhase ==
    /\ pc = "head" /\ idx \in Phases
    /\ Goto(IF Role[idx] = "review" THEN "review" ELSE "agent")
    /\ result' = "none"
    /\ fresh' = {p \in fresh : p < idx}
    /\ tried' = IF Role[idx] = "review" THEN tried ELSE Phases
    /\ UNCHANGED <<disk, idx, fix, sa, cycle, tracker, lost, unanswered,
                   sweeper, budget>>

AllPhasesDone ==
    /\ pc = "head" /\ idx \notin Phases
    /\ Goto("merge")
    /\ UNCHANGED <<disk, locals, tracker, history, sweeper, budget>>

-----------------------------------------------------------------------------
(* The agent of a phase. *)

AgentEdits ==
    /\ pc = "agent" /\ ~dirty
    /\ dirty' = TRUE
    /\ UNCHANGED <<status, recorded, handoff, open, dismissed, posted, merged,
                   pc, locals, tracker, history, sweeper, budget>>

(* update_ticket: an agent says how its phase went by the ticket's status. *)
(* A verdict of failure overrules the question it may have asked; of a     *)
(* success the thread gate will look at the question first.                *)
AgentFlags(st) ==
    /\ pc = "agent"
    /\ status' = st
    /\ unanswered' = (unanswered /\ st = "resolved")
    /\ UNCHANGED <<recorded, handoff, open, dirty, dismissed, posted, merged,
                   pc, locals, tracker, fresh, tried, lost, sweeper, budget>>

(* ask_question: blocking questions, then needs_info. *)
AgentAsks ==
    /\ pc = "agent" /\ asks < MaxAsks
    /\ asks' = asks + 1
    /\ status' = "needs_info" /\ open' = TRUE /\ unanswered' = TRUE
    /\ UNCHANGED <<recorded, handoff, dirty, dismissed, posted, merged,
                   pc, locals, tracker, fresh, tried, lost, sweeper,
                   opens, crashes, reopens, sweeps>>

(* thread_handoff: the earlier handoff of the phase, if nobody judged it,  *)
(* goes on blocking as one more open entry.                                *)
AgentHandsOff ==
    /\ pc = "agent" /\ opens < MaxOpens
    /\ opens' = opens + 1
    /\ handoff' = [handoff EXCEPT ![idx] = "pending"]
    /\ open' = (open \/ handoff[idx] = "pending")
    /\ UNCHANGED <<status, recorded, dirty, dismissed, posted, merged,
                   pc, locals, tracker, history, sweeper,
                   asks, crashes, reopens, sweeps>>

(* Mutant of StatusToResult: the status itself is the result. *)
StatusAsResult(st) == st

(* agent._status_to_result *)
StatusToResult(st) ==
    CASE st = "blocked" -> "blocked"
      [] st = "needs_info" -> "needs_info"
      [] st = "failed" -> "failed"
      [] OTHER -> "success"

(* Only a success goes through the handoff gate and the thread check. *)
AfterPhase(res) == IF res = "success" THEN "gate" ELSE "record"

AgentReturns ==
    /\ pc = "agent"
    /\ result' = StatusToResult(status)
    /\ Goto(AfterPhase(StatusToResult(status)))
    /\ UNCHANGED <<disk, idx, fix, sa, cycle, tracker, history, sweeper,
                   budget>>

AgentRaises ==
    /\ pc = "agent" /\ "raise" \in Faults
    /\ Goto("fail")
    /\ UNCHANGED <<disk, locals, tracker, history, sweeper, budget>>

(* A missing role file, or a ValueError of the federation, leaves          *)
(* _run_ticket as an exception: the task is gone, the status stays.        *)
Escapes ==
    /\ pc \in {"agent", "review"} /\ "escape" \in Faults
    /\ Goto("dead")
    /\ UNCHANGED <<disk, locals, tracker, history, sweeper, budget>>

-----------------------------------------------------------------------------
(* _run_review_phase_federation *)

(* The comments of the highest cycle on file once a round has posted its   *)
(* critical findings K, or only notable ones.                              *)
Post(K, any) ==
    IF ~any \/ cycle < posted.cycle THEN posted
    ELSE IF cycle = posted.cycle THEN [posted EXCEPT !.keys = @ \cup K]
    ELSE [cycle |-> cycle, keys |-> K]

(* _record_blocking_persistence: a key of this round and of the last one   *)
(* counts once more, a fresh key and a key not raised count zero.          *)
Persist(p, B) ==
    [k \in Keys |-> IF k \in B /\ k \in prev[p] THEN surv[p][k] + 1 ELSE 0]

(* What is raised, less what the adjudicator has dismissed, blocks. *)
ReviewBlocks(K) ==
    LET B == K \ dismissed IN
    /\ pc = "review" /\ B # {}
    /\ posted' = Post(K, TRUE)
    /\ surv' = [surv EXCEPT ![idx] = Persist(idx, B)]
    /\ prev' = [prev EXCEPT ![idx] = B]
    /\ result' = "blocked" /\ Goto("record")
    /\ tried' = tried \ {idx}
    /\ UNCHANGED <<status, recorded, handoff, open, dirty, dismissed, merged,
                   idx, fix, sa, cycle, fresh, lost, unanswered, sweeper,
                   budget>>

(* _clear_phase_persistence *)
Forget ==
    /\ surv' = [surv EXCEPT ![idx] = [k \in Keys |-> 0]]
    /\ prev' = [prev EXCEPT ![idx] = {}]

ReviewPasses(K, notable) ==
    /\ pc = "review" /\ K \subseteq dismissed
    /\ posted' = Post(K, notable \/ K # {})
    /\ Forget
    /\ result' = "success" /\ Goto("gate")
    /\ UNCHANGED <<status, recorded, handoff, open, dirty, dismissed, merged,
                   idx, fix, sa, cycle, history, sweeper, budget>>

(* The dispatch of the reviewers fails: treated as a clean pass. *)
ReviewBreaks ==
    /\ pc = "review" /\ "federation" \in Faults
    /\ Forget
    /\ result' = "success" /\ Goto("gate")
    /\ UNCHANGED <<disk, idx, fix, sa, cycle, history, sweeper, budget>>

-----------------------------------------------------------------------------
(* After the phase: gate, thread, record, verdict. *)

(* _run_handoff_gate_if_pending: bounced, accepted without a person, or    *)
(* left to the evaluator.                                                  *)
Gate ==
    /\ pc = "gate"
    /\ IF handoff[idx] = "pending"
       THEN \E h \in {"rejected", "accepted", "pending"} :
               handoff' = [handoff EXCEPT ![idx] = h]
       ELSE handoff' = handoff
    /\ Goto("thread")
    /\ UNCHANGED <<status, recorded, open, dirty, dismissed, posted, merged,
                   locals, tracker, history, sweeper, budget>>

(* Mutant of UnresolvedBlocking: a judged handoff goes on blocking. *)
JudgedStillBlocking ==
    open \/ escalated \/ \E p \in Phases : handoff[p] # "none"

(* has_unresolved_blocking *)
UnresolvedBlocking ==
    open \/ escalated \/ \E p \in Phases : handoff[p] = "pending"

(* The wait for the thread ends; a rejected handoff demotes the success. *)
ThreadClears ==
    /\ pc = "thread" /\ ~UnresolvedBlocking
    /\ result' = IF handoff[idx] = "rejected" THEN "blocked" ELSE "success"
    /\ Goto("record")
    /\ UNCHANGED <<disk, idx, fix, sa, cycle, tracker, history, sweeper,
                   budget>>

(* _write_phase_run_comment, and the branch on the result. *)
Record ==
    /\ pc = "record"
    /\ recorded' = IF result = "success" THEN recorded \cup {idx} ELSE recorded
    /\ fresh' = IF result = "success" THEN fresh \cup {idx} ELSE fresh
    /\ Goto(CASE result = "success" -> "advance"
              [] result = "needs_info" -> "wait"
              [] result = "blocked" -> "blocked"
              [] OTHER -> "fail")
    /\ UNCHANGED <<status, handoff, open, dirty, dismissed, posted, merged,
                   locals, tracker, tried, lost, unanswered, sweeper, budget>>

(* Mutant of Advance: phases with a success record are not run again. *)
AdvanceByRecords ==
    /\ pc = "advance"
    /\ idx' \in CurrentPhaseIndex
    /\ status' = IF idx + 1 \in Phases THEN "in_progress" ELSE status
    /\ Goto("commit")
    /\ UNCHANGED <<recorded, handoff, open, dirty, dismissed, posted, merged,
                   result, fix, sa, cycle, tracker, history, sweeper, budget>>

Advance ==
    /\ pc = "advance"
    /\ idx' = idx + 1
    /\ status' = IF idx + 1 \in Phases THEN "in_progress" ELSE status
    /\ Goto("commit")
    /\ UNCHANGED <<recorded, handoff, open, dirty, dismissed, posted, merged,
                   result, fix, sa, cycle, tracker, history, sweeper, budget>>

(* _auto_commit_worktree *)
CommitWorktree ==
    /\ dirty' = FALSE
    /\ UNCHANGED <<recorded, handoff, open, dismissed, posted, merged>>

Commit ==
    /\ pc = "commit"
    /\ CommitWorktree /\ Goto("head")
    /\ UNCHANGED <<status, locals, tracker, history, sweeper, budget>>

CommitFails ==
    /\ pc = "commit" /\ "commit" \in Faults
    /\ Goto("fail")
    /\ UNCHANGED <<disk, locals, tracker, history, sweeper, budget>>

(* Mutant of Fail: the exit leaves the status as the agent wrote it. *)
FailSilent ==
    /\ pc = "fail"
    /\ Goto("done")
    /\ UNCHANGED <<disk, locals, tracker, history, sweeper, budget>>

(* _on_ticket_failed: what its reviews had counted is dropped. *)
ForgetTicket == surv' = Unraised /\ prev' = [p \in Phases |-> {}]

(* Every exit that gives the ticket up. *)
Fail ==
    /\ pc = "fail"
    /\ status' = "failed" /\ Goto("done")
    /\ ForgetTicket
    /\ UNCHANGED <<recorded, handoff, open, dirty, dismissed, posted, merged,
                   locals, history, sweeper, budget>>

-----------------------------------------------------------------------------
(* The blocked branch: cap, adjudication, routing. *)

(* Mutant of CapTripped: one round too many. *)
CapTrippedLate(rounds) == rounds > max_fix_cycles + 1

CapTripped(rounds) == rounds > max_fix_cycles

(* _keys_past_survival_threshold *)
Escalated(p) ==
    {k \in Keys : Role[p] = "review" /\ surv[p][k] >= SURVIVAL_THRESHOLD}

Blocked ==
    LET capped == CapTripped(fix[idx] + 1)
        judge == /\ Role[idx] = "review"
                 /\ capped \/ Escalated(idx) # {}
                 /\ sa[idx] < MAX_SA_ESCALATIONS IN
    /\ pc = "blocked"
    /\ fix' = [fix EXCEPT ![idx] = @ + 1]
    /\ sa' = IF judge THEN [sa EXCEPT ![idx] = @ + 1] ELSE sa
    /\ Goto(IF judge THEN "sa" ELSE IF capped THEN "fail" ELSE "route")
    /\ UNCHANGED <<disk, idx, result, cycle, tracker, fresh, tried, lost,
                   unanswered, sweeper, budget>>

(* The findings the adjudicator is shown; after a cap trip, all that       *)
(* blocked last.                                                           *)
Docket == Escalated(idx) \cup (IF CapTripped(fix[idx]) THEN prev[idx] ELSE {})

(* Mutant of Adjudicate: the review that runs again after a dismissal      *)
(* counts as if a fix had been tried.                                      *)
AdjudicateKeepsKeys(v) ==
    LET gone == {k \in Docket : v[k] = "dismissed"}
        kept == {k \in Docket : v[k] = "uphold_guidance"}
        fails == gone \cup kept # Docket
        clean == ~fails /\ kept = {} IN
    /\ pc = "sa" /\ Docket # {}
    /\ dismissed' = dismissed \cup gone
    /\ surv' = [surv EXCEPT ![idx] =
                  [k \in Keys |-> IF k \in gone \cup kept THEN 0 ELSE surv[idx][k]]]
    /\ cycle' = IF clean THEN cycle + 1 ELSE cycle
    /\ Goto(IF fails THEN "fail" ELSE IF clean THEN "head" ELSE "route")
    /\ UNCHANGED <<status, recorded, handoff, open, dirty, posted, merged,
                   idx, result, fix, sa, prev, history, sweeper, budget>>

(* _run_sa_adjudication.  A dismissal is on file, and a count reset, even  *)
(* when another verdict fails the ticket.  When everything was dismissed   *)
(* the review runs again at once, and its keys start from nothing.         *)
Adjudicate(v) ==
    LET gone == {k \in Docket : v[k] = "dismissed"}
        kept == {k \in Docket : v[k] = "uphold_guidance"}
        fails == gone \cup kept # Docket
        clean == ~fails /\ kept = {} IN
    /\ pc = "sa" /\ Docket # {}
    /\ dismissed' = dismissed \cup gone
    /\ surv' = [surv EXCEPT ![idx] =
                  [k \in Keys |-> IF k \in gone \cup kept THEN 0 ELSE surv[idx][k]]]
    /\ prev' = IF clean THEN [prev EXCEPT ![idx] = {}] ELSE prev
    /\ cycle' = IF clean THEN cycle + 1 ELSE cycle
    /\ Goto(IF fails THEN "fail" ELSE IF clean THEN "head" ELSE "route")
    /\ UNCHANGED <<status, recorded, handoff, open, dirty, posted, merged,
                   idx, result, fix, sa, history, sweeper, budget>>

(* No finding to show, no role file, an exception or no verdict at all:    *)
(* the adjudication fails closed.                                          *)
AdjudicationFails ==
    /\ pc = "sa" /\ (Docket = {} \/ "sa" \in Faults)
    /\ Goto("fail")
    /\ UNCHANGED <<disk, locals, tracker, history, sweeper, budget>>

(* reviewer_routing: the latest dev phase before the blocked one, if any. *)
MostRecentDev ==
    LET devs == {p \in Phases : p < idx /\ Role[p] = "dev"} IN
    {p \in devs : \A q \in devs : q <= p}

RouteOne(k) == IF Owner[k] \in 1..(idx - 1) THEN {Owner[k]} ELSE MostRecentDev

(* _route_blocked_phase: the earliest phase that owns a finding of the     *)
(* highest cycle on file, else the latest dev phase, if there is one.      *)
FixIdx ==
    LET targets == UNION {RouteOne(k) : k \in posted.keys} IN
    IF posted.keys = {} THEN MostRecentDev
    ELSE {p \in targets : \A q \in targets : p <= q}

Route ==
    /\ pc = "route" /\ FixIdx # {}
    /\ status' = "in_progress" /\ cycle' = cycle + 1
    /\ Goto("recommit")
    /\ UNCHANGED <<recorded, handoff, open, dirty, dismissed, posted, merged,
                   idx, result, fix, sa, tracker, history, sweeper, budget>>

NoRoute ==
    /\ pc = "route" /\ FixIdx = {}
    /\ Goto("fail")
    /\ UNCHANGED <<disk, locals, tracker, history, sweeper, budget>>

(* The commit before the fix round; its result is not looked at. *)
Recommit ==
    /\ pc = "recommit"
    /\ \/ CommitWorktree
       \/ "commit" \in Faults /\ UNCHANGED <<recorded, handoff, open, dirty,
                                             dismissed, posted, merged>>
    /\ idx' \in FixIdx /\ Goto("head")
    /\ UNCHANGED <<status, result, fix, sa, cycle, tracker, history, sweeper,
                   budget>>

-----------------------------------------------------------------------------
(* _on_ticket_completed *)

(* Mutant of Refused: a dirty worktree is merged as it is. *)
NeverRefused == KeepsBranch /\ ~KeepsBranch

(* merge_ticket.  Direct and squash merges refuse a dirty worktree; a      *)
(* feature branch is cut from what is committed.                           *)
Refused == ~KeepsBranch /\ dirty

Merge ==
    /\ pc \in {"merge", "retry"} /\ ~Refused
    /\ merged' = TRUE /\ Goto("finish")
    /\ UNCHANGED <<status, recorded, handoff, open, dirty, dismissed, posted,
                   locals, tracker, history, sweeper, budget>>

MergeFails ==
    /\ pc \in {"merge", "retry"} /\ (Refused \/ "merge" \in Faults)
    /\ Goto("fail")
    /\ UNCHANGED <<disk, locals, tracker, history, sweeper, budget>>

MergeConflicts ==
    /\ pc \in {"merge", "retry"} /\ ~KeepsBranch /\ ~dirty
    /\ "conflict" \in Faults
    /\ Goto(IF pc = "merge" THEN "resolver" ELSE "conflict")
    /\ UNCHANGED <<disk, locals, tracker, history, sweeper, budget>>

(* _try_resolve_conflict: the agent may leave the worktree dirty. *)
ResolverReturns ==
    /\ pc = "resolver"
    /\ dirty' \in BOOLEAN
    /\ pc' \in {"retry", "conflict"}
    /\ UNCHANGED <<status, recorded, handoff, open, dismissed, posted, merged,
                   locals, tracker, history, sweeper, budget>>

GiveUpMerge ==
    /\ pc = "conflict"
    /\ status' = "merge_conflict" /\ Goto("done")
    /\ UNCHANGED <<recorded, handoff, open, dirty, dismissed, posted, merged,
                   locals, tracker, history, sweeper, budget>>

Finish ==
    /\ pc = "finish"
    /\ status' = "resolved" /\ Goto("remove")
    /\ UNCHANGED <<recorded, handoff, open, dirty, dismissed, posted, merged,
                   locals, tracker, history, sweeper, budget>>

(* remove_worktree, with --force *)
RemoveWorktree ==
    /\ pc = "remove"
    /\ dirty' = FALSE /\ lost' = (lost \/ dirty) /\ Goto("done")
    /\ UNCHANGED <<status, recorded, handoff, open, dismissed, posted, merged,
                   locals, tracker, fresh, tried, unanswered, sweeper, budget>>

-----------------------------------------------------------------------------
(* People, and the life of the daemon. *)

(* The answer to a question: the ticket is resumed; the prompt flow        *)
(* resolves only the newest question.                                      *)
Answer ==
    /\ status = "needs_info"
    /\ status' = "in_progress" /\ open' \in {FALSE, open}
    /\ unanswered' = FALSE
    /\ UNCHANGED <<recorded, handoff, dirty, dismissed, posted, merged,
                   pc, locals, tracker, fresh, tried, lost, sweeper, budget>>

SettleEntry ==
    /\ open
    /\ open' = FALSE /\ unanswered' = FALSE
    /\ UNCHANGED <<status, recorded, handoff, dirty, dismissed, posted, merged,
                   pc, locals, tracker, fresh, tried, lost, sweeper, budget>>

(* An evaluator accepts or rejects a handoff. *)
Evaluate(p) ==
    /\ handoff[p] = "pending"
    /\ \E h \in {"accepted", "rejected"} : handoff' = [handoff EXCEPT ![p] = h]
    /\ UNCHANGED <<status, recorded, open, dirty, dismissed, posted, merged,
                   pc, locals, tracker, history, sweeper, budget>>

(* A retry: the status is set to open and the ticket scheduled again, with *)
(* whatever is still open on its thread.                                   *)
Reopen ==
    /\ pc \in {"done", "left", "dead"} /\ reopens < MaxReopens
    /\ reopens' = reopens + 1
    /\ status' = "in_progress" /\ unanswered' = FALSE /\ Goto("queued")
    /\ UNCHANGED <<recorded, handoff, open, dirty, dismissed, posted, merged,
                   locals, tracker, fresh, tried, lost, sweeper,
                   asks, opens, crashes, sweeps>>

(* The process dies: the stores and the worktree remain. *)
Crash ==
    /\ pc # "off" /\ crashes < MaxCrashes
    /\ crashes' = crashes + 1
    /\ Goto("off") /\ sweep' = "idle"
    /\ idx' = 1 /\ result' = "none" /\ fix' = Zero /\ sa' = Zero /\ cycle' = 0
    /\ surv' = Unraised /\ prev' = [p \in Phases |-> {}]
    /\ UNCHANGED <<disk, history, escalated, asks, opens, reopens, sweeps>>

(* _resume_in_progress: in_progress and needs_info tickets get a task, any *)
(* other is left as the crash found it.                                    *)
Restart ==
    /\ pc = "off"
    /\ Goto(IF status \in {"in_progress", "needs_info"} THEN "queued" ELSE "left")
    /\ UNCHANGED <<disk, locals, tracker, history, sweeper, budget>>

-----------------------------------------------------------------------------
(* The deadlock sweep, which looks at every ticket that is not at rest. *)

AtRest == {"resolved", "blocked", "failed", "merge_conflict"}

(* sweep_blocking_entries: the ticket is not at rest, and an entry of its  *)
(* thread has been open for longer than the threshold.                     *)
SweepLists ==
    /\ pc # "off" /\ sweep = "idle" /\ sweeps < MaxSweeps
    /\ status \notin AtRest
    /\ open \/ \E p \in Phases : handoff[p] = "pending"
    /\ sweep' = "listed" /\ sweeps' = sweeps + 1
    /\ UNCHANGED <<disk, pc, locals, tracker, history, escalated,
                   asks, opens, crashes, reopens>>

(* _post_escalation: an escalation is posted, and nothing resolves it.     *)
SweepPosts ==
    /\ sweep = "listed"
    /\ escalated' = TRUE /\ sweep' = "posted"
    /\ UNCHANGED <<disk, pc, locals, tracker, history, budget>>

(* The ticket is moved to needs_info, whatever has become of it meanwhile. *)
SweepFlips ==
    /\ sweep = "posted"
    /\ status' = "needs_info" /\ sweep' = "idle"
    /\ UNCHANGED <<recorded, handoff, open, dirty, dismissed, posted, merged,
                   pc, locals, tracker, history, escalated, budget>>

-----------------------------------------------------------------------------
Verdicts == [Keys -> {"dismissed", "uphold_guidance", "uphold_fail"}]

Agent ==
    \/ AgentEdits
    \/ \E st \in Flags : AgentFlags(st)
    \/ AgentAsks
    \/ AgentHandsOff

Task ==
    \/ Dispatch \/ WorktreeFails \/ Resume \/ StartPhase \/ AllPhasesDone
    \/ AgentReturns \/ AgentRaises \/ Escapes
    \/ \E K \in SUBSET Keys : ReviewBlocks(K)
    \/ \E K \in SUBSET Keys, n \in BOOLEAN : ReviewPasses(K, n)
    \/ ReviewBreaks
    \/ Gate \/ ThreadClears \/ Record \/ Advance \/ Commit \/ CommitFails
    \/ Fail \/ Blocked
    \/ \E v \in Verdicts : Adjudicate(v)
    \/ AdjudicationFails \/ Route \/ NoRoute \/ Recommit
    \/ Merge \/ MergeFails \/ MergeConflicts \/ ResolverReturns
    \/ GiveUpMerge \/ Finish \/ RemoveWorktree

People ==
    \/ Answer \/ SettleEntry
    \/ \E p \in Phases : Evaluate(p)

Sweep == SweepLists \/ SweepPosts \/ SweepFlips

Next == Task \/ Agent \/ People \/ Sweep \/ Reopen \/ Crash \/ Restart

Spec == Init /\ [][Next]_vars

(* The event loop runs a ready task, an agent session ends, a restarted    *)
(* daemon comes up, and questions and handoffs find an answer.             *)
FairSpec == Spec /\ WF_vars(Task) /\ WF_vars(Answer) /\ WF_vars(SettleEntry)
                 /\ WF_vars(\E p \in Phases : Evaluate(p)) /\ WF_vars(Restart)

-----------------------------------------------------------------------------
(* Properties. *)

(* The workflow is walked in order: a phase only runs, and the branch is   *)
(* only merged, when every earlier phase has succeeded since the last run  *)
(* of a phase before it.  A blocked review goes back to an earlier phase   *)
(* and everything from there on is done again (the phase loop and          *)
(* _route_blocked_phase).                                                  *)
PhasesInOrder ==
    pc \in {"agent", "review", "merge", "retry", "finish"} =>
        1..(idx - 1) \subseteq fresh

(* The fix loop is bounded: a phase is entered again after at most         *)
(* max_fix_cycles blocked rounds and one more for each adjudication it was *)
(* granted, of which there are at most MAX_SA_ESCALATIONS in a run of the  *)
(* task.                                                                   *)
RoundsBounded ==
    \A p \in Phases :
        /\ sa[p] <= MAX_SA_ESCALATIONS
        /\ pc \in {"head", "agent", "review", "merge"} =>
              fix[p] <= max_fix_cycles + sa[p]

(* A finding's survival count only grows when a phase other than a review  *)
(* has run since the round of this review that raised it before            *)
(* (_record_blocking_persistence: "the dev attempted a fix and the         *)
(* reviewer re-raised it").                                                *)
SurvivalCountsFixes ==
    [][\A p \in Phases, k \in Keys : surv'[p][k] > surv[p][k] => p \in tried]_vars

(* No agent and no reviewer starts between an agent's question and the     *)
(* operator's answer to it, not even after a restart ("wait for the answer *)
(* BEFORE re-running the phase").  The question is out of the way when it  *)
(* is answered or its entry settled, when the agent that asked gives its   *)
(* phase up (blocked or failed overwrites the pause), or when the ticket   *)
(* is retried.  Not meant is the needs_info that the sweep writes: the     *)
(* head of the loop does not look at the status.                           *)
NeverRunsUnanswered ==
    [][pc = "head" /\ pc' \in {"agent", "review"} => ~unanswered]_vars

(* A worktree is never removed with uncommitted work in it (the auto       *)
(* commit after each phase, the refusal in _do_merge, remove_worktree).    *)
NothingLost == ~lost

(* A ticket whose task has come to an end and that is resolved has been    *)
(* merged, although agents write "resolved" on it all along ("Status       *)
(* transitions are keyed off the merge outcome: clean merge -> RESOLVED",  *)
(* _on_ticket_completed), and however often it was killed, swept or        *)
(* retried.  A ticket that a crash found with its agent's own resolved on  *)
(* it is another matter: the restart leaves it as it is, unmerged          *)
(* (find_in_progress_top_level), and its task never came to an end.        *)
ResolvedMeansMerged == pc = "done" /\ status = "resolved" => merged

(* What the ticket looks like from outside: the phase between its start and *)
(* its record, the phases that succeeded since, the question, and the status *)
(* once the task is over.                                                   *)
AtWork == IF pc \in {"agent", "review", "gate", "thread", "record"} THEN idx ELSE 0
Closed == IF pc = "done" THEN status ELSE "no"
Lifecycle == INSTANCE TicketLifecycle WITH
                Last <- Len(Role), at <- AtWork, passed <- fresh,
                asked <- status = "needs_info", merged <- merged, closed <- Closed

(* A task neither killed, retried nor swept implements the life cycle:     *)
(* through blocked rounds, adjudications, conflicts and whatever statuses  *)
(* agents set, it begins, merges and closes as TicketLifecycle allows.     *)
FollowsLifecycle == Lifecycle!LifeSpec

(* Every run of a ticket ends: bounded rounds, questions that are          *)
(* answered, entries that are settled and handoffs that are judged take    *)
(* the task to one of its exits, an exception takes it away, or a restart  *)
(* leaves it alone.  Only the sweep's own escalation, which nobody can     *)
(* resolve, holds a run for good, at the wait on the thread.               *)
RunEnds ==
    <>[](pc \in {"done", "dead", "left"} \/ (pc = "thread" /\ escalated))

=============================================================================
