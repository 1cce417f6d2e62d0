----------------------------- MODULE Scheduler ------------------------------
(***************************************************************************)
(* Ticket scheduling in jig/orchestrator.py: who starts a ticket, when,    *)
(* and what happens to its dependents when it ends.                        *)
(*                                                                         *)
(* The coroutines ("actors") of one event loop share the ticket statuses,  *)
(* the `_running_tickets` registry and the `_schedule_lock`:               *)
(*   main       startup(): resume what was in progress, start what is      *)
(*              ready, report completion; then the loops are created;      *)
(*   service    the service loop, one bus message at a time;               *)
(*   reconcile  the periodic tick: sweep failed dependencies, start what   *)
(*              is ready;                                                  *)
(*   Slots      the _run_ticket tasks.                                     *)
(* An actor runs alone between two awaits that really suspend: a store     *)
(* write with its bus publish, a contended lock, the agents' work.  Reads  *)
(* of the in-memory store do not suspend.  What a phase does is abstracted *)
(* to how the task ends.                                                   *)
(***************************************************************************)
EXTENDS FiniteSets, Integers

CONSTANTS
    Tickets,
    BlockedBy,     \* [Tickets -> SUBSET Tickets]: Ticket.blocked_by
    Blocks,        \* [Tickets -> SUBSET Tickets]: Ticket.blocks
    Slots,         \* identities for _run_ticket tasks (bounds live tasks)
    MaxParallel,   \* project.max_parallel
    Ends,          \* how a task may end, a subset of TaskEnds
    Created,       \* statuses tickets may have at the start
    Moves,         \* what the operator and agents may do, a subset of AllMoves
    MaxMoves,      \* bound on those moves
    MaxCrashes,    \* bound on process deaths
    None

TaskEnds == {"resolved", "failed", "conflict", "noworkflow", "escape"}
AllMoves == {"create", "approve", "close", "reopen", "ask", "flag"}

(* `blocks` is written after `blocked_by` and by read-modify-write, so it  *)
(* may miss an edge, never invent one.                                     *)
ASSUME SchedulerAssumption ==
    /\ BlockedBy \in [Tickets -> SUBSET Tickets]
    /\ Blocks \in [Tickets -> SUBSET Tickets]
    /\ \A t, d \in Tickets : d \in Blocks[t] => t \in BlockedBy[d]
    /\ MaxParallel \in Nat \ {0} /\ MaxMoves \in Nat /\ MaxCrashes \in Nat
    /\ Ends \subseteq TaskEnds /\ Moves \subseteq AllMoves
    /\ Created \subseteq {"absent", "proposed", "open"}
    /\ None \notin Tickets /\ None \notin Slots
    /\ None \notin {"main", "service", "reconcile"}
    /\ Slots \cap {"main", "service", "reconcile"} = {}

VARIABLES
    status,     \* [Tickets -> Status], "absent" before creation
    running,    \* _running_tickets: [Tickets -> Slots \cup {None}]
    lock,       \* holder of _schedule_lock
    act,        \* what each actor is doing
    inbox,      \* messages on the "orchestrator" topic
    merged,     \* tickets whose branch was merged: what git holds
    flagged,    \* ghost: tickets whose own agent set resolved before that
    escaped,    \* ghost: tickets whose task an exception left in this process
    heard,      \* ghost: whoever ended or failed a ticket last asks the analyzer
    reported,   \* _analyzer_last_terminal_ids
    moves, crashes

ghosts == <<flagged, escaped, heard>>

vars == <<status, running, lock, act, inbox, merged, ghosts, reported, moves, crashes>>

Loops == {"main", "service", "reconcile"}
Actors == Loops \cup Slots

Status == {"absent", "proposed", "open", "in_progress", "needs_info",
           "merge_conflict", "resolved", "failed", "closed"}
Terminal == {"resolved", "failed", "closed"}

(* An actor: `plan` names the loop it is in (and by NextPlan what comes    *)
(* after), `todo` the tickets left in that loop's snapshot, `pc` where it  *)
(* is suspended, `t` the ticket in hand; `front`, `seen` and `d` belong to *)
(* the walk of _cascade_fail_dependents, `dirty` is the sweep's failed_any.*)
Off == [pc |-> "off", plan |-> "idle", todo |-> {}, t |-> None,
        front |-> {}, seen |-> {}, d |-> None, dirty |-> FALSE]

(* "resolved": _unblock_dependents, then the ready-scan and the analyzer;  *)
(* "failed": the cascade, then the same; "sweep": the reconcile tick, then *)
(* the ready-scan; "scan": a ready-scan, "report" one with the analyzer;   *)
(* "single": the one ticket of a bus message.                              *)
NextPlan == [resolved |-> "report", failed |-> "report", sweep |-> "scan",
             scan |-> "idle", report |-> "idle", single |-> "idle"]

Plans == {"idle", "resolved", "failed", "sweep", "scan", "report", "single"}

PCs == {"off", "loop", "want", "write", "register", "fail", "walk", "walkfail",
        "work", "ended"}

ActorStates ==
    [pc : PCs, plan : Plans, todo : SUBSET Tickets, t : Tickets \cup {None},
     front : SUBSET Tickets, seen : SUBSET Tickets, d : Tickets \cup {None},
     dirty : BOOLEAN]

Messages == {"created", "reopened"} \X Tickets

-----------------------------------------------------------------------------
(* find_ready(): open tickets whose dependencies are all resolved. *)
Ready == {t \in Tickets : /\ status[t] = "open"
                          /\ \A d \in BlockedBy[t] : status[d] = "resolved"}

NumRunning == Cardinality({t \in Tickets : running[t] # None})

(* _maybe_run_analyzer() over given registry and statuses: no ticket runs, *)
(* every ticket is terminal, and this set of ids was not reported before.  *)
Analyzed(run, st) ==
    LET ids == {t \in Tickets : st[t] # "absent"}
    IN  IF /\ \A t \in Tickets : run[t] = None
           /\ ids # {}
           /\ \A t \in ids : st[t] \in Terminal
        THEN ids
        ELSE reported

(* Starting the loop the plan names, on a snapshot of tickets. *)
Enter(plan) ==
    IF plan = "idle" THEN Off
    ELSE [Off EXCEPT !.pc = "loop", !.plan = plan,
            !.todo = IF plan = "sweep" THEN {t \in Tickets : status[t] # "absent"}
                     ELSE Ready]

Set(a, r) == act' = [act EXCEPT ![a] = r]

(* The ticket in hand is dealt with: back to the head of the loop. *)
Done(a) == [act[a] EXCEPT !.pc = "loop", !.todo = @ \ {act[a].t},
                          !.t = None, !.front = {}, !.seen = {}]

-----------------------------------------------------------------------------
(* The bodies of the loops, up to the next suspension. *)

(* _unblock_dependents: dependents that are no longer open are skipped. *)
UnblockOne(a, t) ==
    /\ act[a].plan = "resolved"
    /\ Set(a, IF status[t] = "open" THEN [act[a] EXCEPT !.pc = "want", !.t = t]
              ELSE [act[a] EXCEPT !.todo = @ \ {t}])

(* _start_ready_tickets: stop at the cap, skip what is already running. *)
ReadyOne(a, t) ==
    /\ act[a].plan \in {"scan", "report"}
    /\ Set(a, IF NumRunning >= MaxParallel THEN [act[a] EXCEPT !.todo = {}]
              ELSE IF running[t] # None THEN [act[a] EXCEPT !.todo = @ \ {t}]
              ELSE [act[a] EXCEPT !.pc = "want", !.t = t])

(* The service loop's _handle_schedule of the one ticket of its message. *)
SingleOne(a, t) ==
    /\ act[a].plan = "single"
    /\ Set(a, [act[a] EXCEPT !.pc = "want", !.t = t])

(* Mutant of SweepOne: the tick does not look at failed dependencies. *)
SweepOneSkips(a, t) ==
    /\ act[a].plan = "sweep"
    /\ Set(a, [act[a] EXCEPT !.todo = @ \ {t}])

(* _sweep_failed_dependencies: an idle open ticket behind a failed one. *)
SweepOne(a, t) ==
    /\ act[a].plan = "sweep"
    /\ Set(a, IF /\ status[t] = "open" /\ running[t] = None
                 /\ \E d \in BlockedBy[t] : status[d] = "failed"
              THEN [act[a] EXCEPT !.pc = "fail", !.t = t, !.dirty = TRUE]
              ELSE [act[a] EXCEPT !.todo = @ \ {t}])

LoopBody(a) ==
    /\ act[a].pc = "loop"
    /\ \E t \in act[a].todo :
          UnblockOne(a, t) \/ ReadyOne(a, t) \/ SingleOne(a, t) \/ SweepOne(a, t)
    /\ UNCHANGED <<status, running, lock, inbox, merged, reported, moves, crashes, ghosts>>

(* Mutant of LoopEnd: only the sweep asks for the analyzer. *)
LoopEndSilent(a) ==
    /\ act[a].pc = "loop"
    /\ act[a].todo = {}
    /\ Set(a, Enter(NextPlan[act[a].plan]))
    /\ reported' = IF act[a].dirty THEN Analyzed(running, status) ELSE reported
    /\ UNCHANGED <<status, running, lock, inbox, merged, moves, crashes, ghosts>>

(* The loop is over: the next loop of the plan takes its snapshot; a       *)
(* trailing _maybe_run_analyzer runs; the actor goes off.                  *)
LoopEnd(a) ==
    /\ act[a].pc = "loop"
    /\ act[a].todo = {}
    /\ Set(a, Enter(NextPlan[act[a].plan]))
    /\ reported' = IF act[a].plan = "report" \/ act[a].dirty
                   THEN Analyzed(running, status) ELSE reported
    /\ UNCHANGED <<status, running, lock, inbox, merged, moves, crashes, ghosts>>

-----------------------------------------------------------------------------
(* _handle_schedule(t), under _schedule_lock from its checks to the        *)
(* registration.  It looks at the registry and the dependencies, not at    *)
(* the ticket's own status.                                                *)
ScheduleSkips(a) ==
    LET t == act[a].t IN
    /\ act[a].pc = "want" /\ lock = None
    /\ \/ running[t] # None
       \/ status[t] = "absent"
       \/ \E d \in BlockedBy[t] : status[d] \notin {"resolved", "failed"}
    /\ Set(a, Done(a))
    /\ UNCHANGED <<status, running, lock, inbox, merged, reported, moves, crashes, ghosts>>

ScheduleFails(a) ==
    LET t == act[a].t IN
    /\ act[a].pc = "want" /\ lock = None
    /\ running[t] = None /\ status[t] # "absent"
    /\ \E d \in BlockedBy[t] : status[d] = "failed"
    /\ lock' = a
    /\ Set(a, [act[a] EXCEPT !.pc = "fail"])
    /\ UNCHANGED <<status, running, inbox, merged, reported, moves, crashes, ghosts>>

(* Mutants of ScheduleAccepts: any dependency that has not failed will do; *)
(* the registry is not looked at; the lock is not waited for.              *)
AcceptsUnmet(a) ==
    LET t == act[a].t IN
    /\ act[a].pc = "want" /\ lock = None
    /\ running[t] = None /\ status[t] # "absent"
    /\ \A d \in BlockedBy[t] : status[d] # "failed"
    /\ lock' = a
    /\ Set(a, [act[a] EXCEPT !.pc = "write"])
    /\ UNCHANGED <<status, running, inbox, merged, reported, moves, crashes, ghosts>>

AcceptsTwice(a) ==
    LET t == act[a].t IN
    /\ act[a].pc = "want" /\ lock = None
    /\ status[t] # "absent"
    /\ \A d \in BlockedBy[t] : status[d] = "resolved"
    /\ lock' = a
    /\ Set(a, [act[a] EXCEPT !.pc = "write"])
    /\ UNCHANGED <<status, running, inbox, merged, reported, moves, crashes, ghosts>>

AcceptsUnlocked(a) ==
    LET t == act[a].t IN
    /\ act[a].pc = "want"
    /\ running[t] = None /\ status[t] # "absent"
    /\ \A d \in BlockedBy[t] : status[d] = "resolved"
    /\ lock' = a
    /\ Set(a, [act[a] EXCEPT !.pc = "write"])
    /\ UNCHANGED <<status, running, inbox, merged, reported, moves, crashes, ghosts>>

ScheduleAccepts(a) ==
    LET t == act[a].t IN
    /\ act[a].pc = "want" /\ lock = None
    /\ running[t] = None /\ status[t] # "absent"
    /\ \A d \in BlockedBy[t] : status[d] = "resolved"
    /\ lock' = a
    /\ Set(a, [act[a] EXCEPT !.pc = "write"])
    /\ UNCHANGED <<status, running, inbox, merged, reported, moves, crashes, ghosts>>

(* The IN_PROGRESS write lands. *)
ScheduleWrites(a) ==
    /\ act[a].pc = "write"
    /\ status' = [status EXCEPT ![act[a].t] = "in_progress"]
    /\ Set(a, [act[a] EXCEPT !.pc = "register"])
    /\ UNCHANGED <<running, lock, inbox, merged, reported, moves, crashes, ghosts>>

(* After publish and emit: the task is created (in any free slot) and      *)
(* registered.                                                             *)
FreeSlots == {s \in Slots : act[s].pc = "off"}

ScheduleRegisters(a) ==
    LET t == act[a].t
        s == CHOOSE s \in Slots : s \in FreeSlots IN
    /\ act[a].pc = "register"
    /\ FreeSlots # {}
    /\ running' = [running EXCEPT ![t] = s]
    /\ act' = [act EXCEPT ![a] = Done(a),
                          ![s] = [Off EXCEPT !.pc = "work", !.t = t]]
    /\ lock' = None
    /\ UNCHANGED <<status, inbox, merged, reported, moves, crashes, ghosts>>

(* _cascade_fail_unreachable_ticket: FAILED for t, then its dependents. *)
FailWrites(a) ==
    LET t == act[a].t IN
    /\ act[a].pc = "fail"
    /\ status' = [status EXCEPT ![t] = "failed"]
    /\ Set(a, [act[a] EXCEPT !.pc = "walk", !.front = {t}, !.seen = {t}])
    /\ heard' = TRUE /\ UNCHANGED <<flagged, escaped>>
    /\ UNCHANGED <<running, lock, inbox, merged, reported, moves, crashes>>

(* _cascade_fail_dependents: the dependents of what has failed so far,     *)
(* each looked at once; only idle open ones are failed.                    *)
Frontier(a) == {d \in Tickets \ act[a].seen :
                  \E t \in act[a].front : d \in Blocks[t]}

WalkLooks(a, d) ==
    /\ act[a].pc = "walk"
    /\ d \in Frontier(a)
    /\ Set(a, IF status[d] = "open" /\ running[d] = None
              THEN [act[a] EXCEPT !.pc = "walkfail", !.d = d]
              ELSE [act[a] EXCEPT !.seen = @ \cup {d}])
    /\ UNCHANGED <<status, running, lock, inbox, merged, reported, moves, crashes, ghosts>>

WalkWrites(a) ==
    LET d == act[a].d IN
    /\ act[a].pc = "walkfail"
    /\ status' = [status EXCEPT ![d] = "failed"]
    /\ Set(a, [act[a] EXCEPT !.pc = "walk", !.d = None,
                             !.front = @ \cup {d}, !.seen = @ \cup {d}])
    /\ heard' = TRUE /\ UNCHANGED <<flagged, escaped>>
    /\ UNCHANGED <<running, lock, inbox, merged, reported, moves, crashes>>

(* The walk is over.  In _on_ticket_failed the ready-scan follows, in      *)
(* _handle_schedule the analyzer check and the release of the lock, in the *)
(* sweep the next ticket.                                                  *)
WalkEnds(a) ==
    /\ act[a].pc = "walk"
    /\ Frontier(a) = {}
    /\ Set(a, IF act[a].plan = "failed" THEN Enter("report")
              ELSE Done(a))
    /\ reported' = IF lock = a THEN Analyzed(running, status) ELSE reported
    /\ lock' = IF lock = a THEN None ELSE lock
    /\ UNCHANGED <<status, running, inbox, merged, moves, crashes, ghosts>>

-----------------------------------------------------------------------------
(* The end of a _run_ticket task. *)

(* Mutant of TaskWrites: the outcome is stored as if it were a status. *)
TaskWritesRaw(s, end) ==
    /\ act[s].pc = "work"
    /\ status[act[s].t] # "needs_info"
    /\ status' = [status EXCEPT ![act[s].t] = end]
    /\ Set(s, [act[s] EXCEPT !.pc = "ended", !.plan = "scan"])
    /\ merged' = IF end = "resolved" THEN merged \cup {act[s].t} ELSE merged
    /\ UNCHANGED <<running, lock, inbox, reported, moves, crashes, ghosts>>

(* The final status write: _on_ticket_completed with the merge before it,  *)
(* any of the failure exits, or the missing-workflow exit.  A task that    *)
(* waits for an answer does not end.                                       *)
TaskWrites(s, end) ==
    /\ act[s].pc = "work"
    /\ status[act[s].t] # "needs_info"
    /\ status' = [status EXCEPT ![act[s].t] =
                    CASE end = "resolved" -> "resolved"
                      [] end = "conflict" -> "merge_conflict"
                      [] OTHER -> "failed"]
    /\ Set(s, [act[s] EXCEPT !.pc = "ended",
                 !.plan = CASE end = "conflict" -> "scan"
                            [] end = "noworkflow" -> "idle"
                            [] OTHER -> end])
    /\ merged' = IF end = "resolved" THEN merged \cup {act[s].t} ELSE merged
    /\ UNCHANGED <<running, lock, inbox, reported, moves, crashes, ghosts>>

(* The registry entry is popped, by ticket, and the follow-up begins. *)
TaskPops(s) ==
    LET t == act[s].t
        plan == act[s].plan IN
    /\ act[s].pc = "ended"
    /\ running' = [running EXCEPT ![t] = None]
    /\ Set(s, CASE plan = "resolved" -> [Off EXCEPT !.pc = "loop", !.plan = plan,
                                                    !.todo = Blocks[t]]
                [] plan = "failed" -> [Off EXCEPT !.pc = "walk", !.plan = plan,
                                                  !.front = {t}, !.seen = {t}]
                [] OTHER -> Enter(plan))
    /\ heard' = (plan \in {"resolved", "failed"}) /\ UNCHANGED <<flagged, escaped>>
    /\ UNCHANGED <<status, lock, inbox, merged, reported, moves, crashes>>

(* An exception leaves _run_ticket (a role file is missing, the review     *)
(* federation re-raises): _ticket_task_done logs it, nothing else happens. *)
TaskEscapes(s) ==
    /\ act[s].pc = "work"
    /\ status[act[s].t] # "needs_info"
    /\ "escape" \in Ends
    /\ Set(s, Off)
    /\ escaped' = escaped \cup {act[s].t}
    /\ UNCHANGED <<status, running, lock, inbox, merged, reported, moves, crashes,
                   flagged, heard>>

TaskEnding(s) ==
    \/ \E end \in Ends \ {"escape"} : TaskWrites(s, end)
    \/ TaskEscapes(s)

-----------------------------------------------------------------------------
(* The loops that wake up by themselves, once startup() has created them. *)
Started == act["main"].pc = "off"

ServiceTakes(kind, t) ==
    /\ Started /\ act["service"].pc = "off"
    /\ <<kind, t>> \in inbox
    /\ inbox' = inbox \ {<<kind, t>>}
    /\ running' = IF kind = "reopened" THEN [running EXCEPT ![t] = None] ELSE running
    /\ Set("service", [Off EXCEPT !.pc = "loop", !.plan = "single",
                                  !.todo = {t}])
    /\ UNCHANGED <<status, lock, merged, reported, moves, crashes, ghosts>>

ReconcileTick ==
    /\ Started /\ act["reconcile"].pc = "off"
    /\ Set("reconcile", Enter("sweep"))
    /\ UNCHANGED <<status, running, lock, inbox, merged, reported, moves, crashes, ghosts>>

(* startup() on what the ticket file says: a task for every ticket that    *)
(* was in progress, then the ready-scan.  Bus messages do not survive.     *)
Boot ==
    LET resumed == {t \in Tickets : status[t] \in {"in_progress", "needs_info"}}
        Fits(f) == \A t, u \in resumed : t # u => f[t] # f[u]
        slot == CHOOSE f \in [resumed -> Slots] : Fits(f) IN
    /\ \E f \in [resumed -> Slots] : Fits(f)
    /\ running' = [t \in Tickets |-> IF t \in resumed THEN slot[t] ELSE None]
    /\ act' = [a \in Actors |->
                  IF a = "main" THEN Enter("report")
                  ELSE IF \E t \in resumed : slot[t] = a
                  THEN [Off EXCEPT !.pc = "work",
                          !.t = CHOOSE t \in resumed : slot[t] = a]
                  ELSE Off]

Crash ==
    /\ crashes < MaxCrashes
    /\ crashes' = crashes + 1
    /\ Boot
    /\ lock' = None /\ inbox' = {} /\ reported' = {}
    /\ escaped' = {} /\ heard' = TRUE /\ UNCHANGED flagged
    /\ UNCHANGED <<status, merged, moves>>

-----------------------------------------------------------------------------
(* The operator and the agents, through the stores and the bus. *)
Move(kind) == kind \in Moves /\ moves < MaxMoves /\ moves' = moves + 1

Create(t) ==
    /\ Move("create")
    /\ status[t] = "absent" /\ \A d \in BlockedBy[t] : status[d] # "absent"
    /\ status' = [status EXCEPT ![t] = "open"]
    /\ inbox' = inbox \cup {<<"created", t>>}
    /\ UNCHANGED <<running, lock, act, merged, reported, crashes, ghosts>>

Approve(t) ==
    /\ Move("approve")
    /\ status[t] = "proposed"
    /\ status' = [status EXCEPT ![t] = "open"]
    /\ UNCHANGED <<running, lock, act, inbox, merged, reported, crashes, ghosts>>

Close(t) ==
    /\ Move("close")
    /\ status[t] \notin Terminal \cup {"absent"}
    /\ status' = [status EXCEPT ![t] = "closed"]
    /\ heard' = FALSE /\ UNCHANGED <<flagged, escaped>>
    /\ UNCHANGED <<running, lock, act, inbox, merged, reported, crashes>>

Reopen(t) ==
    /\ Move("reopen")
    /\ status[t] \in {"failed", "closed", "merge_conflict"}
    /\ status' = [status EXCEPT ![t] = "open"]
    /\ inbox' = inbox \cup {<<"reopened", t>>}
    /\ UNCHANGED <<running, lock, act, merged, reported, crashes, ghosts>>

Ask(s) ==
    /\ Move("ask")
    /\ act[s].pc = "work" /\ status[act[s].t] = "in_progress"
    /\ status' = [status EXCEPT ![act[s].t] = "needs_info"]
    /\ UNCHANGED <<running, lock, act, inbox, merged, reported, crashes, ghosts>>

(* "Agents set "resolved" to signal phase completion" (update_ticket, as    *)
(* the role prompts tell them to); before the next phase _run_ticket sets  *)
(* the ticket back in progress.                                            *)
Flag(s) ==
    /\ Move("flag")
    /\ act[s].pc = "work" /\ status[act[s].t] = "in_progress"
    /\ status' = [status EXCEPT ![act[s].t] = "resolved"]
    /\ flagged' = flagged \cup {act[s].t} /\ UNCHANGED <<escaped, heard>>
    /\ UNCHANGED <<running, lock, act, inbox, merged, reported, crashes>>

NextPhase(s) ==
    /\ act[s].pc = "work" /\ status[act[s].t] = "resolved"
    /\ status' = [status EXCEPT ![act[s].t] = "in_progress"]
    /\ UNCHANGED <<running, lock, act, inbox, merged, reported, moves, crashes, ghosts>>

Answer(t) ==
    /\ status[t] = "needs_info"
    /\ status' = [status EXCEPT ![t] = "in_progress"]
    /\ UNCHANGED <<running, lock, act, inbox, merged, reported, moves, crashes, ghosts>>

-----------------------------------------------------------------------------
Init ==
    /\ status \in [Tickets -> Created]
    /\ \A t \in Tickets : status[t] # "absent" =>
          \A d \in BlockedBy[t] : status[d] # "absent"
    /\ running = [t \in Tickets |-> None]
    /\ lock = None
    /\ act = [a \in Actors |->
               IF a = "main" THEN Enter("report") ELSE Off]
    /\ inbox = {} /\ merged = {} /\ reported = {} /\ moves = 0 /\ crashes = 0
    /\ flagged = {} /\ escaped = {} /\ heard = TRUE

Step(a) ==
    \/ LoopBody(a)
    \/ LoopEnd(a)
    \/ ScheduleSkips(a)
    \/ ScheduleFails(a)
    \/ ScheduleAccepts(a)
    \/ ScheduleWrites(a)
    \/ ScheduleRegisters(a)
    \/ FailWrites(a)
    \/ \E d \in Tickets : WalkLooks(a, d)
    \/ WalkWrites(a)
    \/ WalkEnds(a)

Operator ==
    \/ \E t \in Tickets : Create(t) \/ Approve(t) \/ Close(t) \/ Reopen(t) \/ Answer(t)
    \/ \E s \in Slots : Ask(s) \/ Flag(s) \/ NextPhase(s)

Service == \E m \in Messages : ServiceTakes(m[1], m[2])

Next ==
    \/ \E a \in Actors : Step(a)
    \/ \E s \in Slots : TaskEnding(s) \/ TaskPops(s)
    \/ Service
    \/ ReconcileTick
    \/ Operator
    \/ Crash

Spec == Init /\ [][Next]_vars

(* asyncio resumes every coroutine that can go on, the reconcile timer     *)
(* fires again and again, and agents end.                                  *)
FairSpec ==
    /\ Spec
    /\ \A a \in Actors : WF_vars(Step(a))
    /\ \A s \in Slots : WF_vars(TaskEnding(s)) /\ WF_vars(TaskPops(s))
    /\ WF_vars(Service)
    /\ WF_vars(ReconcileTick)

-----------------------------------------------------------------------------
TypeOK ==
    /\ status \in [Tickets -> Status]
    /\ running \in [Tickets -> Slots \cup {None}]
    /\ lock \in Actors \cup {None}
    /\ act \in [Actors -> ActorStates]
    /\ inbox \subseteq Messages
    /\ merged \in SUBSET Tickets /\ reported \in SUBSET Tickets
    /\ flagged \in SUBSET Tickets /\ escaped \in SUBSET Tickets /\ heard \in BOOLEAN
    /\ moves \in 0..MaxMoves /\ crashes \in 0..MaxCrashes

Working(s, t) == act[s].pc = "work" /\ act[s].t = t

(* "`depends_on` listing IDs of tickets that must complete first"          *)
(* (defaults/roles/pm.yaml): no agent works on a ticket before each thing  *)
(* it depends on is merged, or was called resolved by the agent that       *)
(* worked on it.  The second does happen: update_ticket lets an agent set  *)
(* resolved at the end of any phase, and _handle_schedule takes it.  It is *)
(* the only way, whatever other actors, writes in between, closures,       *)
(* crashes and resumed tickets do to the statuses _handle_schedule reads.  *)
DependenciesMerged ==
    \A s \in Slots, t \in Tickets :
        Working(s, t) => BlockedBy[t] \subseteq merged \cup flagged

(* "one _run_ticket task per in-flight top-level ticket" (Orchestrator):   *)
(* two tasks never work on one ticket, in one worktree, at the same time.  *)
OneTaskPerTicket ==
    \A t \in Tickets, r, s \in Slots : Working(r, t) /\ Working(s, t) => r = s

(* Whoever passed the checks holds the lock and nobody else registered the *)
(* ticket meanwhile: the registry entry written is never an overwrite.     *)
RegistersOnce ==
    \A a \in Actors : act[a].pc \in {"write", "register"} =>
        lock = a /\ running[act[a].t] = None

(* An exception left the task of t: the registry keeps its entry, and so   *)
(* long as this process lives nobody works on t or starts it again.        *)
Abandoned(t) == t \in escaped /\ running[t] # None

(* The entries left behind count against the cap, too.                     *)
CapUsedUp == Cardinality({t \in Tickets : Abandoned(t)}) >= MaxParallel

(* Nothing will be done about a ticket any more: it is terminal, waits for *)
(* a merge by hand, was abandoned, or is open behind a ticket that will    *)
(* not resolve.                                                            *)
Settled(t) ==
    \/ status[t] \in Terminal \cup {"merge_conflict"}
    \/ Abandoned(t)
    \/ /\ status[t] = "open"
       /\ \/ \E d \in BlockedBy[t] : status[d] \in {"merge_conflict", "closed", "open"}
          \/ \E d \in BlockedBy[t] : Abandoned(d)
          \/ CapUsedUp

(* However tasks end (exceptions that escape them and missing workflows    *)
(* included), whatever agents and operators flag and close and wherever    *)
(* the process dies, every ticket comes to rest: resolved, closed, failed, *)
(* stuck behind a merge conflict, a closed ticket or one that is stuck     *)
(* itself; or else an exception escaped from its task, or from that of     *)
(* one it waits for, or from as many tasks as the cap allows.  None stays  *)
(* in progress with a registry entry that somebody could remove, none      *)
(* ready below the cap, none behind a failed dependency.                   *)
EverythingSettles == <>[](\A t \in Tickets : Settled(t))

(* "Fire the post-run analyzer when all tickets reach terminal state"      *)
(* (_maybe_run_analyzer), where somebody asks for it: if all tickets stay  *)
(* terminal, the registry stays empty, and the last ticket that was ended, *)
(* failed or closed was one whose task resolved or failed, or one a        *)
(* cascade or a restart dealt with, then completion has been reported for  *)
(* exactly these tickets, whoever else was then between a status write     *)
(* and its registry pop.  (Nobody asks after an operator closes a ticket,  *)
(* after a missing workflow or a merge conflict ends one; and the entry of *)
(* an escaped exception keeps the registry from ever being empty.)         *)
AllTerminal == \A t \in Tickets : status[t] \in Terminal /\ running[t] = None
CompletionReported ==
    <>[](AllTerminal /\ heard) => <>[](reported = Tickets)

=============================================================================
