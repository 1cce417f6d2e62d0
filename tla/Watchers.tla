------------------------------ MODULE Watchers ------------------------------
(***************************************************************************)
(* The orchestrator watching its own work: the stall detector and the loop  *)
(* that acts on it, the reconcile tick with its stuck-project watchdog, the  *)
(* tier promotion of a ticket whose agent ended blocked, and how the whole    *)
(* is shut down, reset and started again.                                     *)
(*                                                                            *)
(* Time is a bounded clock that the thresholds are counted in.  Store reads   *)
(* do not suspend, writes wait for the store's lock in the order they came.   *)
(* What a ticket's task does in between is the Scheduler's and TicketRun's.   *)
(***************************************************************************)
EXTENDS Naturals, Sequences, FiniteSets, Functions

CONSTANTS
  AgentRuns,      \* identities of _run_agent_with_analytics calls
  KeyOf,          \* run -> [ticket, role]: its agent_key
  WatchTickets,
  WatchDeps,      \* blocked_by
  Notable,        \* tickets labelled review-notable
  GapAfter, WallAfter, AskAfter, Cooldown,   \* StallThresholds
  StuckGrace,     \* STUCK_GRACE_SECONDS
  DriftAfter,     \* minutes from a spawn to no_commit_drift or forced reflection
  HookFailures,   \* tickets whose per-commit failures were loaded at startup
  MaxTime, MaxStarted, MaxWatchMoves, MaxResets   \* bounds

ASSUME WatchAssumption ==
  /\ KeyOf \in [AgentRuns -> [ticket : WatchTickets, role : STRING]]
  /\ WatchDeps \in [WatchTickets -> SUBSET WatchTickets] /\ Notable \subseteq WatchTickets
  /\ {GapAfter, WallAfter, AskAfter, Cooldown, StuckGrace, DriftAfter,
      MaxTime, MaxStarted, MaxWatchMoves, MaxResets} \subseteq Nat

VARIABLES
  clock,
  orch,        \* the orchestrator: "down", "starting", "up" or "closing"
  run,         \* run -> [at, status]
  started,     \* runs started so far
  beat,        \* last_heartbeat_at
  flight,      \* in_flight_agents: key -> start
  asked,       \* needs_info_since: ticket -> since
  stall,       \* the stall loop: [at, last]
  st,          \* the tickets' statuses in memory
  tasks,       \* _running_tickets
  stuckSince,  \* _stuck_since
  stuckFor,    \* _stuck_emitted_for
  quiet,       \* ghost: the first of the ticks that saw no life since the last that did
  told,        \* ghost: the tickets announced since then
  misjudged,   \* ghost: a tick that announced too early, too late or not at all
  tier,        \* dev_tier
  peak,        \* ghost: the highest tier a ticket ever had
  spawned,     \* when the ticket's last agent_spawned event was
  writes,      \* tier updates waiting for the store's lock
  watchMoves, resets

runVars == <<run, started, flight, beat>>
ticketVars == <<st, tasks, asked>>
stuckVars == <<stuckSince, stuckFor, quiet, told, misjudged>>
tierVars == <<tier, peak, spawned, writes>>
watchVars == <<clock, orch, runVars, stall, ticketVars, stuckVars, tierVars, watchMoves, resets>>

Never == MaxTime + 1
Since(t) == clock - t
Statuses == {"proposed", "open", "in_progress", "blocked", "needs_info",
             "merge_conflict", "resolved", "failed", "closed"}
RunAt == {"idle", "setup", "pulsing", "stopping", "promoting"}
RunStatuses == {"success", "blocked", "failed"}
NotRunning == [at |-> "idle", status |-> "failed"]
With(f, k, v) == [x \in DOMAIN f \cup {k} |-> IF x = k THEN v ELSE f[x]]
IfAbsent(f, k, v) == IF k \in DOMAIN f THEN f ELSE With(f, k, v)
Without(f, k) == Restrict(f, DOMAIN f \ {k})

-----------------------------------------------------------------------------
(* An agent's run, as far as it is watched. *)

\* record_agent_start, after AgentSpawned is emitted and the services are up.
StartRun(r) ==
  /\ orch \in {"starting", "up"} /\ run[r].at = "idle" /\ started < MaxStarted /\ started' = started + 1
  /\ run' = [run EXCEPT ![r] = [at |-> "setup", status |-> "failed"]]
  /\ flight' = IfAbsent(flight, KeyOf[r], clock) /\ beat' = clock
  /\ spawned' = [spawned EXCEPT ![KeyOf[r].ticket] = clock]
  /\ UNCHANGED <<clock, orch, stall, ticketVars, stuckVars, tier, peak, writes, watchMoves, resets>>

\* The heartbeat task is created when the prompt, tools and sandbox are ready.
BeginPulse(r) ==
  /\ run[r].at = "setup" /\ run' = [run EXCEPT ![r].at = "pulsing"]
  /\ UNCHANGED <<clock, orch, started, flight, beat, stall, ticketVars, stuckVars, tierVars, watchMoves, resets>>
\* Mutant: the run does not wait for its heartbeat task.
PulsesOn(r) == run[r].at = "pulsing" \/ (run[r].at = "idle" /\ started > 0)
Pulses(r) == run[r].at = "pulsing"
\* record_heartbeat
Pulse(r) ==
  /\ Pulses(r) /\ beat' = clock /\ flight' = IfAbsent(flight, KeyOf[r], clock)
  /\ <<beat', flight'>> # <<beat, flight>>
  /\ UNCHANGED <<clock, orch, run, started, stall, ticketVars, stuckVars, tierVars, watchMoves, resets>>
\* The run ends: heartbeat_done is set and the heartbeat task awaited.
StopPulse(r, status) ==
  /\ run[r].at \in {"setup", "pulsing"}
  /\ run' = [run EXCEPT ![r] = [at |-> "stopping", status |-> status]]
  /\ UNCHANGED <<clock, orch, started, flight, beat, stall, ticketVars, stuckVars, tierVars, watchMoves, resets>>

-----------------------------------------------------------------------------
(* Tier promotion. *)

Tiers == {"standard", "senior", "sa"}
Rank == [standard |-> 0, senior |-> 1, sa |-> 2]
Ladder == [standard |-> "senior", senior |-> "sa"]
\* check_escalation_signals: per-commit failures of one contract, then the age
\* of the ticket's latest spawn.  Nothing emits ToolCalled, so flailing and
\* out_of_budget never show.
Signalled(t) == t \in HookFailures \/ (spawned[t] # Never /\ Since(spawned[t]) >= DriftAfter)
\* decide_promotion
Target(t) == IF Signalled(t) /\ tier[t] \in DOMAIN Ladder THEN {Ladder[tier[t]]} ELSE {}
\* promote_ticket_tier writes unless the ticket already has the tier.
Promotions(t, status) ==
  IF status = "blocked" /\ orch # "down" /\ st[t] \in {"open", "in_progress"} THEN Target(t) ELSE {}

\* record_agent_done, then _maybe_promote_tier_after_blocked.
EndRun(r) ==
  LET t == KeyOf[r].ticket  to == Promotions(t, run[r].status) IN
  /\ run[r].at = "stopping"
  /\ flight' = Without(flight, KeyOf[r])
  /\ run' = [run EXCEPT ![r] = IF to = {} THEN NotRunning ELSE [@ EXCEPT !.at = "promoting"]]
  /\ writes' = IF to = {} THEN writes ELSE Append(writes, [run |-> r, ticket |-> t, tier |-> CHOOSE x \in to : TRUE])
  /\ UNCHANGED <<clock, orch, started, beat, stall, ticketVars, stuckVars, tier, peak, spawned, watchMoves, resets>>

\* asyncio.Lock wakes its waiters in order.
\* Mutant: the store's waiters are woken in any other order.
LastWrite == Len(writes)
NextWrite == 1
Higher(a, b) == IF Rank[a] < Rank[b] THEN b ELSE a
StoreWrites ==
  LET i == NextWrite  w == writes[i] IN
  /\ writes # <<>>
  /\ tier' = [tier EXCEPT ![w.ticket] = w.tier]
  /\ peak' = [peak EXCEPT ![w.ticket] = Higher(@, w.tier)]
  /\ run' = [run EXCEPT ![w.run] = IF @.at = "promoting" THEN NotRunning ELSE @]
  /\ writes' = [j \in 1..(Len(writes) - 1) |-> writes[IF j < i THEN j ELSE j + 1]]
  /\ UNCHANGED <<clock, orch, started, flight, beat, stall, ticketVars, stuckVars, spawned, watchMoves, resets>>

-----------------------------------------------------------------------------
(* _run_stall_loop *)

ActiveAgents == DOMAIN flight

\* check(): the first signal that trips.
Verdict ==
  CASE ActiveAgents # {} /\ beat # Never /\ Since(beat) > GapAfter -> "heartbeat_gap"
    [] OTHER -> IF \E k \in ActiveAgents : Since(flight[k]) > WallAfter THEN "wall_time"
                ELSE IF \E t \in DOMAIN asked : Since(asked[t]) > AskAfter THEN "unanswered" ELSE "none"
Cooling == stall.last # Never /\ Since(stall.last) < Cooldown
\* A poll that says something notes the time; only a gap is acted on, in a thread.
StallPoll ==
  /\ orch = "up" /\ stall.at = "sleep" /\ Verdict # "none" /\ ~Cooling
  /\ stall' = [at |-> IF Verdict = "heartbeat_gap" THEN "killing" ELSE "sleep", last |-> clock]
  /\ UNCHANGED <<clock, orch, runVars, ticketVars, stuckVars, tierVars, watchMoves, resets>>
\* _kill_orphan_claude_processes: every claude that works in a worktree by now.
KillScan ==
  /\ stall.at = "killing" /\ stall' = [stall EXCEPT !.at = "sleep"]
  /\ run' = [r \in AgentRuns |-> IF run[r].at = "pulsing" THEN [at |-> "stopping", status |-> "failed"] ELSE run[r]]
  /\ UNCHANGED <<clock, orch, started, flight, beat, ticketVars, stuckVars, tierVars, watchMoves, resets>>

-----------------------------------------------------------------------------
(* Tickets: _on_ticket_status_change follows this process's own writes. *)

Watched(old, new, f) ==
  LET in == {t \in WatchTickets : old[t] # new[t] /\ new[t] = "needs_info"}
      out == {t \in WatchTickets : old[t] # new[t] /\ new[t] # "needs_info"}
  IN  [t \in (DOMAIN f \ out) \cup in |-> IF t \in DOMAIN f THEN f[t] ELSE clock]
Move(t, to) ==
  /\ watchMoves < MaxWatchMoves /\ watchMoves' = watchMoves + 1
  /\ st' = [st EXCEPT ![t] = to] /\ asked' = Watched(st, st', asked)
  /\ UNCHANGED <<clock, orch, runVars, stall, stuckVars, tierVars, resets>>
TaskMoves(t, to) ==
  /\ orch = "up" /\ t \in tasks /\ st[t] \in {"in_progress", "needs_info"} /\ to # st[t]
  /\ Move(t, to)
  /\ tasks' = IF to \in {"in_progress", "needs_info"} THEN tasks ELSE tasks \ {t}
OperatorMoves(t, to) ==
  /\ orch = "up" /\ t \notin tasks /\ UNCHANGED tasks
  /\ \/ st[t] = "proposed" /\ to = "open"
     \/ st[t] \in {"blocked", "merge_conflict", "failed"} /\ to \in {"open", "closed"}
  /\ Move(t, to)

-----------------------------------------------------------------------------
(* _reconcile_external_tickets *)

Ready(s) == {t \in WatchTickets : s[t] = "open" /\ \A d \in WatchDeps[t] : s[d] = "resolved"}
BegunNow(s) == [t \in WatchTickets |-> IF t \in Ready(s) THEN "in_progress" ELSE s[t]]
SweepOnce(s) ==
  [t \in WatchTickets |->
     IF s[t] = "open" /\ \E d \in WatchDeps[t] : s[d] = "failed" THEN "failed" ELSE s[t]]
StuckWatch == {"open", "in_progress", "blocked", "merge_conflict"}
Alive(s, runningNow) ==
  \/ runningNow # {} \/ Ready(s) # {}
  \/ \E t \in WatchTickets : s[t] = "needs_info" \/ (s[t] = "proposed" /\ t \notin Notable)
Candidates(s) == {t \in WatchTickets : s[t] \in StuckWatch}

\* Mutant: life resets the timer only.
OnlyTimerReset == stuckSince' = Never /\ UNCHANGED stuckFor
\* _check_stuck: announced when no tick saw life for the grace, once per set.
NotStuck == stuckSince' = Never /\ stuckFor' = {}
Announces(stuck) == stuckSince # Never /\ Since(stuckSince) >= StuckGrace /\ stuck # stuckFor
CheckStuck(s, runningNow) ==
  LET stuck == Candidates(s) IN
  \/ /\ Alive(s, runningNow) \/ stuck = {}
     /\ NotStuck /\ quiet' = Never /\ told' = {} /\ UNCHANGED misjudged
  \/ /\ ~Alive(s, runningNow) /\ stuck # {}
     /\ stuckSince' = IF stuckSince = Never THEN clock ELSE stuckSince
     /\ stuckFor' = IF Announces(stuck) THEN stuck ELSE stuckFor
     /\ quiet' = IF quiet = Never THEN clock ELSE quiet
     /\ told' = IF Announces(stuck) THEN stuck ELSE told
     /\ misjudged' = (misjudged \/ (told' = stuck) # (quiet # Never /\ Since(quiet) >= StuckGrace))

\* load() brings what other processes wrote, without the callback; then the
\* sweep, the ready tickets and the watchdog.
Loaded == {st} \cup
  {[st EXCEPT ![t] = to] : t \in WatchTickets \ tasks, to \in {"open", "closed", "needs_info"}}
ReconcileTick(seen) ==
  /\ orch = "up" /\ (seen = st \/ watchMoves < MaxWatchMoves)
  /\ watchMoves' = watchMoves + (IF seen = st THEN 0 ELSE 1)
  /\ LET swept == SweepOnce(seen)
         begun == Ready(swept)
         now == BegunNow(swept)
     IN  /\ st' = now /\ tasks' = tasks \cup begun
         /\ asked' = Watched(seen, now, asked)
         /\ CheckStuck(now, tasks')
  /\ UNCHANGED <<clock, orch, runVars, stall, tierVars, resets>>

-----------------------------------------------------------------------------
(* shutdown, _emergency_reset, reload and startup *)

Cancelled(r) ==
  CASE run[r].at \in {"setup", "pulsing", "stopping"} -> [at |-> "stopping", status |-> "failed"]
    [] OTHER -> NotRunning
\* Everything is cancelled.  A write that waited is dropped; the line of the one
\* under way may reach the file.
CancelAll ==
  /\ run' = [r \in AgentRuns |-> Cancelled(r)] /\ writes' = <<>>
  /\ \/ UNCHANGED <<tier, peak>>
     \/ /\ writes # <<>>
        /\ tier' = [tier EXCEPT ![Head(writes).ticket] = Head(writes).tier]
        /\ peak' = [peak EXCEPT ![Head(writes).ticket] = Higher(@, Head(writes).tier)]
  /\ stall' = [at |-> "sleep", last |-> Never]

\* startup() creates the loops last, so only before that can it still fail:
\* _emergency_reset cancels the tickets' tasks and waits for none of them.
StartupEnds ==
  /\ orch = "starting" /\ orch' = "up"
  /\ UNCHANGED <<clock, runVars, stall, ticketVars, stuckVars, tierVars, watchMoves, resets>>
EmergencyReset ==
  /\ orch = "starting" /\ orch' = "down" /\ tasks' = {} /\ CancelAll
  /\ UNCHANGED <<clock, started, flight, beat, st, asked, stuckVars, spawned, watchMoves, resets>>
\* reload(): startup again on the same object, the detector with it; what was in
\* progress is resumed and what is ready started.
Reload ==
  /\ resets < MaxResets /\ resets' = resets + 1
  /\ \/ /\ orch = "down" /\ orch' = "starting"
        /\ tasks' = {t \in WatchTickets : st[t] \in {"in_progress", "needs_info"}} \cup Ready(st)
     \/ orch = "up" /\ UNCHANGED orch /\ tasks' = tasks \cup Ready(st)
  /\ st' = BegunNow(st) /\ asked' = Watched(st, st', asked)
  /\ UNCHANGED <<clock, runVars, stall, stuckVars, tierVars, watchMoves>>
\* shutdown cancels everything and waits for each; the process ends.
Shutdown ==
  /\ orch = "up" /\ orch' = "closing" /\ tasks' = {} /\ CancelAll
  /\ UNCHANGED <<clock, started, flight, beat, st, asked, stuckVars, spawned, watchMoves, resets>>

TimePasses ==
  /\ clock < MaxTime /\ clock' = clock + 1
  /\ UNCHANGED <<orch, runVars, stall, ticketVars, stuckVars, tierVars, watchMoves, resets>>

-----------------------------------------------------------------------------
WatchersInit ==
  /\ clock = 0 /\ orch \in {"down", "starting"} /\ run = [r \in AgentRuns |-> NotRunning] /\ started = 0
  /\ beat = Never /\ flight = <<>> /\ asked = <<>> /\ stall = [at |-> "sleep", last |-> Never]
  /\ st \in [WatchTickets -> {"in_progress", "open", "proposed"}]
  /\ tasks = {t \in WatchTickets : orch = "starting" /\ st[t] = "in_progress"}
  /\ stuckSince = Never /\ stuckFor = {} /\ quiet = Never /\ told = {} /\ misjudged = FALSE
  /\ tier = [t \in WatchTickets |-> "standard"] /\ peak = tier
  /\ spawned = [t \in WatchTickets |-> Never] /\ writes = <<>>
  /\ watchMoves = 0 /\ resets = 0

\* The agents under watch.
StallNext ==
  \/ \E r \in AgentRuns : StartRun(r) \/ BeginPulse(r) \/ Pulse(r) \/ EndRun(r)
  \/ \E r \in AgentRuns, s \in RunStatuses : StopPulse(r, s)
  \/ StoreWrites \/ StallPoll \/ KillScan \/ TimePasses
  \/ StartupEnds \/ Shutdown \/ EmergencyReset \/ Reload
\* The tickets under watch.
StuckNext ==
  \/ \E t \in WatchTickets, to \in Statuses : OperatorMoves(t, to)
  \/ \E t \in tasks, to \in Statuses \ {"open", "proposed", "closed"} : TaskMoves(t, to)
  \/ \E seen \in Loaded : ReconcileTick(seen)
  \/ TimePasses \/ StartupEnds \/ Reload \/ StallPoll
WatchersNext == StallNext \/ StuckNext
WatchersSpec == WatchersInit /\ [][WatchersNext]_watchVars

-----------------------------------------------------------------------------
WatchersTypeOK ==
  /\ clock \in 0..MaxTime /\ orch \in {"down", "starting", "up", "closing"}
  /\ run \in [AgentRuns -> [at : RunAt, status : RunStatuses]]
  /\ beat \in 0..Never /\ DOMAIN flight \subseteq {KeyOf[r] : r \in AgentRuns}
  /\ DOMAIN asked \subseteq WatchTickets /\ st \in [WatchTickets -> Statuses]
  /\ tasks \subseteq WatchTickets /\ tier \in [WatchTickets -> Tiers]
  /\ stall.at \in {"sleep", "killing"} /\ told \subseteq WatchTickets

\* Only agents that still run are in flight, and none of them started after the
\* last pulse: a finished agent raises no alarm, and the silence that gets the
\* agents killed is as long for each of them (stall_detector.py 75-97).
OnlyTheLivingAreWatched ==
  \A k \in ActiveAgents :
    /\ \E r \in AgentRuns : KeyOf[r] = k /\ run[r].at \in {"setup", "pulsing", "stopping"}
    /\ flight[k] <= beat

\* A tick of a project that no tick saw alive for the grace leaves exactly the
\* tickets stuck by then announced, and no earlier tick announced any; once life
\* was seen, a new grace counts and the same tickets are announced again
\* (orchestrator.py 1904-1921).
StuckIsTold == ~misjudged

\* Several agents of a ticket may end blocked at once: its tier never goes down.
TierNeverDrops == tier = peak
=============================================================================
