-------------------------- MODULE SchedulerProofs ---------------------------
(***************************************************************************)
(* What holds of Scheduler for every set of tickets, every dependency      *)
(* graph, any number of tasks, moves and crashes.                          *)
(*                                                                         *)
(* Base is the inductive type invariant: besides the types it says that an *)
(* actor that is suspended over a ticket really has one in hand.           *)
(* RegistersOnce, the discipline of _schedule_lock, is inductive over it.  *)
(* Owned (only while nobody reopens tickets) adds that a live task is the  *)
(* one its ticket's registry entry names, and MergeInv that a resolved     *)
(* ticket is merged or was flagged by its own agent.                       *)
(***************************************************************************)
EXTENDS Scheduler, TLAPS

InHand == {"want", "write", "register", "fail", "work", "ended"}
InPlan == {"loop", "want", "write", "register", "fail", "walk", "walkfail"}

Sound(r) ==
    /\ r \in ActorStates
    /\ r.pc \in InHand => r.t \in Tickets
    /\ r.pc = "walkfail" => r.d \in Tickets
    /\ r.pc \in InPlan => r.plan # "idle"

Shared ==
    /\ status \in [Tickets -> Status]
    /\ running \in [Tickets -> Slots \cup {None}]
    /\ lock \in Actors \cup {None}
    /\ inbox \subseteq Messages
    /\ merged \in SUBSET Tickets /\ reported \in SUBSET Tickets
    /\ flagged \in SUBSET Tickets /\ escaped \in SUBSET Tickets /\ heard \in BOOLEAN
    /\ moves \in 0..MaxMoves /\ crashes \in 0..MaxCrashes

Base ==
    /\ Shared
    /\ act \in [Actors -> ActorStates]
    /\ \A a \in Actors : Sound(act[a])

-----------------------------------------------------------------------------
(* The records the actions build are sound. *)

(* LEMMA: the record of an actor that is off is sound.                       *)
LEMMA OffSound == Sound(Off)
BY DEF Sound, Off, ActorStates, PCs, Plans, InHand, InPlan

(* LEMMA: an actor that starts on a plan is sound.                           *)
LEMMA EnterSound ==
    ASSUME NEW plan \in Plans
    PROVE  Sound(Enter(plan))
<1>1. CASE plan = "idle"
  BY <1>1, OffSound DEF Enter
<1>2. CASE plan # "idle"
  <2> DEFINE todo == IF plan = "sweep" THEN {t \in Tickets : status[t] # "absent"}
                     ELSE Ready
  <2>1. todo \in SUBSET Tickets
    BY DEF Ready
  <2>2. Enter(plan) = [Off EXCEPT !.pc = "loop", !.plan = plan, !.todo = todo]
    BY <1>2 DEF Enter
  <2> HIDE DEF todo
  <2> QED
    BY <1>2, <2>1, <2>2 DEF Sound, Off, ActorStates, PCs, Plans, InHand, InPlan
<1> QED
  BY <1>1, <1>2

(* LEMMA: an actor that goes on with the rest of its plan is sound.          *)
LEMMA DoneSound ==
    ASSUME NEW a \in Actors, Sound(act[a]), act[a].pc \in InPlan
    PROVE  Sound(Done(a))
BY DEF Done, Sound, ActorStates, PCs, Plans, InHand, InPlan

(* An actor that replaces its own record by a sound one keeps the actors   *)
(* sound.                                                                  *)
LEMMA SetSound ==
    ASSUME Base, NEW a \in Actors, NEW r, Sound(r), act' = [act EXCEPT ![a] = r]
    PROVE  /\ act' \in [Actors -> ActorStates]
           /\ \A b \in Actors : Sound(act'[b])
BY DEF Base, Sound

(* LEMMA: the first state is sound.                                          *)
LEMMA InitBase == Init => Base
<1> SUFFICES ASSUME Init PROVE Base
  OBVIOUS
<1>1. status \in [Tickets -> Status]
  <2>1. Created \subseteq Status
    BY SchedulerAssumption DEF Status
  <2> QED
    BY <2>1 DEF Init
<1>5. /\ running \in [Tickets -> Slots \cup {None}]
      /\ lock \in Actors \cup {None} /\ inbox \subseteq Messages
      /\ merged \in SUBSET Tickets /\ reported \in SUBSET Tickets
      /\ flagged \in SUBSET Tickets /\ escaped \in SUBSET Tickets /\ heard \in BOOLEAN
  BY DEF Init
<1>6. moves \in 0..MaxMoves /\ crashes \in 0..MaxCrashes
  BY SchedulerAssumption DEF Init
<1>2. Sound(Enter("report"))
  BY EnterSound DEF Plans
<1>3. \A a \in Actors : Sound(act[a])
  BY <1>2, OffSound DEF Init
<1>4. act \in [Actors -> ActorStates]
  BY <1>2, OffSound DEF Init, Sound
<1> QED
  BY <1>1, <1>3, <1>4, <1>5, <1>6 DEF Base, Shared

(* LEMMA: what the analysis of a cycle selects are tickets.                  *)
LEMMA AnalyzedIsSet ==
    ASSUME Shared, NEW run, NEW st
    PROVE  Analyzed(run, st) \in SUBSET Tickets
BY DEF Shared, Analyzed

(* One step of a coroutine. *)
LEMMA StepBase ==
    ASSUME Base, NEW a \in Actors, Step(a)
    PROVE  Base'
<1>0. /\ Shared /\ act[a] \in ActorStates /\ Sound(act[a])
  BY DEF Base
<1>e. Sound(Enter("report"))
  BY EnterSound DEF Plans
<1>r. reported' \in {reported, Analyzed(running, status)} => reported' \in SUBSET Tickets
  BY <1>0, AnalyzedIsSet DEF ghosts, Shared
<1>1. CASE LoopBody(a)
  <2>1. PICK t \in act[a].todo :
           UnblockOne(a, t) \/ ReadyOne(a, t) \/ SingleOne(a, t) \/ SweepOne(a, t)
    BY <1>1 DEF LoopBody
  <2>t. t \in Tickets /\ act[a].plan # "idle"
    BY <1>0, <1>1 DEF Sound, ActorStates, LoopBody, InPlan
  <2>2. \/ Set(a, [act[a] EXCEPT !.pc = "want", !.t = t])
        \/ Set(a, [act[a] EXCEPT !.todo = @ \ {t}])
        \/ Set(a, [act[a] EXCEPT !.todo = {}])
        \/ Set(a, [act[a] EXCEPT !.pc = "fail", !.t = t, !.dirty = TRUE])
    BY <2>1 DEF UnblockOne, ReadyOne, SingleOne, SweepOne
  <2>3. /\ Sound([act[a] EXCEPT !.pc = "want", !.t = t])
        /\ Sound([act[a] EXCEPT !.todo = @ \ {t}])
        /\ Sound([act[a] EXCEPT !.todo = {}])
    BY <1>0, <2>t DEF Sound, ActorStates, PCs, InHand, InPlan
  <2>4. Sound([act[a] EXCEPT !.pc = "fail", !.t = t, !.dirty = TRUE])
    BY <1>0, <2>t DEF Sound, ActorStates, PCs, InHand, InPlan
  <2>5. Shared'
    BY <1>0, <1>1 DEF LoopBody, ghosts, Shared
  <2> QED
    BY <2>2, <2>3, <2>4, <2>5, SetSound DEF Base, Set
<1>2. CASE LoopEnd(a)
  <2>1. NextPlan[act[a].plan] \in Plans
    BY <1>0, <1>2 DEF NextPlan, Plans, Sound, InPlan, LoopEnd, ActorStates
  <2>2. Sound(Enter(NextPlan[act[a].plan]))
    BY <2>1, EnterSound
  <2>3. Shared'
    BY <1>0, <1>2, <1>r DEF LoopEnd, ghosts, Shared
  <2> QED
    BY <1>2, <2>2, <2>3, SetSound DEF Base, LoopEnd, Set
<1>3. CASE ScheduleSkips(a)
  <2>1. Sound(Done(a))
    BY <1>0, <1>3, DoneSound DEF ScheduleSkips, InPlan
  <2>2. Shared'
    BY <1>0, <1>3 DEF ScheduleSkips, ghosts, Shared
  <2> QED
    BY <1>3, <2>1, <2>2, SetSound DEF Base, ScheduleSkips, Set
<1>4. CASE ScheduleFails(a)
  <2>1. Sound([act[a] EXCEPT !.pc = "fail"])
    BY <1>0, <1>4 DEF ScheduleFails, Sound, ActorStates, PCs, InHand, InPlan
  <2>2. Shared'
    BY <1>0, <1>4 DEF ScheduleFails, ghosts, Shared
  <2> QED
    BY <1>4, <2>1, <2>2, SetSound DEF Base, ScheduleFails, Set
<1>5. CASE ScheduleAccepts(a)
  <2>1. Sound([act[a] EXCEPT !.pc = "write"])
    BY <1>0, <1>5 DEF ScheduleAccepts, Sound, ActorStates, PCs, InHand, InPlan
  <2>2. Shared'
    BY <1>0, <1>5 DEF ScheduleAccepts, ghosts, Shared
  <2> QED
    BY <1>5, <2>1, <2>2, SetSound DEF Base, ScheduleAccepts, Set
<1>6. CASE ScheduleWrites(a)
  <2>1. Sound([act[a] EXCEPT !.pc = "register"])
    BY <1>0, <1>6 DEF ScheduleWrites, Sound, ActorStates, PCs, InHand, InPlan
  <2>2. Shared'
    BY <1>0, <1>6 DEF ScheduleWrites, ghosts, Shared, Status
  <2> QED
    BY <1>6, <2>1, <2>2, SetSound DEF Base, ScheduleWrites, Set
<1>7. CASE ScheduleRegisters(a)
  <2> DEFINE s == CHOOSE s \in Slots : s \in FreeSlots
             r == [Off EXCEPT !.pc = "work", !.t = act[a].t]
  <2>1. s \in Slots /\ s \in FreeSlots
    BY <1>7 DEF ScheduleRegisters, FreeSlots
  <2>2. Sound(Done(a))
    BY <1>0, <1>7, DoneSound DEF ScheduleRegisters, InPlan
  <2>3. act[a].t \in Tickets
    BY <1>0, <1>7 DEF ScheduleRegisters, Sound, InHand
  <2>4. Sound(r)
    BY <2>3 DEF Off, Sound, ActorStates, PCs, Plans, InHand, InPlan
  <2>5. act' = [act EXCEPT ![a] = Done(a), ![s] = r]
    BY <1>7 DEF ScheduleRegisters
  <2>6. running' = [running EXCEPT ![act[a].t] = s]
    BY <1>7 DEF ScheduleRegisters
  <2> HIDE DEF s, r
  <2>7. Shared'
    BY <1>0, <1>7, <2>1, <2>3, <2>6 DEF ScheduleRegisters, ghosts, Shared
  <2> QED
    BY <2>1, <2>2, <2>4, <2>5, <2>7 DEF Base, Sound
<1>8. CASE FailWrites(a)
  <2>1. act[a].t \in Tickets
    BY <1>0, <1>8 DEF FailWrites, Sound, InHand
  <2>2. Sound([act[a] EXCEPT !.pc = "walk", !.front = {act[a].t}, !.seen = {act[a].t}])
    BY <1>0, <1>8, <2>1 DEF FailWrites, Sound, ActorStates, PCs, InHand, InPlan
  <2>3. Shared'
    BY <1>0, <1>8 DEF FailWrites, ghosts, Shared, Status
  <2> QED
    BY <1>8, <2>2, <2>3, SetSound DEF Base, FailWrites, Set
<1>9. CASE \E d \in Tickets : WalkLooks(a, d)
  <2>1. PICK d \in Tickets : WalkLooks(a, d)
    BY <1>9
  <2>2. /\ Sound([act[a] EXCEPT !.pc = "walkfail", !.d = d])
        /\ Sound([act[a] EXCEPT !.seen = @ \cup {d}])
    BY <1>0, <2>1 DEF WalkLooks, Sound, ActorStates, PCs, InHand, InPlan
  <2>3. Shared'
    BY <1>0, <2>1 DEF WalkLooks, ghosts, Shared
  <2> QED
    BY <2>1, <2>2, <2>3, SetSound DEF Base, WalkLooks, Set
<1>10. CASE WalkWrites(a)
  <2> DEFINE d == act[a].d
  <2>1. d \in Tickets
    BY <1>0, <1>10 DEF WalkWrites, Sound
  <2>2. Sound([act[a] EXCEPT !.pc = "walk", !.d = None,
                             !.front = @ \cup {d}, !.seen = @ \cup {d}])
    BY <1>0, <1>10, <2>1 DEF WalkWrites, Sound, ActorStates, PCs, InHand, InPlan
  <2>3. Shared'
    BY <1>0, <1>10 DEF WalkWrites, ghosts, Shared, Status
  <2> QED
    BY <1>10, <2>2, <2>3, SetSound DEF Base, WalkWrites, Set
<1>11. CASE WalkEnds(a)
  <2>1. Sound(Done(a))
    BY <1>0, <1>11, DoneSound DEF WalkEnds, InPlan
  <2>2. Shared'
    BY <1>0, <1>11, <1>r DEF WalkEnds, ghosts, Shared
  <2> QED
    BY <1>11, <1>e, <2>1, <2>2, SetSound DEF Base, WalkEnds, Set
<1> QED
  BY <1>1, <1>2, <1>3, <1>4, <1>5, <1>6, <1>7, <1>8, <1>9, <1>10, <1>11 DEF Step

(* The start of a process: every resumed ticket has a task of its own. *)
LEMMA BootSound ==
    ASSUME Base, Boot
    PROVE  /\ running' \in [Tickets -> Slots \cup {None}]
           /\ act' \in [Actors -> ActorStates]
           /\ \A a \in Actors : Sound(act'[a]) /\ act'[a].pc \in {"off", "loop", "work"}
           /\ \A s \in Slots : act'[s].pc = "work" => running'[act'[s].t] = s
           /\ \A a \in Actors : act'[a].pc = "work" =>
                 act'[a].t \in Tickets /\ status[act'[a].t] \in {"in_progress", "needs_info"}
<1> DEFINE resumed == {t \in Tickets : status[t] \in {"in_progress", "needs_info"}}
           Fits(f) == \A t, u \in resumed : t # u => f[t] # f[u]
           slot == CHOOSE f \in [resumed -> Slots] : Fits(f)
           mine(a) == CHOOSE t \in resumed : slot[t] = a
           task(a) == [Off EXCEPT !.pc = "work", !.t = mine(a)]
           owns(a) == \E t \in resumed : slot[t] = a
<1>1. slot \in [resumed -> Slots] /\ Fits(slot)
  BY DEF Boot
<1>2. /\ running' = [t \in Tickets |-> IF t \in resumed THEN slot[t] ELSE None]
      /\ act' = [a \in Actors |-> IF a = "main" THEN Enter("report")
                                 ELSE IF owns(a) THEN task(a) ELSE Off]
  BY DEF Boot
<1>3. \A t \in resumed : t \in Tickets /\ status[t] \in {"in_progress", "needs_info"}
  OBVIOUS
<1>4. \A a : owns(a) => mine(a) \in resumed /\ slot[mine(a)] = a
  OBVIOUS
<1> HIDE DEF slot, mine, resumed, owns
<1>5. \A a : owns(a) => Sound(task(a)) /\ task(a).pc = "work" /\ task(a).t = mine(a)
  BY <1>3, <1>4 DEF Sound, Off, ActorStates, PCs, Plans, InHand, InPlan
<1>6. Sound(Enter("report")) /\ Enter("report").pc = "loop"
  <2>1. Sound(Enter("report"))
    BY EnterSound DEF Plans
  <2>2. Enter("report").pc = "loop"
    BY DEF Enter, Off
  <2> QED
    BY <2>1, <2>2
<1>7. Off.pc = "off"
  BY DEF Off
<1> HIDE DEF task
<1>8. \A a \in Actors : Sound(act'[a]) /\ act'[a].pc \in {"off", "loop", "work"}
  BY <1>2, <1>5, <1>6, <1>7, OffSound
<1>9. act' \in [Actors -> ActorStates]
  BY <1>2, <1>8 DEF Sound
<1>10. running' \in [Tickets -> Slots \cup {None}]
  BY <1>1, <1>2, <1>3
<1>11. ASSUME NEW s \in Slots, act'[s].pc = "work"
       PROVE  running'[act'[s].t] = s
  <2>1. act'[s] = task(s) /\ owns(s)
    BY <1>2, <1>6, <1>7, <1>11 DEF Actors
  <2>2. act'[s].t \in resumed /\ slot[act'[s].t] = s
    BY <2>1, <1>4, <1>5
  <2> QED
    BY <2>2, <1>2, <1>3
<1>12. \A a \in Actors : act'[a].pc = "work" => act'[a].t \in resumed
  BY <1>2, <1>4, <1>5, <1>6, <1>7
<1> QED
  BY <1>3, <1>8, <1>9, <1>10, <1>11, <1>12

(* LEMMA: every step keeps the actors' records sound.                        *)
LEMMA NextBase ==
    ASSUME Base, [Next]_vars
    PROVE  Base'
<1>0. Shared /\ \A a \in Actors : act[a] \in ActorStates /\ Sound(act[a])
  BY DEF Base
<1>1. CASE \E a \in Actors : Step(a)
  BY <1>1, StepBase
<1>2. ASSUME NEW s \in Slots, NEW end \in Ends \ {"escape"}, TaskWrites(s, end)
      PROVE  Base'
  <2> DEFINE plan == CASE end = "conflict" -> "scan"
                       [] end = "noworkflow" -> "idle"
                       [] OTHER -> end
  <2>1. s \in Actors
    BY DEF Actors
  <2>2. plan \in Plans
    BY SchedulerAssumption DEF Plans, TaskEnds
  <2>3. act' = [act EXCEPT ![s] = [act[s] EXCEPT !.pc = "ended", !.plan = plan]]
    BY <1>2 DEF TaskWrites, Set
  <2> HIDE DEF plan
  <2>4. Sound([act[s] EXCEPT !.pc = "ended", !.plan = plan])
    BY <1>0, <1>2, <2>1, <2>2 DEF TaskWrites, Sound, ActorStates, PCs, InHand, InPlan
  <2>5. merged' \in SUBSET Tickets
    <3>1. act[s].t \in Tickets
      BY <1>0, <1>2, <2>1 DEF TaskWrites, Sound, InHand
    <3> QED
      BY <1>0, <1>2, <3>1 DEF TaskWrites, ghosts, Shared
  <2>6. Shared'
    BY <1>0, <1>2, <2>5 DEF TaskWrites, ghosts, Shared, Status
  <2> QED
    BY <2>1, <2>3, <2>4, <2>6, SetSound DEF Base
<1>3. ASSUME NEW s \in Slots, TaskEscapes(s)
      PROVE  Base'
  <2>0. act[s].t \in Tickets
    BY <1>3 DEF Base, Actors, Sound, InHand, TaskEscapes
  <2>1. Shared'
    BY <1>0, <1>3, <2>0 DEF TaskEscapes, ghosts, Shared
  <2> QED
    BY <1>3, <2>1, OffSound, SetSound DEF Base, TaskEscapes, Set, Actors
<1>4. ASSUME NEW s \in Slots, TaskPops(s)
      PROVE  Base'
  <2> DEFINE t == act[s].t
             plan == act[s].plan
             r1 == [Off EXCEPT !.pc = "loop", !.plan = plan, !.todo = Blocks[t]]
             r2 == [Off EXCEPT !.pc = "walk", !.plan = plan, !.front = {t}, !.seen = {t}]
  <2>1. s \in Actors /\ t \in Tickets /\ plan \in Plans
    BY <1>0, <1>4 DEF Actors, TaskPops, Sound, InHand, ActorStates
  <2>2. plan = "resolved" => Sound(r1)
    BY <2>1, SchedulerAssumption DEF Off, Sound, ActorStates, PCs, Plans, InHand, InPlan
  <2>3. plan = "failed" => Sound(r2)
    BY <2>1 DEF Off, Sound, ActorStates, PCs, Plans, InHand, InPlan
  <2>4. Sound(Enter(plan))
    BY <2>1, EnterSound
  <2>5. \/ plan = "resolved" /\ Set(s, r1)
        \/ plan = "failed" /\ Set(s, r2)
        \/ Set(s, Enter(plan))
    BY <1>4 DEF TaskPops
  <2>7. heard' \in BOOLEAN
    BY <1>4 DEF TaskPops
  <2>6. Shared'
    BY <1>0, <1>4, <2>7 DEF TaskPops, ghosts, Shared
  <2> QED
    BY <2>1, <2>2, <2>3, <2>4, <2>5, <2>6, SetSound DEF Base, Set
<1>5. ASSUME NEW m \in Messages, ServiceTakes(m[1], m[2])
      PROVE  Base'
  <2> DEFINE t == m[2]
             r == [Off EXCEPT !.pc = "loop", !.plan = "single", !.todo = {t}]
  <2>1. t \in Tickets
    BY DEF Messages
  <2>2. Sound(r)
    BY <2>1 DEF Off, Sound, ActorStates, PCs, Plans, InHand, InPlan
  <2>3. Shared'
    BY <1>0, <1>5 DEF ServiceTakes, ghosts, Shared
  <2>4. "service" \in Actors
    BY DEF Actors, Loops
  <2> QED
    BY <1>5, <2>2, <2>3, <2>4, SetSound DEF Base, ServiceTakes, Set
<1>6. CASE ReconcileTick
  <2>1. Sound(Enter("sweep"))
    BY EnterSound DEF Plans
  <2>2. Shared'
    BY <1>0, <1>6 DEF ReconcileTick, ghosts, Shared
  <2>3. "reconcile" \in Actors
    BY DEF Actors, Loops
  <2> QED
    BY <1>6, <2>1, <2>2, <2>3, SetSound DEF Base, ReconcileTick, Set
<1>7. CASE Operator
  <2>1. UNCHANGED <<act, running, lock, merged, reported, crashes>>
    BY <1>7 DEF Operator, Create, Approve, Close, Reopen, Answer, Ask, Flag, NextPhase
  <2>2. moves' = moves \/ (moves < MaxMoves /\ moves' = moves + 1)
    BY <1>7 DEF Operator, Create, Approve, Close, Reopen, Answer, Ask, Flag, NextPhase, Move
  <2>3. moves' \in 0..MaxMoves
    BY <1>0, <2>2, SchedulerAssumption DEF ghosts, Shared
  <2>4. inbox' \subseteq Messages
    BY <1>0, <1>7 DEF Operator, Create, Approve, Close, Reopen, Answer, Ask, Flag, NextPhase, Messages, ghosts, Shared
  <2>5. status' \in [Tickets -> Status]
    BY <1>0, <1>7 DEF Operator, Create, Approve, Close, Reopen, Answer, Ask, Flag, NextPhase, Status, ghosts, Shared
  <2>7. flagged' \in SUBSET Tickets /\ escaped' \in SUBSET Tickets /\ heard' \in BOOLEAN
    <3>1. ASSUME NEW s \in Slots, Flag(s)
          PROVE  act[s].t \in Tickets
      BY <3>1 DEF Base, Actors, Sound, InHand, Flag
    <3> QED
      BY <1>0, <1>7, <3>1
      DEF Operator, Create, Approve, Close, Reopen, Answer, Ask, Flag, NextPhase, ghosts, Shared
  <2>6. Shared'
    BY <1>0, <2>1, <2>3, <2>4, <2>5, <2>7 DEF Shared
  <2> QED
    BY <2>1, <2>6 DEF Base, Sound
<1>8. CASE Crash
  <2>1. crashes' \in 0..MaxCrashes
    BY <1>0, <1>8, SchedulerAssumption DEF Crash, ghosts, Shared
  <2>2. /\ running' \in [Tickets -> Slots \cup {None}]
        /\ act' \in [Actors -> ActorStates]
        /\ \A a \in Actors : Sound(act'[a])
    BY <1>8, BootSound DEF Crash
  <2>3. Shared'
    BY <1>0, <1>8, <2>1, <2>2 DEF Crash, ghosts, Shared
  <2> QED
    BY <2>2, <2>3 DEF Base
<1>9. CASE UNCHANGED vars
  BY <1>9 DEF vars, Base, ghosts, Shared, Sound
<1> QED
  BY <1>1, <1>2, <1>3, <1>4, <1>5, <1>6, <1>7, <1>8, <1>9 DEF Next, TaskEnding, Service

-----------------------------------------------------------------------------
(* The scheduling lock. *)

(* Only actor a moves, and it does not get past the checks. *)
Outside(a) ==
    /\ \A b \in Actors \ {a} : act'[b] = act[b]
    /\ act'[a].pc \notin {"write", "register"}

(* LEMMA: the lock that nobody holds names no actor.                         *)
LEMMA NoneIsNoActor == \A a \in Actors : a # None
BY SchedulerAssumption DEF Actors, Loops

(* LEMMA: an actor that starts on a plan has no ticket in hand.              *)
LEMMA EnterIsFresh ==
    ASSUME NEW plan
    PROVE  Enter(plan).pc \in {"off", "loop"}
BY DEF Enter, Off

Taken == {"write", "register", "work", "ended"}

(* A step of a coroutine that neither passes the checks of                 *)
(* _handle_schedule nor goes on from there starts nothing: it touches      *)
(* nobody else, at most fails tickets, and takes or frees the lock only    *)
(* for itself.                                                             *)
LEMMA StepElsewhere ==
    ASSUME Base, NEW a \in Actors, Step(a),
           ~ScheduleAccepts(a), ~ScheduleWrites(a), ~ScheduleRegisters(a)
    PROVE  /\ UNCHANGED <<running, inbox, merged, flagged>>
           /\ \A b \in Actors \ {a} : act'[b] = act[b]
           /\ act'[a].pc \notin Taken
           /\ \A t \in Tickets : status'[t] \in {status[t], "failed"}
           /\ lock' = lock \/ lock \in {None, a}
<1>0. act \in [Actors -> ActorStates] /\ act[a] \in ActorStates
      /\ status \in [Tickets -> Status]
  BY DEF Base, Shared
<1>1. UNCHANGED <<running, inbox, merged, flagged>>
  BY DEF Step, LoopBody, LoopEnd, ScheduleSkips, ScheduleFails,
         FailWrites, WalkLooks, WalkWrites, WalkEnds, ghosts
<1>2. \E r : Set(a, r)
  BY DEF Step, LoopBody, LoopEnd, ScheduleSkips, ScheduleFails,
         FailWrites, WalkLooks, WalkWrites, WalkEnds,
         UnblockOne, ReadyOne, SingleOne, SweepOne
<1>3. \A b \in Actors \ {a} : act'[b] = act[b]
  BY <1>0, <1>2 DEF Set
<1>4. status' = status \/ \E t : status' = [status EXCEPT ![t] = "failed"]
  BY DEF Step, LoopBody, LoopEnd, ScheduleSkips, ScheduleFails,
         FailWrites, WalkLooks, WalkWrites, WalkEnds
<1>5. \A t \in Tickets : status'[t] \in {status[t], "failed"}
  BY <1>0, <1>4
<1>6. lock' = lock \/ lock \in {None, a}
  BY DEF Step, LoopBody, LoopEnd, ScheduleSkips, ScheduleFails,
         FailWrites, WalkLooks, WalkWrites, WalkEnds
<1>7. act'[a].pc \notin Taken
  <2>1. CASE LoopBody(a)
    <3>1. PICK t \in act[a].todo :
             UnblockOne(a, t) \/ ReadyOne(a, t) \/ SingleOne(a, t) \/ SweepOne(a, t)
      BY <2>1 DEF LoopBody
    <3>2. \/ Set(a, [act[a] EXCEPT !.pc = "want", !.t = t])
          \/ Set(a, [act[a] EXCEPT !.todo = @ \ {t}])
          \/ Set(a, [act[a] EXCEPT !.todo = {}])
          \/ Set(a, [act[a] EXCEPT !.pc = "fail", !.t = t, !.dirty = TRUE])
      BY <3>1 DEF UnblockOne, ReadyOne, SingleOne, SweepOne
    <3>3. act[a].pc = "loop"
      BY <2>1 DEF LoopBody
    <3>4. /\ [act[a] EXCEPT !.pc = "want", !.t = t].pc = "want"
          /\ [act[a] EXCEPT !.todo = @ \ {t}].pc = "loop"
          /\ [act[a] EXCEPT !.todo = {}].pc = "loop"
          /\ [act[a] EXCEPT !.pc = "fail", !.t = t, !.dirty = TRUE].pc = "fail"
      BY <1>0, <3>3 DEF ActorStates
    <3>5. act'[a].pc \in {"want", "loop", "fail"}
      BY <1>0, <3>2, <3>4 DEF Set
    <3> QED
      BY <3>5 DEF Taken
  <2>2. CASE LoopEnd(a) \/ ScheduleSkips(a) \/ WalkEnds(a)
    <3>1. Done(a).pc = "loop"
      BY <1>0 DEF Done, ActorStates
    <3> QED
      BY <1>0, <2>2, <3>1, EnterIsFresh DEF LoopEnd, ScheduleSkips, WalkEnds, Set, Taken
  <2>3. CASE ScheduleFails(a)
    BY <1>0, <2>3 DEF ScheduleFails, Set, Taken, ActorStates
  <2>4. CASE FailWrites(a)
    BY <1>0, <2>4 DEF FailWrites, Set, Taken, ActorStates
  <2>5. CASE WalkWrites(a)
    BY <1>0, <2>5 DEF WalkWrites, Set, Taken, ActorStates
  <2>6. CASE \E d \in Tickets : WalkLooks(a, d)
    <3>1. PICK d \in Tickets : WalkLooks(a, d)
      BY <2>6
    <3>2. /\ [act[a] EXCEPT !.pc = "walkfail", !.d = d].pc = "walkfail"
          /\ [act[a] EXCEPT !.seen = @ \cup {d}].pc = "walk"
      BY <1>0, <3>1 DEF WalkLooks, ActorStates
    <3>3. act'[a].pc \in {"walk", "walkfail"}
      BY <1>0, <3>1, <3>2 DEF WalkLooks, Set
    <3> QED
      BY <3>3 DEF Taken
  <2> QED
    BY <2>1, <2>2, <2>3, <2>4, <2>5, <2>6 DEF Step
<1> QED
  BY <1>1, <1>3, <1>5, <1>6, <1>7

(* LEMMA: no step of a slot or a loop registers a second task for a ticket.  *)
LEMMA StepRegistersOnce ==
    ASSUME Base, RegistersOnce, NEW a \in Actors, Step(a)
    PROVE  RegistersOnce'
<1>0. act \in [Actors -> ActorStates]
  BY DEF Base
<1>1. CASE ~ScheduleAccepts(a) /\ ~ScheduleWrites(a) /\ ~ScheduleRegisters(a)
  <2>1. ASSUME NEW b \in Actors, act'[b].pc \in {"write", "register"}
        PROVE  b # a /\ act'[b] = act[b] /\ lock' = lock
    <3>1. b # a /\ act'[b] = act[b]
      BY <1>1, <2>1, StepElsewhere DEF Taken
    <3>2. lock = b
      BY <2>1, <3>1 DEF RegistersOnce
    <3> QED
      BY <1>1, <3>1, <3>2, StepElsewhere, NoneIsNoActor
  <2>2. running' = running
    BY <1>1, StepElsewhere
  <2> QED
    BY <2>1, <2>2 DEF RegistersOnce
<1>2. CASE ScheduleAccepts(a)
  <2>1. \A b \in Actors : act[b].pc \notin {"write", "register"}
    BY <1>2, NoneIsNoActor DEF RegistersOnce, ScheduleAccepts
  <2>2. ASSUME NEW b \in Actors, act'[b].pc \in {"write", "register"}
        PROVE  b = a
    BY <1>0, <1>2, <2>1, <2>2 DEF ScheduleAccepts, Set
  <2>3. act'[a].t = act[a].t
    BY <1>0, <1>2 DEF ScheduleAccepts, Set, ActorStates
  <2> QED
    BY <1>2, <2>2, <2>3 DEF RegistersOnce, ScheduleAccepts
<1>3. CASE ScheduleWrites(a)
  <2>1. act'[a].t = act[a].t
    BY <1>0, <1>3 DEF ScheduleWrites, Set, ActorStates
  <2>2. lock = a /\ running[act[a].t] = None
    BY <1>3 DEF RegistersOnce, ScheduleWrites
  <2> QED
    BY <1>0, <1>3, <2>1, <2>2 DEF RegistersOnce, ScheduleWrites, Set
<1>4. CASE ScheduleRegisters(a)
  <2>1. lock = a
    BY <1>4 DEF RegistersOnce, ScheduleRegisters
  <2>2. Done(a).pc = "loop"
    BY <1>0 DEF Done, ActorStates
  <2>3. PICK s \in Slots : act' = [act EXCEPT ![a] = Done(a),
                                   ![s] = [Off EXCEPT !.pc = "work", !.t = act[a].t]]
    BY <1>4 DEF ScheduleRegisters, FreeSlots
  <2>4. [Off EXCEPT !.pc = "work", !.t = act[a].t].pc = "work"
    BY DEF Off
  <2>5. \A b \in Actors : act'[b].pc \notin {"write", "register"}
    BY <1>0, <2>1, <2>2, <2>3, <2>4 DEF RegistersOnce, Actors
  <2> QED
    BY <2>5 DEF RegistersOnce
<1> QED
  BY <1>1, <1>2, <1>3, <1>4

(* LEMMA: nor does any other step.                                           *)
LEMMA NextRegistersOnce ==
    ASSUME Base, RegistersOnce, [Next]_vars
    PROVE  RegistersOnce'
<1>0. act \in [Actors -> ActorStates] /\ running \in [Tickets -> Slots \cup {None}]
  BY DEF Base, Shared
<1>1. CASE \E a \in Actors : Step(a)
  BY <1>1, StepRegistersOnce
<1>2. ASSUME NEW a \in Actors, Outside(a), lock' = lock,
             \A t \in Tickets : running[t] = None => running'[t] = None
      PROVE  RegistersOnce'
  <2>1. ASSUME NEW b \in Actors, act'[b].pc \in {"write", "register"}
        PROVE  act'[b] = act[b]
    BY <1>2, <2>1 DEF Outside
  <2>2. ASSUME NEW b \in Actors, act[b].pc \in {"write", "register"}
        PROVE  act[b].t \in Tickets
    BY <2>2 DEF Base, Sound, InHand
  <2> QED
    BY <1>2, <2>1, <2>2 DEF RegistersOnce
<1>3. ASSUME NEW s \in Slots, NEW end \in Ends \ {"escape"}, TaskWrites(s, end)
      PROVE  RegistersOnce'
  <2>1. s \in Actors
    BY DEF Actors
  <2>2. Outside(s)
    BY <1>0, <1>3, <2>1 DEF TaskWrites, ActorStates, Set, Outside
  <2> QED
    BY <1>2, <1>3, <2>1, <2>2 DEF TaskWrites
<1>4. ASSUME NEW s \in Slots, TaskEscapes(s)
      PROVE  RegistersOnce'
  <2>1. Off.pc = "off" /\ s \in Actors
    BY DEF Off, Actors
  <2> QED
    BY <1>0, <1>2, <1>4, <2>1 DEF TaskEscapes, Set, Outside
<1>5. ASSUME NEW s \in Slots, TaskPops(s)
      PROVE  RegistersOnce'
  <2>1. s \in Actors
    BY DEF Actors
  <2>2. Outside(s)
    BY <1>0, <1>5, <2>1, EnterIsFresh DEF TaskPops, Off, Set, Outside
  <2>3. \A t \in Tickets : running[t] = None => running'[t] = None
    BY <1>0, <1>5 DEF TaskPops
  <2> QED
    BY <1>2, <1>5, <2>1, <2>2, <2>3 DEF TaskPops
<1>6. ASSUME NEW m \in Messages, ServiceTakes(m[1], m[2])
      PROVE  RegistersOnce'
  <2>1. "service" \in Actors
    BY DEF Actors, Loops
  <2>2. Outside("service")
    BY <1>0, <1>6, <2>1 DEF ServiceTakes, Off, Set, Outside
  <2>3. \A t \in Tickets : running[t] = None => running'[t] = None
    BY <1>0, <1>6 DEF ServiceTakes
  <2> QED
    BY <1>2, <1>6, <2>1, <2>2, <2>3 DEF ServiceTakes
<1>7. CASE ReconcileTick
  <2>1. "reconcile" \in Actors
    BY DEF Actors, Loops
  <2> QED
    BY <1>0, <1>2, <1>7, <2>1, EnterIsFresh DEF ReconcileTick, Set, Outside
<1>8. CASE Operator
  BY <1>8 DEF Operator, Create, Approve, Close, Reopen, Answer, Ask, Flag, NextPhase, RegistersOnce
<1>9. CASE Crash
  BY <1>9, BootSound DEF Crash, RegistersOnce
<1>10. CASE UNCHANGED vars
  BY <1>10 DEF vars, RegistersOnce
<1> QED
  BY <1>1, <1>3, <1>4, <1>5, <1>6, <1>7, <1>8, <1>9, <1>10 DEF Next, TaskEnding, Service

-----------------------------------------------------------------------------
(* Ownership of tickets while nobody reopens one. *)

Busy == {"work", "ended"}

Owned ==
    /\ \A s \in Slots : act[s].pc \in Busy => running[act[s].t] = s
    /\ \A m \in inbox : m[1] = "created"

(* LEMMA: when nobody reopens a ticket, each live task stays the one the     *)
(* registry names.                                                           *)
LEMMA NextOwned ==
    ASSUME Base, RegistersOnce, Owned, "reopen" \notin Moves, [Next]_vars
    PROVE  Owned'
<1>0. /\ act \in [Actors -> ActorStates] /\ running \in [Tickets -> Slots \cup {None}]
      /\ Slots \subseteq Actors
      /\ \A s \in Slots : act[s].pc \in Busy => act[s].t \in Tickets
  BY DEF Base, Shared, Sound, InHand, Busy, Actors
<1>1. ASSUME NEW a \in Actors, running' = running, inbox' \subseteq inbox,
             \A b \in Actors \ {a} : act'[b] = act[b], act'[a].pc \notin Busy
      PROVE  Owned'
  BY <1>0, <1>1 DEF Owned
<1>2. ASSUME NEW a \in Actors, Step(a), ~ScheduleRegisters(a)
      PROVE  Owned'
  <2>1. /\ running' = running /\ inbox' \subseteq inbox /\ act'[a].pc \notin Busy
        /\ \A b \in Actors \ {a} : act'[b] = act[b]
    <3>1. CASE ScheduleAccepts(a) \/ ScheduleWrites(a)
      BY <1>0, <3>1 DEF ScheduleAccepts, ScheduleWrites, Set, Busy, ActorStates
    <3>2. CASE ~ScheduleAccepts(a) /\ ~ScheduleWrites(a)
      BY <1>2, <3>2, StepElsewhere DEF Busy, Taken
    <3> QED
      BY <3>1, <3>2
  <2> QED
    BY <1>1, <2>1
<1>3. ASSUME NEW a \in Actors, ScheduleRegisters(a)
      PROVE  Owned'
  <2> DEFINE s == CHOOSE s \in Slots : s \in FreeSlots
             t == act[a].t
             r == [Off EXCEPT !.pc = "work", !.t = t]
  <2>1. s \in Slots /\ act[s].pc = "off" /\ act[a].pc = "register"
    BY <1>3 DEF ScheduleRegisters, FreeSlots
  <2>2. t \in Tickets /\ running[t] = None
    BY <1>3 DEF ScheduleRegisters, RegistersOnce, Base, Sound, InHand
  <2>3. /\ act' = [act EXCEPT ![a] = Done(a), ![s] = r]
        /\ running' = [running EXCEPT ![t] = s]
        /\ inbox' = inbox
    BY <1>3 DEF ScheduleRegisters
  <2>4. Done(a).pc = "loop" /\ r.pc = "work" /\ r.t = t
    BY <1>0 DEF Done, ActorStates, Off
  <2>5. a # s
    BY <2>1
  <2> HIDE DEF s, r, t
  <2>6. act'[s] = r /\ running'[t] = s
    BY <1>0, <2>1, <2>2, <2>3
  <2>7. ASSUME NEW z \in Slots, z # s, act'[z].pc \in Busy
        PROVE  act'[z] = act[z] /\ act[z].t # t
    <3>1. act'[z] = act[z]
      BY <1>0, <2>3, <2>4, <2>7 DEF Busy
    <3>2. z # None
      BY SchedulerAssumption
    <3> QED
      BY <3>1, <3>2, <2>2, <2>7 DEF Owned
  <2>8. ASSUME NEW z \in Slots, act'[z].pc \in Busy
        PROVE  running'[act'[z].t] = z
    <3>1. CASE z = s
      BY <3>1, <2>4, <2>6
    <3>2. CASE z # s
      <4>1. act'[z] = act[z] /\ act[z].t # t /\ act[z].t \in Tickets /\ running[act[z].t] = z
        BY <1>0, <2>7, <2>8, <3>2 DEF Owned
      <4> QED
        BY <1>0, <2>2, <2>3, <4>1
    <3> QED
      BY <3>1, <3>2
  <2> QED
    BY <2>3, <2>8 DEF Owned
<1>4. ASSUME NEW s \in Slots, NEW end \in Ends \ {"escape"}, TaskWrites(s, end)
      PROVE  Owned'
  <2>1. act'[s].t = act[s].t /\ act[s].pc \in Busy
    BY <1>0, <1>4 DEF TaskWrites, Set, ActorStates, Busy
  <2>2. \A z \in Slots \ {s} : act'[z] = act[z]
    BY <1>0, <1>4 DEF TaskWrites, Set
  <2>3. running' = running /\ inbox' = inbox
    BY <1>4 DEF TaskWrites
  <2> QED
    BY <2>1, <2>2, <2>3 DEF Owned
<1>5. ASSUME NEW s \in Slots, TaskEscapes(s)
      PROVE  Owned'
  <2>1. Off.pc \notin Busy
    BY DEF Off, Busy
  <2> QED
    BY <1>0, <1>1, <1>5, <2>1 DEF TaskEscapes, Set
<1>6. ASSUME NEW s \in Slots, TaskPops(s)
      PROVE  Owned'
  <2>1. act[s].t \in Tickets /\ running[act[s].t] = s
    BY <1>0, <1>6 DEF TaskPops, Owned, Busy
  <2>2. \A z \in Slots \ {s} : act'[z] = act[z]
    BY <1>0, <1>6 DEF TaskPops, Set
  <2>3. act'[s].pc \notin Busy
    BY <1>0, <1>6, EnterIsFresh DEF TaskPops, Set, Off, Busy
  <2>4. running' = [running EXCEPT ![act[s].t] = None] /\ inbox' = inbox
    BY <1>6 DEF TaskPops
  <2>5. ASSUME NEW z \in Slots, act'[z].pc \in Busy
        PROVE  running'[act'[z].t] = z
    <3>1. z # s /\ act'[z] = act[z] /\ running[act[z].t] = z /\ act[z].t \in Tickets
      BY <1>0, <2>2, <2>3, <2>5 DEF Owned
    <3> QED
      BY <1>0, <2>1, <2>4, <3>1
  <2> QED
    BY <2>4, <2>5 DEF Owned
<1>7. ASSUME NEW m \in Messages, ServiceTakes(m[1], m[2])
      PROVE  Owned'
  <2>1. m \in inbox
    BY <1>7 DEF ServiceTakes, Messages
  <2>2. running' = running /\ inbox' \subseteq inbox
    BY <1>7, <2>1 DEF ServiceTakes, Owned
  <2>3. "service" \in Actors
    BY DEF Actors, Loops
  <2>4. \A b \in Actors \ {"service"} : act'[b] = act[b]
    BY <1>0, <1>7, <2>3 DEF ServiceTakes, Set
  <2>5. act'["service"].pc \notin Busy
    BY <1>0, <1>7, <2>3 DEF ServiceTakes, Set, Busy, Off
  <2> QED
    BY <1>1, <2>2, <2>3, <2>4, <2>5
<1>8. CASE ReconcileTick
  <2>1. "reconcile" \in Actors
    BY DEF Actors, Loops
  <2>2. \A b \in Actors \ {"reconcile"} : act'[b] = act[b]
    BY <1>0, <1>8, <2>1 DEF ReconcileTick, Set
  <2>3. act'["reconcile"].pc \notin Busy
    BY <1>0, <1>8, <2>1, EnterIsFresh DEF ReconcileTick, Set, Busy
  <2>4. running' = running /\ inbox' \subseteq inbox
    BY <1>8 DEF ReconcileTick
  <2> QED
    BY <1>1, <2>1, <2>2, <2>3, <2>4
<1>9. CASE Operator
  <2>1. act' = act /\ running' = running
    BY <1>9 DEF Operator, Create, Approve, Close, Reopen, Answer, Ask, Flag, NextPhase
  <2>2. \A m \in inbox' : m \in inbox \/ \E t \in Tickets : m = <<"created", t>>
    BY <1>9 DEF Operator, Create, Approve, Close, Reopen, Answer, Ask, Flag, NextPhase, Move
  <2> QED
    BY <2>1, <2>2 DEF Owned
<1>10. CASE Crash
  <2>1. \A s \in Slots : act'[s].pc \in Busy => running'[act'[s].t] = s
    BY <1>0, <1>10, BootSound DEF Crash, Busy
  <2> QED
    BY <1>10, <2>1 DEF Crash, Owned
<1>11. CASE UNCHANGED vars
  BY <1>11 DEF vars, Owned
<1> QED
  BY <1>2, <1>3, <1>4, <1>5, <1>6, <1>7, <1>8, <1>9, <1>10, <1>11
     DEF Next, TaskEnding, Service

-----------------------------------------------------------------------------
(* Dependencies.  `merged` and `flagged` only grow, so what was true when  *)
(* a ticket was let through stays true; the second part carries it across  *)
(* a crash, where only statuses survive.                                   *)

Vouched == merged \cup flagged

Carries == {"write", "register", "work"}
Begun == {"in_progress", "needs_info"}

MergeInv ==
    /\ \A t \in Tickets : status[t] = "resolved" => t \in Vouched
    /\ \A t \in Tickets : status[t] \in Begun => BlockedBy[t] \subseteq Vouched
    /\ \A a \in Actors : act[a].pc \in Carries => BlockedBy[act[a].t] \subseteq Vouched

(* LEMMA: no step of an actor goes on with a ticket whose dependencies are   *)
(* neither merged nor flagged.                                               *)
LEMMA StepMergeInv ==
    ASSUME Base, MergeInv, NEW a \in Actors, Step(a)
    PROVE  MergeInv'
<1>0. /\ act \in [Actors -> ActorStates] /\ status \in [Tickets -> Status]
      /\ BlockedBy \in [Tickets -> SUBSET Tickets]
      /\ Sound(act[a])
  BY SchedulerAssumption DEF Base, Shared
<1>1. CASE ~ScheduleAccepts(a) /\ ~ScheduleWrites(a) /\ ~ScheduleRegisters(a)
  <2>1. Vouched' = Vouched
    BY <1>1, StepElsewhere DEF Vouched
  <2>2. \A t \in Tickets : status'[t] # "failed" => status'[t] = status[t]
    BY <1>1, StepElsewhere
  <2>3. \A b \in Actors : act'[b].pc \in Carries => act'[b] = act[b]
    BY <1>1, StepElsewhere DEF Carries, Taken
  <2> QED
    BY <2>1, <2>2, <2>3 DEF MergeInv, Begun
<1>2. CASE ScheduleAccepts(a)
  <2>1. act'[a].t = act[a].t /\ \A b \in Actors \ {a} : act'[b] = act[b]
    BY <1>0, <1>2 DEF ScheduleAccepts, Set, ActorStates
  <2>2. act[a].t \in Tickets
    BY <1>0, <1>2 DEF ScheduleAccepts, Sound, InHand
  <2>3. BlockedBy[act[a].t] \subseteq Vouched
    BY <1>0, <1>2, <2>2 DEF ScheduleAccepts, MergeInv
  <2>4. Vouched' = Vouched /\ status' = status
    BY <1>2 DEF ScheduleAccepts, Vouched, ghosts
  <2> QED
    BY <2>1, <2>3, <2>4 DEF MergeInv
<1>3. CASE ScheduleWrites(a)
  <2>1. act'[a].t = act[a].t /\ \A b \in Actors \ {a} : act'[b] = act[b]
    BY <1>0, <1>3 DEF ScheduleWrites, Set, ActorStates
  <2>2. BlockedBy[act[a].t] \subseteq Vouched
    BY <1>3 DEF ScheduleWrites, MergeInv, Carries
  <2>3. Vouched' = Vouched /\ status' = [status EXCEPT ![act[a].t] = "in_progress"]
    BY <1>3 DEF ScheduleWrites, Vouched, ghosts
  <2>4. \A t \in Tickets : t # act[a].t => status'[t] = status[t]
    BY <1>0, <2>3
  <2>5. \A t \in Tickets : t = act[a].t => status'[t] = "in_progress"
    BY <1>0, <2>3
  <2> QED
    BY <2>1, <2>2, <2>3, <2>4, <2>5 DEF MergeInv
<1>4. CASE ScheduleRegisters(a)
  <2>1. Done(a).pc = "loop"
    BY <1>0 DEF Done, ActorStates
  <2>2. PICK s \in Slots : act' = [act EXCEPT ![a] = Done(a),
                                   ![s] = [Off EXCEPT !.pc = "work", !.t = act[a].t]]
    BY <1>4 DEF ScheduleRegisters, FreeSlots
  <2>3. [Off EXCEPT !.pc = "work", !.t = act[a].t].t = act[a].t
    BY DEF Off
  <2>4. BlockedBy[act[a].t] \subseteq Vouched
    BY <1>4 DEF ScheduleRegisters, MergeInv, Carries
  <2>5. \A b \in Actors : act'[b].pc \in Carries =>
           act'[b] = act[b] \/ act'[b].t = act[a].t
    BY <1>0, <2>1, <2>2, <2>3 DEF Carries
  <2>6. Vouched' = Vouched /\ status' = status
    BY <1>4 DEF ScheduleRegisters, Vouched, ghosts
  <2> QED
    BY <2>4, <2>5, <2>6 DEF MergeInv
<1> QED
  BY <1>1, <1>2, <1>3, <1>4

(* LEMMA: nor does any other step.                                           *)
LEMMA NextMergeInv ==
    ASSUME Base, MergeInv, [Next]_vars
    PROVE  MergeInv'
<1>0. /\ act \in [Actors -> ActorStates] /\ status \in [Tickets -> Status]
      /\ Slots \subseteq Actors
      /\ \A s \in Slots : act[s].pc = "work" => act[s].t \in Tickets
  BY DEF Base, Shared, Actors, Sound, InHand
<1>1. ASSUME NEW a \in Actors, Vouched' = Vouched, status' = status,
             \A b \in Actors \ {a} : act'[b] = act[b], act'[a].pc \notin Carries
      PROVE  MergeInv'
  BY <1>1 DEF MergeInv
<1>2. CASE \E a \in Actors : Step(a)
  BY <1>2, StepMergeInv
<1>3. ASSUME NEW s \in Slots, NEW end \in Ends \ {"escape"}, TaskWrites(s, end)
      PROVE  MergeInv'
  <2> DEFINE t == act[s].t
             st == CASE end = "resolved" -> "resolved"
                     [] end = "conflict" -> "merge_conflict"
                     [] OTHER -> "failed"
  <2>1. t \in Tickets
    BY <1>0, <1>3 DEF TaskWrites
  <2>2. /\ status' = [status EXCEPT ![t] = st]
        /\ merged' = IF end = "resolved" THEN merged \cup {t} ELSE merged
        /\ flagged' = flagged
    BY <1>3 DEF TaskWrites, ghosts
  <2>3. st \notin Begun /\ (st = "resolved" => end = "resolved")
    BY DEF Begun
  <2> HIDE DEF st
  <2>4. Vouched \subseteq Vouched' /\ (st = "resolved" => t \in Vouched')
    BY <2>2, <2>3 DEF Vouched
  <2>5. \A u \in Tickets : u # t => status'[u] = status[u]
    BY <1>0, <2>2
  <2>6. status'[t] = st
    BY <1>0, <2>1, <2>2
  <2>7. act'[s].pc = "ended" /\ \A b \in Actors \ {s} : act'[b] = act[b]
    BY <1>0, <1>3 DEF TaskWrites, Set, ActorStates
  <2> HIDE DEF t
  <2>8. \A u \in Tickets : status'[u] = "resolved" => u \in Vouched'
    BY <2>4, <2>5, <2>6 DEF MergeInv
  <2>9. \A u \in Tickets : status'[u] \in Begun => BlockedBy[u] \subseteq Vouched'
    BY <2>3, <2>4, <2>5, <2>6 DEF MergeInv
  <2>10. \A b \in Actors : act'[b].pc \in Carries => BlockedBy[act'[b].t] \subseteq Vouched'
    BY <2>4, <2>7 DEF MergeInv, Carries
  <2> QED
    BY <2>8, <2>9, <2>10 DEF MergeInv
<1>4. ASSUME NEW s \in Slots, TaskEscapes(s)
      PROVE  MergeInv'
  <2>1. Off.pc \notin Carries
    BY DEF Off, Carries
  <2> QED
    BY <1>0, <1>1, <1>4, <2>1 DEF TaskEscapes, Set, Vouched
<1>5. ASSUME NEW s \in Slots, TaskPops(s)
      PROVE  MergeInv'
  <2>1. act'[s].pc \notin Carries
    BY <1>0, <1>5, EnterIsFresh DEF TaskPops, Set, Off, Carries
  <2>2. \A b \in Actors \ {s} : act'[b] = act[b]
    BY <1>0, <1>5 DEF TaskPops, Set
  <2> QED
    BY <1>0, <1>1, <1>5, <2>1, <2>2 DEF TaskPops, Vouched
<1>6. ASSUME NEW m \in Messages, ServiceTakes(m[1], m[2])
      PROVE  MergeInv'
  <2>1. "service" \in Actors
    BY DEF Actors, Loops
  <2>2. act'["service"].pc \notin Carries
    BY <1>0, <1>6, <2>1 DEF ServiceTakes, Set, Carries, Off
  <2>3. \A b \in Actors \ {"service"} : act'[b] = act[b]
    BY <1>0, <1>6, <2>1 DEF ServiceTakes, Set
  <2> QED
    BY <1>1, <1>6, <2>1, <2>2, <2>3 DEF ServiceTakes, Vouched, ghosts
<1>7. CASE ReconcileTick
  <2>1. "reconcile" \in Actors
    BY DEF Actors, Loops
  <2>2. act'["reconcile"].pc \notin Carries
    BY <1>0, <1>7, <2>1, EnterIsFresh DEF ReconcileTick, Set, Carries
  <2>3. \A b \in Actors \ {"reconcile"} : act'[b] = act[b]
    BY <1>0, <1>7, <2>1 DEF ReconcileTick, Set
  <2> QED
    BY <1>1, <1>7, <2>1, <2>2, <2>3 DEF ReconcileTick, Vouched, ghosts
<1>8. CASE Operator
  <2>1. act' = act /\ Vouched \subseteq Vouched'
    BY <1>8 DEF Operator, Create, Approve, Close, Reopen, Answer, Ask, Flag, NextPhase,
                Vouched, ghosts
  <2>2. CASE \E t \in Tickets : Create(t) \/ Approve(t) \/ Close(t) \/ Reopen(t)
    <3>1. \A t \in Tickets : status'[t] \in {status[t], "open", "closed"}
      BY <1>0, <2>2 DEF Create, Approve, Close, Reopen
    <3> QED
      BY <2>1, <3>1 DEF MergeInv, Begun
  <2>3. CASE \E t \in Tickets : Answer(t)
    <3>1. PICK t \in Tickets : Answer(t)
      BY <2>3
    <3>2. /\ \A u \in Tickets : u # t => status'[u] = status[u]
          /\ status[t] = "needs_info" /\ status'[t] = "in_progress"
      BY <1>0, <3>1 DEF Answer
    <3> QED
      BY <2>1, <3>2 DEF MergeInv, Begun
  <2>4. CASE \E s \in Slots : Ask(s) \/ Flag(s) \/ NextPhase(s)
    <3>1. PICK s \in Slots : Ask(s) \/ Flag(s) \/ NextPhase(s)
      BY <2>4
    <3>2. act[s].pc = "work" /\ act[s].t \in Tickets
      BY <1>0, <3>1 DEF Ask, Flag, NextPhase
    <3>f. CASE Flag(s)
      <4>1. /\ \A u \in Tickets : u # act[s].t => status'[u] = status[u]
            /\ status'[act[s].t] = "resolved" /\ act[s].t \in Vouched'
        BY <1>0, <3>f, <3>2 DEF Flag, Vouched
      <4> QED
        BY <2>1, <4>1 DEF MergeInv, Begun
    <3>3. ~Flag(s) => /\ \A u \in Tickets : u # act[s].t => status'[u] = status[u]
          /\ status'[act[s].t] \in Begun
      BY <1>0, <3>1, <3>2 DEF Ask, NextPhase, Begun
    <3>4. BlockedBy[act[s].t] \subseteq Vouched
      BY <1>0, <3>2 DEF MergeInv, Carries
    <3> QED
      BY <2>1, <3>f, <3>3, <3>4 DEF MergeInv, Begun
  <2> QED
    BY <1>8, <2>2, <2>3, <2>4 DEF Operator
<1>9. CASE Crash
  <2>1. Vouched' = Vouched /\ status' = status
    BY <1>9 DEF Crash, Vouched
  <2>2. \A a \in Actors : act'[a].pc = "work" =>
           act'[a].t \in Tickets /\ status[act'[a].t] \in Begun
    BY <1>9, BootSound DEF Crash, Begun
  <2>3. \A a \in Actors : act'[a].pc \in Carries => act'[a].pc = "work"
    BY <1>9, BootSound DEF Crash, Carries
  <2> QED
    BY <2>1, <2>2, <2>3 DEF MergeInv
<1>10. CASE UNCHANGED vars
  BY <1>10 DEF vars, ghosts, MergeInv, Vouched
<1> QED
  BY <1>2, <1>3, <1>4, <1>5, <1>6, <1>7, <1>8, <1>9, <1>10
     DEF Next, TaskEnding, Service

-----------------------------------------------------------------------------
(* Every reachable state of the scheduler is well formed. *)
THEOREM SchedulerTypeOK == Spec => []TypeOK
<1>1. Base => TypeOK
  BY DEF Base, Shared, TypeOK
<1>2. Base /\ [Next]_vars => Base'
  BY NextBase
<1> QED
  BY <1>1, <1>2, InitBase, PTL DEF Spec

(* _schedule_lock serialises the starts: between the checks of             *)
(* _handle_schedule and the registration nobody else gets to register the  *)
(* same ticket, whatever operators and agents do and however tasks end.    *)
THEOREM SchedulerRegistersOnce == Spec => []RegistersOnce
<1>1. Init => RegistersOnce
  <2> SUFFICES ASSUME Init PROVE RegistersOnce
    OBVIOUS
  <2>1. \A a \in Actors : act[a].pc \in {"off", "loop"}
    BY EnterIsFresh DEF Init, Off
  <2> QED
    BY <2>1 DEF RegistersOnce
<1>2. Base /\ RegistersOnce /\ [Next]_vars => Base' /\ RegistersOnce'
  BY NextBase, NextRegistersOnce
<1> QED
  BY <1>1, <1>2, InitBase, PTL DEF Spec

(* Two tasks never work on one ticket as long as nobody reopens tickets:   *)
(* resumed, unblocked, scanned and announced tickets all go through the    *)
(* registry.  (With reopen it is false: the run sched_reopen.)             *)
THEOREM SchedulerOneTaskPerTicket ==
    ASSUME "reopen" \notin Moves
    PROVE  Spec => []OneTaskPerTicket
<1> DEFINE Inv == Base /\ RegistersOnce /\ Owned
<1>1. Init => Inv
  <2> SUFFICES ASSUME Init PROVE RegistersOnce /\ Owned
    BY InitBase
  <2>1. \A a \in Actors : act[a].pc \in {"off", "loop"}
    BY EnterIsFresh DEF Init, Off
  <2>2. inbox = {}
    BY DEF Init
  <2> QED
    BY <2>1, <2>2 DEF RegistersOnce, Owned, Busy, Actors
<1>2. Inv /\ [Next]_vars => Inv'
  BY NextBase, NextRegistersOnce, NextOwned
<1>3. Inv => OneTaskPerTicket
  BY DEF Owned, OneTaskPerTicket, Working, Busy
<1> QED
  BY <1>1, <1>2, <1>3, PTL DEF Spec

(* No agent works on a ticket unless each of its dependencies is merged or *)
(* was called resolved by the agent that worked on it, for every           *)
(* dependency graph, in every interleaving, with reopened and closed       *)
(* tickets, agents that flag, escaping exceptions and crashes.             *)
THEOREM SchedulerDependenciesMerged == Spec => []DependenciesMerged
<1> DEFINE Inv == Base /\ MergeInv
<1>1. Init => Inv
  <2> SUFFICES ASSUME Init PROVE MergeInv
    BY InitBase
  <2>1. \A a \in Actors : act[a].pc \in {"off", "loop"}
    BY EnterIsFresh DEF Init, Off
  <2>2. \A t \in Tickets : status[t] \in {"absent", "proposed", "open"}
    BY SchedulerAssumption DEF Init
  <2> QED
    BY <2>1, <2>2 DEF MergeInv, Begun, Carries
<1>2. Inv /\ [Next]_vars => Inv'
  BY NextBase, NextMergeInv
<1>3. Inv => DependenciesMerged
  BY DEF MergeInv, Vouched, DependenciesMerged, Working, Carries, Actors
<1> QED
  BY <1>1, <1>2, <1>3, PTL DEF Spec

=============================================================================
