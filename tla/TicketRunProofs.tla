--------------------------- MODULE TicketRunProofs ---------------------------
(***************************************************************************)
(* Proofs about TicketRun, for every workflow, every set of findings and   *)
(* every bound on crashes, retries, sweeps, questions and handoffs.        *)
(*                                                                         *)
(* Base is the type invariant with the fact that makes it inductive: where *)
(* the code indexes the workflow, idx is the index of a phase.  On it rest *)
(* six independent inductive invariants, one for each property:            *)
(* RoundsInv, WaitsInv, TriedInv, CleanInv, OrderInv and MergedInv.  The   *)
(* last two, with PausedInv and LifeInv, map every step to one of          *)
(* TicketLifecycle.                                                        *)
(***************************************************************************)
EXTENDS TicketRun, TLAPS

(* Inside the phase loop, where idx is the index of a phase. *)
InLoop == {"agent", "review", "gate", "thread", "record", "advance",
           "blocked", "sa", "route", "recommit"}

Base == TypeOK /\ (pc \in InLoop => idx \in Phases)

-----------------------------------------------------------------------------
(* The workflow is a finite sequence (load_workflow). *)
LEMMA RoleLen == Len(Role) \in Nat
  BY WorkflowAssumption

(* A blocked phase is sent back, never to itself nor forward               *)
(* (_most_recent_phase_with_role and _route_one look before the blocked    *)
(* phase only).                                                            *)
LEMMA RoutesBack ==
  ASSUME idx \in Phases
  PROVE  FixIdx \subseteq 1..(idx - 1)
PROOF
<1>1. Len(Role) \in Nat /\ idx \in Int
  BY RoleLen DEF Phases
<1>2. MostRecentDev \subseteq 1..(idx - 1)
  BY <1>1 DEF MostRecentDev, Phases
<1>3. \A k : RouteOne(k) \subseteq 1..(idx - 1)
  BY <1>2 DEF RouteOne
<1>4. UNION {RouteOne(k) : k \in posted.keys} \subseteq 1..(idx - 1)
  BY <1>3
<1>5. QED
  BY <1>2, <1>4 DEF FixIdx

(* The comments on file keep their type. *)
LEMMA PostType ==
  ASSUME TypeOK, NEW K \in SUBSET Keys, NEW any
  PROVE  Post(K, any) \in [cycle : Nat, keys : SUBSET Keys]
PROOF
<1>1. posted \in [cycle : Nat, keys : SUBSET Keys] /\ cycle \in Nat
  BY DEF TypeOK
<1>2. [posted EXCEPT !.keys = @ \cup K] \in [cycle : Nat, keys : SUBSET Keys]
  BY <1>1
<1>3. [cycle |-> cycle, keys |-> K] \in [cycle : Nat, keys : SUBSET Keys]
  BY <1>1
<1>4. QED
  BY <1>1, <1>2, <1>3 DEF Post

(* Initially. *)
LEMMA InitBase == Init => Base
PROOF
<1> SUFFICES ASSUME Init PROVE Base
  OBVIOUS
<1>1. posted \in [cycle : Nat, keys : SUBSET Keys]
  BY DEF Init
<1>2. surv \in [Phases -> [Keys -> Nat]] /\ prev \in [Phases -> SUBSET Keys]
  BY DEF Init, Unraised
<1>3. fix \in [Phases -> Nat] /\ sa \in [Phases -> Nat]
  BY DEF Init, Zero
<1>4. idx \in 1..(Len(Role) + 1)
  BY RoleLen DEF Init
<1>5. handoff \in [Phases -> {"none", "pending", "accepted", "rejected"}]
  BY DEF Init
<1>6. /\ asks \in 0..MaxAsks /\ opens \in 0..MaxOpens
      /\ crashes \in 0..MaxCrashes /\ reopens \in 0..MaxReopens
      /\ sweeps \in 0..MaxSweeps
  BY BoundAssumption DEF Init
<1>7. pc = "queued" /\ cycle = 0 /\ status = "in_progress" /\ result = "none"
  BY DEF Init
<1>8. /\ open \in BOOLEAN /\ dirty \in BOOLEAN /\ merged \in BOOLEAN
      /\ tried \subseteq Phases /\ lost \in BOOLEAN /\ unanswered \in BOOLEAN
      /\ sweep = "idle" /\ escalated = FALSE
  BY DEF Init
<1>9. recorded \subseteq Phases /\ dismissed \subseteq Keys /\ fresh
     \subseteq Phases
  BY DEF Init
<1>10. QED
  BY <1>1, <1>2, <1>3, <1>4, <1>5, <1>6, <1>7, <1>8, <1>9 DEF Base,
       TypeOK, InLoop, Statuses, Places

(* Every step of every party keeps Base. *)
LEMMA NextBase == Base /\ [Next]_vars => Base'
PROOF
<1> SUFFICES ASSUME Base, [Next]_vars PROVE Base'
  OBVIOUS
<1>1. /\ Len(Role) \in Nat /\ MaxAsks \in Nat /\ MaxOpens \in Nat
      /\ MaxCrashes \in Nat /\ MaxReopens \in Nat /\ MaxSweeps \in Nat
  BY RoleLen, BoundAssumption
<1>2. CASE Dispatch
  BY <1>1, <1>2 DEF Dispatch, CurrentPhaseIndex, Zero, Base, TypeOK,
       InLoop, Goto, disk, locals, tracker, history, sweeper, budget, Places, Statuses
<1>3. CASE WorktreeFails
  BY <1>1, <1>3 DEF WorktreeFails, Base, TypeOK, InLoop, Goto, disk,
       locals, tracker, history, sweeper, budget, Places, Statuses
<1>4. CASE Resume
  BY <1>1, <1>4 DEF Resume, Base, TypeOK, InLoop, Goto, disk, locals,
       tracker, history, sweeper, budget, Places, Statuses
<1>5. CASE StartPhase
  BY <1>1, <1>5 DEF StartPhase, Base, TypeOK, InLoop, Goto, disk, locals,
       tracker, history, sweeper, budget, Places, Statuses
<1>6. CASE AllPhasesDone
  BY <1>1, <1>6 DEF AllPhasesDone, Base, TypeOK, InLoop, Goto, disk,
       locals, tracker, history, sweeper, budget, Places, Statuses
<1>7. CASE AgentReturns
  <2>1. pc = "agent" /\ status \in Statuses
    BY <1>7 DEF AgentReturns, Base, TypeOK
  <2>2. result' \in {"none", "success", "blocked", "needs_info", "failed"}
    BY <1>7 DEF AgentReturns, StatusToResult
  <2>3. pc' \in {"gate", "record"}
    BY <1>7 DEF AgentReturns, Goto, AfterPhase
  <2>4. idx \in Phases /\ UNCHANGED <<disk, idx, fix, sa, cycle, tracker,
       history, sweeper, budget>>
    BY <1>7, <2>1 DEF AgentReturns, Base, InLoop
  <2>5. QED
    BY <1>1, <2>2, <2>3, <2>4 DEF Base, TypeOK, InLoop, Goto, disk,
         locals, tracker, history, sweeper, budget, Places, Statuses
<1>8. CASE AgentRaises
  BY <1>1, <1>8 DEF AgentRaises, Base, TypeOK, InLoop, Goto, disk, locals,
       tracker, history, sweeper, budget, Places, Statuses
<1>9. CASE Escapes
  BY <1>1, <1>9 DEF Escapes, Base, TypeOK, InLoop, Goto, disk, locals,
       tracker, history, sweeper, budget, Places, Statuses
<1>10. CASE \E K \in SUBSET Keys : ReviewBlocks(K)
  <2>1. PICK K \in SUBSET Keys : ReviewBlocks(K)
    BY <1>10
  <2>2. pc = "review" /\ idx \in Phases /\ cycle \in Nat
    BY <2>1 DEF ReviewBlocks, Base, TypeOK, InLoop
  <2>3. posted' \in [cycle : Nat, keys : SUBSET Keys]
    BY <2>1, PostType DEF ReviewBlocks, Base
  <2>4. surv' \in [Phases -> [Keys -> Nat]]
    <3>1. Persist(idx, K \ dismissed) \in [Keys -> Nat]
      BY <2>2 DEF Persist, Base, TypeOK
    <3>2. QED
      BY <2>1, <2>2, <3>1 DEF ReviewBlocks, Base, TypeOK
  <2>5. prev' \in [Phases -> SUBSET Keys]
    BY <2>1, <2>2 DEF ReviewBlocks, Base, TypeOK
  <2>6. QED
    BY <1>1, <2>1, <2>2, <2>3, <2>4, <2>5 DEF ReviewBlocks, Base, TypeOK,
         InLoop, Goto, disk, locals, tracker, history, sweeper, budget, Places, Statuses
<1>11. CASE \E K \in SUBSET Keys, n \in BOOLEAN : ReviewPasses(K, n)
  <2>1. PICK K \in SUBSET Keys, n \in BOOLEAN : ReviewPasses(K, n)
    BY <1>11
  <2>2. pc = "review" /\ idx \in Phases
    BY <2>1 DEF ReviewPasses, Base, TypeOK, InLoop
  <2>3. posted' \in [cycle : Nat, keys : SUBSET Keys]
    BY <2>1, PostType DEF ReviewPasses, Base
  <2>4. surv' \in [Phases -> [Keys -> Nat]] /\ prev' \in [Phases -> SUBSET
       Keys]
    BY <2>1, <2>2 DEF ReviewPasses, Forget, Base, TypeOK
  <2>5. QED
    BY <1>1, <2>1, <2>2, <2>3, <2>4 DEF ReviewPasses, Base, TypeOK,
         InLoop, Goto, disk, locals, tracker, history, sweeper, budget, Places, Statuses
<1>12. CASE ReviewBreaks
  <2>1. pc = "review" /\ idx \in Phases
    BY <1>12 DEF ReviewBreaks, Base, TypeOK, InLoop
  <2>2. surv' \in [Phases -> [Keys -> Nat]] /\ prev' \in [Phases -> SUBSET
       Keys]
    BY <1>12, <2>1 DEF ReviewBreaks, Forget, Base, TypeOK
  <2>3. QED
    BY <1>1, <1>12, <2>1, <2>2 DEF ReviewBreaks, Base, TypeOK, InLoop,
         Goto, disk, locals, tracker, history, sweeper, budget, Places, Statuses
<1>13. CASE Gate
  BY <1>1, <1>13 DEF Gate, Base, TypeOK, InLoop, Goto, disk, locals,
       tracker, history, sweeper, budget, Places, Statuses
<1>14. CASE ThreadClears
  BY <1>1, <1>14 DEF ThreadClears, Base, TypeOK, InLoop, Goto, disk,
       locals, tracker, history, sweeper, budget, Places, Statuses
<1>15. CASE Record
  BY <1>1, <1>15 DEF Record, Base, TypeOK, InLoop, Goto, disk, locals,
       tracker, history, sweeper, budget, Places, Statuses
<1>16. CASE Advance
  <2>1. idx \in Phases /\ idx' = idx + 1
    BY <1>16 DEF Advance, Base, InLoop
  <2>2. idx' \in 1..(Len(Role) + 1)
    BY <1>1, <2>1 DEF Phases
  <2>3. QED
    BY <1>1, <1>16, <2>2 DEF Advance, Base, TypeOK, InLoop, Goto, disk,
         locals, tracker, history, sweeper, budget, Places, Statuses
<1>17. CASE Commit
  <2>1. dirty' \in BOOLEAN /\ pc' = "head"
    BY <1>17 DEF Commit, CommitWorktree, Goto
  <2>2. UNCHANGED <<status, recorded, handoff, open, dismissed, posted, merged,
                    locals, tracker, history, sweeper, budget>>
    BY <1>17 DEF Commit, CommitWorktree
  <2>3. QED
    BY <2>1, <2>2 DEF Base, TypeOK, InLoop, locals, tracker, history, sweeper,
         budget, Places
<1>18. CASE CommitFails
  BY <1>1, <1>18 DEF CommitFails, Base, TypeOK, InLoop, Goto, disk,
       locals, tracker, history, sweeper, budget, Places, Statuses
<1>19. CASE Fail
  BY <1>1, <1>19 DEF Fail, ForgetTicket, Unraised, Base, TypeOK, InLoop, Goto, disk, locals,
       tracker, history, sweeper, budget, Places, Statuses
<1>20. CASE Blocked
  BY <1>1, <1>20 DEF Blocked, Base, TypeOK, InLoop, Goto, disk, locals,
       tracker, history, sweeper, budget, Places, Statuses
<1>21. CASE \E v \in Verdicts : Adjudicate(v)
  <2>1. PICK v \in Verdicts : Adjudicate(v)
    BY <1>21
  <2>2. pc = "sa" /\ idx \in Phases
    BY <2>1 DEF Adjudicate, Base, TypeOK, InLoop
  <2>3. Docket \subseteq Keys
    BY <2>2 DEF Docket, Escalated, Base, TypeOK
  <2>4. dismissed' \subseteq Keys
    BY <2>1, <2>3 DEF Adjudicate, Base, TypeOK
  <2>5. surv' \in [Phases -> [Keys -> Nat]]
    BY <2>1, <2>2 DEF Adjudicate, Base, TypeOK
  <2>6. prev' \in [Phases -> SUBSET Keys] /\ cycle' \in Nat
    BY <2>1, <2>2 DEF Adjudicate, Base, TypeOK
  <2>7. pc' \in {"fail", "head", "route"}
    BY <2>1 DEF Adjudicate, Goto
  <2>8. UNCHANGED <<status, recorded, handoff, open, dirty, posted,
       merged, idx, result, fix, sa, history, sweeper, budget>>
    BY <2>1 DEF Adjudicate
  <2>9. QED
    BY <1>1, <2>2, <2>4, <2>5, <2>6, <2>7, <2>8 DEF Base, TypeOK, InLoop,
         Goto, disk, locals, tracker, history, sweeper, budget, Places, Statuses
<1>22. CASE AdjudicationFails
  BY <1>1, <1>22 DEF AdjudicationFails, Base, TypeOK, InLoop, Goto, disk,
       locals, tracker, history, sweeper, budget, Places, Statuses
<1>23. CASE Route
  BY <1>1, <1>23 DEF Route, Base, TypeOK, InLoop, Goto, disk, locals,
       tracker, history, sweeper, budget, Places, Statuses
<1>24. CASE NoRoute
  BY <1>1, <1>24 DEF NoRoute, Base, TypeOK, InLoop, Goto, disk, locals,
       tracker, history, sweeper, budget, Places, Statuses
<1>25. CASE Recommit
  <2>1. idx \in Phases /\ idx' \in FixIdx
    BY <1>25 DEF Recommit, Base, InLoop
  <2>2. idx' \in Phases /\ idx' \in 1..(Len(Role) + 1)
    BY <1>1, <2>1, RoutesBack DEF Phases
  <2>3. dirty' \in BOOLEAN
    BY <1>25 DEF Recommit, CommitWorktree, Base, TypeOK
  <2>4. UNCHANGED <<recorded, handoff, open, dismissed, posted, merged>>
    BY <1>25 DEF Recommit, CommitWorktree
  <2>5. QED
    BY <1>1, <1>25, <2>2, <2>3, <2>4 DEF Recommit, Base, TypeOK, InLoop,
         Goto, disk, locals, tracker, history, sweeper, budget, Places, Statuses
<1>26. CASE Merge
  BY <1>1, <1>26 DEF Merge, Base, TypeOK, InLoop, Goto, disk, locals,
       tracker, history, sweeper, budget, Places, Statuses
<1>27. CASE MergeFails
  BY <1>1, <1>27 DEF MergeFails, Base, TypeOK, InLoop, Goto, disk, locals,
       tracker, history, sweeper, budget, Places, Statuses
<1>28. CASE MergeConflicts
  BY <1>1, <1>28 DEF MergeConflicts, Base, TypeOK, InLoop, Goto, disk,
       locals, tracker, history, sweeper, budget, Places, Statuses
<1>29. CASE ResolverReturns
  BY <1>1, <1>29 DEF ResolverReturns, Base, TypeOK, InLoop, Goto, disk,
       locals, tracker, history, sweeper, budget, Places, Statuses
<1>30. CASE GiveUpMerge
  BY <1>1, <1>30 DEF GiveUpMerge, Base, TypeOK, InLoop, Goto, disk,
       locals, tracker, history, sweeper, budget, Places, Statuses
<1>31. CASE Finish
  BY <1>1, <1>31 DEF Finish, Base, TypeOK, InLoop, Goto, disk, locals,
       tracker, history, sweeper, budget, Places, Statuses
<1>32. CASE RemoveWorktree
  BY <1>1, <1>32 DEF RemoveWorktree, Base, TypeOK, InLoop, Goto, disk,
       locals, tracker, history, sweeper, budget, Places, Statuses
<1>33. CASE AgentEdits
  BY <1>1, <1>33 DEF AgentEdits, Base, TypeOK, InLoop, Goto, disk, locals,
       tracker, history, sweeper, budget, Places, Statuses
<1>34. CASE \E st \in Flags : AgentFlags(st)
  BY <1>1, <1>34, AgentAssumption DEF AgentFlags, Base, TypeOK, InLoop,
       Goto, disk, locals, tracker, history, sweeper, budget, Places, Statuses
<1>35. CASE AgentAsks
  BY <1>1, <1>35 DEF AgentAsks, Base, TypeOK, InLoop, Goto, disk, locals,
       tracker, history, sweeper, budget, Places, Statuses
<1>36. CASE AgentHandsOff
  BY <1>1, <1>36 DEF AgentHandsOff, Base, TypeOK, InLoop, Goto, disk,
       locals, tracker, history, sweeper, budget, Places, Statuses
<1>37. CASE Answer
  <2>1. open' \in BOOLEAN /\ unanswered' \in BOOLEAN /\ status' \in Statuses
    BY <1>37 DEF Answer, Base, TypeOK, Statuses
  <2>2. UNCHANGED <<recorded, handoff, dirty, dismissed, posted, merged, pc,
                    locals, tracker, fresh, tried, lost, sweeper, budget>>
    BY <1>37 DEF Answer
  <2>3. QED
    BY <2>1, <2>2 DEF Base, TypeOK, InLoop, locals, tracker, sweeper, budget
<1>38. CASE SettleEntry
  <2>1. open' \in BOOLEAN /\ unanswered' \in BOOLEAN
    BY <1>38 DEF SettleEntry
  <2>2. UNCHANGED <<status, recorded, handoff, dirty, dismissed, posted,
       merged, pc, locals, tracker, fresh, tried, lost, sweeper, budget>>
    BY <1>38 DEF SettleEntry
  <2>3. QED
    BY <1>1, <2>1, <2>2 DEF Base, TypeOK, InLoop, Goto, disk, locals,
         tracker, history, sweeper, budget, Places, Statuses
<1>39. CASE \E p \in Phases : Evaluate(p)
  BY <1>1, <1>39 DEF Evaluate, Base, TypeOK, InLoop, Goto, disk, locals,
       tracker, history, sweeper, budget, Places, Statuses
<1>40. CASE Reopen
  <2>1. status' \in Statuses /\ unanswered' \in BOOLEAN /\ pc' = "queued"
    BY <1>40 DEF Reopen, Goto, Statuses
  <2>2. reopens' \in 0..MaxReopens
    BY <1>1, <1>40 DEF Reopen, Base, TypeOK
  <2>3. UNCHANGED <<recorded, handoff, open, dirty, dismissed, posted, merged,
                    locals, tracker, fresh, tried, lost, sweeper,
                    asks, opens, crashes, sweeps>>
    BY <1>40 DEF Reopen
  <2>4. QED
    BY <2>1, <2>2, <2>3 DEF Base, TypeOK, InLoop, locals, tracker, sweeper, Places
<1>41. CASE Crash
  <2>1. crashes' \in 0..MaxCrashes
    BY <1>1, <1>41 DEF Crash, Base, TypeOK
  <2>2. fix' \in [Phases -> Nat] /\ sa' \in [Phases -> Nat]
    BY <1>41 DEF Crash, Zero
  <2>3. surv' \in [Phases -> [Keys -> Nat]] /\ prev' \in [Phases -> SUBSET
       Keys]
    BY <1>41 DEF Crash, Unraised
  <2>4. QED
    BY <1>1, <1>41, <2>1, <2>2, <2>3 DEF Crash, Base, TypeOK, InLoop,
         Goto, disk, locals, tracker, history, sweeper, budget, Places, Statuses
<1>42. CASE Restart
  BY <1>1, <1>42 DEF Restart, Base, TypeOK, InLoop, Goto, disk, locals,
       tracker, history, sweeper, budget, Places, Statuses
<1>43. CASE Sweep
  <2>1. /\ status' \in Statuses /\ sweep' \in {"idle", "listed", "posted"}
        /\ escalated' \in BOOLEAN
    BY <1>43 DEF Sweep, SweepLists, SweepPosts, SweepFlips, Base, TypeOK, disk,
         Statuses
  <2>2. sweeps' \in 0..MaxSweeps
    BY <1>1, <1>43 DEF Sweep, SweepLists, SweepPosts, SweepFlips, Base, TypeOK,
         budget
  <2>3. /\ UNCHANGED <<recorded, handoff, open, dirty, dismissed, posted, merged,
                       pc, locals, tracker, history>>
        /\ UNCHANGED <<asks, opens, crashes, reopens>>
    BY <1>43 DEF Sweep, SweepLists, SweepPosts, SweepFlips, disk, budget
  <2>4. QED
    BY <2>1, <2>2, <2>3 DEF Base, TypeOK, InLoop, locals, tracker, history
<1>44. CASE UNCHANGED vars
  BY <1>44 DEF vars, Base, TypeOK, InLoop, disk, locals, tracker, history,
       sweeper, budget
<1>45. QED
  BY <1>1, <1>2, <1>3, <1>4, <1>5, <1>6, <1>7, <1>8, <1>9, <1>10, <1>11,
       <1>12, <1>13, <1>14, <1>15, <1>16, <1>17, <1>18, <1>19, <1>20, <1>21,
       <1>22, <1>23, <1>24, <1>25, <1>26, <1>27, <1>28, <1>29, <1>30, <1>31,
       <1>32, <1>33, <1>34, <1>35, <1>36, <1>37, <1>38, <1>39, <1>40, <1>41,
       <1>42, <1>43, <1>44
     DEF Next, Task, Agent, People
-----------------------------------------------------------------------------
(* The type invariant of TicketRun, for every workflow and every bound.    *)
THEOREM TicketTypeOK == Spec => []TypeOK
PROOF
<1>1. Spec => []Base
  BY InitBase, NextBase, PTL DEF Spec
<1>2. Base => TypeOK
  BY DEF Base
<1>3. QED
  BY <1>1, <1>2, PTL

-----------------------------------------------------------------------------
(* The rounds of the fix loop.  The budget of rounds may only be           *)
(* overdrawn where the ticket has been given up, or before a dispatch      *)
(* starts the counters again.                                              *)
Given == {"fail", "done", "queued", "off", "left"}

RoundsInv ==
    \A p \in Phases :
        /\ sa[p] <= MAX_SA_ESCALATIONS
        /\ pc \in Given \/ fix[p] <= max_fix_cycles + sa[p]

(* Every step keeps the account of rounds (fix_counts, sa_escalations).    *)
LEMMA NextRounds == Base /\ RoundsInv /\ [Next]_vars => RoundsInv'
PROOF
<1> SUFFICES ASSUME Base, RoundsInv, [Next]_vars PROVE RoundsInv'
  OBVIOUS
<1>1. /\ fix \in [Phases -> Nat] /\ sa \in [Phases -> Nat]
      /\ max_fix_cycles \in Nat /\ MAX_SA_ESCALATIONS \in Nat
  BY DEF Base, TypeOK, max_fix_cycles, MAX_SA_ESCALATIONS
<1>2. CASE Dispatch
  BY <1>1, <1>2 DEF Dispatch, Zero, RoundsInv
<1>3. CASE Blocked
  <2>1. pc = "blocked" /\ idx \in Phases
    BY <1>3 DEF Blocked, Base, InLoop
  <2>2. \A p \in Phases : fix[p] <= max_fix_cycles + sa[p]
    BY <2>1 DEF RoundsInv, Given
  <2>3. fix' = [fix EXCEPT ![idx] = fix[idx] + 1]
    BY <1>3 DEF Blocked
  <2>4. CASE sa' = [sa EXCEPT ![idx] = sa[idx] + 1] /\ sa[idx] <
       MAX_SA_ESCALATIONS
    BY <1>1, <2>1, <2>2, <2>3, <2>4 DEF RoundsInv, MAX_SA_ESCALATIONS
  <2>5. CASE sa' = sa /\ pc' = "fail"
    BY <1>1, <2>5 DEF RoundsInv, Given
  <2>6. CASE sa' = sa /\ ~CapTripped(fix[idx] + 1)
    BY <1>1, <2>1, <2>2, <2>3, <2>6 DEF RoundsInv, CapTripped
  <2>7. QED
    BY <1>3, <2>4, <2>5, <2>6 DEF Blocked, Goto
<1>4. CASE \E v \in Verdicts : Adjudicate(v)
  <2>1. pc = "sa" /\ UNCHANGED <<fix, sa>>
    BY <1>4 DEF Adjudicate
  <2>2. QED
    BY <2>1 DEF RoundsInv, Given
<1>5. CASE Crash
  BY <1>1, <1>5 DEF Crash, Zero, RoundsInv
<1>6. CASE Resume \/ StartPhase \/ AllPhasesDone \/ AgentReturns \/
          AgentRaises \/ Escapes
  BY <1>1, <1>6 DEF Resume, StartPhase, AllPhasesDone, AgentReturns,
       AgentRaises, Escapes, RoundsInv, Given, Goto, disk, locals, tracker
<1>7. CASE (\E K \in SUBSET Keys : ReviewBlocks(K)) \/ (\E K \in SUBSET
          Keys, n \in BOOLEAN : ReviewPasses(K, n)) \/ ReviewBreaks
  BY <1>1, <1>7 DEF ReviewBlocks, ReviewPasses, ReviewBreaks, RoundsInv,
       Given, Goto, disk, locals, tracker
<1>8. CASE Gate \/ ThreadClears \/ Record \/ Advance \/ Commit \/ CommitFails
  BY <1>1, <1>8 DEF Gate, ThreadClears, Record, Advance, Commit,
       CommitFails, RoundsInv, Given, Goto, disk, locals, tracker
<1>9. CASE AdjudicationFails \/ Route \/ NoRoute \/ Recommit
  BY <1>1, <1>9 DEF AdjudicationFails, Route, NoRoute, Recommit,
       RoundsInv, Given, Goto, disk, locals, tracker
<1>10. CASE Merge \/ MergeFails \/ MergeConflicts \/ ResolverReturns \/
          GiveUpMerge \/ Finish \/ RemoveWorktree
  BY <1>1, <1>10 DEF Merge, MergeFails, MergeConflicts, ResolverReturns,
       GiveUpMerge, Finish, RemoveWorktree, RoundsInv, Given, Goto, disk,
       locals, tracker
<1>11. CASE AgentEdits \/ (\E st \in Flags : AgentFlags(st)) \/ AgentAsks
          \/ AgentHandsOff
  BY <1>1, <1>11 DEF AgentEdits, AgentFlags, AgentAsks, AgentHandsOff,
       RoundsInv, Given, Goto, disk, locals, tracker
<1>12. CASE Answer \/ SettleEntry \/ (\E p \in Phases : Evaluate(p))
  BY <1>1, <1>12 DEF Answer, SettleEntry, Evaluate, RoundsInv, Given,
       Goto, disk, locals, tracker
<1>13. CASE WorktreeFails \/ Fail \/ Reopen \/ Restart
  <2>1. UNCHANGED <<fix, sa>> /\ pc' \in Given
    BY <1>13 DEF WorktreeFails, Fail, Reopen, Restart, Given, Goto, locals
  <2>2. QED
    BY <2>1 DEF RoundsInv
<1>14. CASE Sweep \/ UNCHANGED vars
  BY <1>1, <1>14 DEF Sweep, SweepLists, SweepPosts, SweepFlips, vars, RoundsInv,
       Given, locals
<1>15. QED
  BY <1>1, <1>2, <1>3, <1>4, <1>5, <1>6, <1>7, <1>8, <1>9, <1>10, <1>11,
       <1>12, <1>13, <1>14
     DEF Next, Task, Agent, People

(* For every workflow, under crashes and retries, no run of a ticket goes  *)
(* round the fix loop more often than the cap and the adjudications allow  *)
(* (max_fix_cycles, MAX_SA_ESCALATIONS and the blocked branch of           *)
(* _run_ticket).                                                           *)
THEOREM TicketRoundsBounded == Spec => []RoundsBounded
PROOF
<1>1. Init => RoundsInv
  BY DEF Init, Zero, RoundsInv, Given, MAX_SA_ESCALATIONS
<1>2. RoundsInv => RoundsBounded
  BY DEF RoundsInv, RoundsBounded, Given
<1>3. QED
  BY InitBase, NextBase, NextRounds, <1>1, <1>2, PTL DEF Spec

-----------------------------------------------------------------------------
(* Where the task can be while an agent's question is unanswered, and what *)
(* the ticket then says: its entry is open, and the task is at the pause,  *)
(* before the thread gate, or gone.                                        *)
WaitsInv ==
    unanswered =>
        /\ open /\ status # "in_progress"
        /\ pc \in {"agent", "gate", "thread", "record", "wait", "queued", "off",
                  "fail", "dead", "done", "left"}
        /\ pc = "agent" => status \in {"needs_info", "resolved"}
        /\ pc \in {"record", "wait", "queued"} => status = "needs_info"
        /\ pc = "record" => result = "needs_info"

(* Every step keeps the task out of its phases while a question is open.   *)
LEMMA NextWaits == Base /\ WaitsInv /\ [Next]_vars => WaitsInv'
PROOF
<1> SUFFICES ASSUME Base, WaitsInv, [Next]_vars PROVE WaitsInv'
  OBVIOUS
<1>1. status \in Statuses /\ pc \in Places /\ open \in BOOLEAN
      /\ unanswered \in BOOLEAN
  BY DEF Base, TypeOK
<1>2. CASE Dispatch
  BY <1>2 DEF Dispatch, WaitsInv, Goto, disk, history
<1>3. CASE AgentReturns
  BY <1>3 DEF AgentReturns, StatusToResult, AfterPhase, WaitsInv, Goto, disk,
       history
<1>4. CASE Commit
  BY <1>4 DEF Commit, WaitsInv, history
<1>5. CASE Blocked
  BY <1>5 DEF Blocked, WaitsInv
<1>6. CASE \E v \in Verdicts : Adjudicate(v)
  BY <1>6 DEF Adjudicate, WaitsInv, history
<1>7. CASE Recommit
  <2>1. pc = "recommit" /\ unanswered' = unanswered
    BY <1>7 DEF Recommit, history
  <2>2. QED
    BY <1>1, <2>1 DEF WaitsInv
<1>8. CASE \E st \in Flags : AgentFlags(st)
  <2>1. PICK st \in Flags : AgentFlags(st)
    BY <1>8
  <2>2. pc = "agent" /\ UNCHANGED <<pc, open>> /\ status' = st
        /\ unanswered' = (unanswered /\ st = "resolved")
    BY <2>1 DEF AgentFlags
  <2>3. unanswered' => unanswered /\ status' = "resolved"
    BY <2>2
  <2>4. QED
    BY <2>2, <2>3 DEF WaitsInv
<1>9. CASE Crash
  BY <1>9 DEF Crash, WaitsInv, Goto, disk, history
<1>10. CASE Resume \/ StartPhase \/ AllPhasesDone \/ AgentRaises \/ Escapes
  BY <1>1, <1>10 DEF Resume, StartPhase, AllPhasesDone, AgentRaises,
       Escapes, WaitsInv, Goto, disk, history
<1>11. CASE (\E K \in SUBSET Keys : ReviewBlocks(K)) \/ (\E K \in SUBSET
          Keys, n \in BOOLEAN : ReviewPasses(K, n)) \/ ReviewBreaks
  BY <1>11 DEF ReviewBlocks, ReviewPasses, ReviewBreaks, WaitsInv, history
<1>12. CASE Gate
  BY <1>12 DEF Gate, WaitsInv, Goto, history
<1>13. CASE ThreadClears
  BY <1>13 DEF ThreadClears, UnresolvedBlocking, WaitsInv, disk, history
<1>14. CASE Record
  BY <1>14 DEF Record, WaitsInv, Goto
<1>15. CASE Advance \/ CommitFails \/ AdjudicationFails \/ Route \/ NoRoute
  BY <1>15 DEF Advance, CommitFails, AdjudicationFails, Route, NoRoute,
       WaitsInv, history
<1>16. CASE Merge \/ MergeFails \/ MergeConflicts \/ ResolverReturns \/
          GiveUpMerge \/ Finish \/ RemoveWorktree
  BY <1>16 DEF Merge, MergeFails, MergeConflicts, ResolverReturns,
       GiveUpMerge, Finish, RemoveWorktree, WaitsInv, history
<1>17. CASE AgentEdits \/ AgentAsks \/ AgentHandsOff
  BY <1>1, <1>17 DEF AgentEdits, AgentAsks, AgentHandsOff, WaitsInv, locals,
       history
<1>18. CASE Answer \/ SettleEntry \/ Reopen
  BY <1>18 DEF Answer, SettleEntry, Reopen, WaitsInv
<1>19. CASE \E p \in Phases : Evaluate(p)
  BY <1>19 DEF Evaluate, WaitsInv, locals, history
<1>20. CASE WorktreeFails \/ Restart
  BY <1>1, <1>20 DEF WorktreeFails, Restart, WaitsInv, Goto, disk, history,
       Statuses
<1>21. CASE Fail
  BY <1>21 DEF Fail, WaitsInv, Goto, history
<1>22. CASE Sweep
  BY <1>22 DEF Sweep, SweepLists, SweepPosts, SweepFlips, WaitsInv, disk,
       locals, history
<1>23. CASE UNCHANGED vars
  BY <1>23 DEF vars, WaitsInv, disk, locals, history
<1>24. QED
  BY <1>2, <1>3, <1>4, <1>5, <1>6, <1>7, <1>8, <1>9, <1>10, <1>11, <1>12,
       <1>13, <1>14, <1>15, <1>16, <1>17, <1>18, <1>19, <1>20, <1>21, <1>22,
       <1>23
     DEF Next, Task, Agent, People

(* For every workflow, under crashes, retries and the sweep: no phase      *)
(* starts between an agent's question and the answer to it (the guard at   *)
(* the top of _run_ticket, the needs_info branch and the thread gate).     *)
THEOREM TicketNeverRunsUnanswered == Spec => NeverRunsUnanswered
PROOF
<1>1. Init => WaitsInv
  BY DEF Init, WaitsInv
<1>2. WaitsInv => [pc = "head" /\ pc' \in {"agent", "review"} => ~unanswered]_vars
  BY DEF WaitsInv
<1>3. QED
  BY InitBase, NextBase, NextWaits, <1>1, <1>2, PTL DEF Spec,
       NeverRunsUnanswered

-----------------------------------------------------------------------------
(* Where the task can be while the ticket shows needs_info, as long as the *)
(* sweep does not set it.                                                  *)
PausedInv ==
    /\ sweep = "idle"
    /\ status = "needs_info" =>
        \/ pc \in {"agent", "wait", "queued", "off", "dead", "fail"}
        \/ pc = "record" /\ result = "needs_info"

(* Every step but the sweep's keeps the task out of its phases while the   *)
(* ticket shows needs_info.                                                *)
LEMMA NextPaused ==
  ASSUME MaxSweeps = 0
  PROVE  Base /\ PausedInv /\ [Next]_vars => PausedInv'
PROOF
<1> SUFFICES ASSUME Base, PausedInv, [Next]_vars PROVE PausedInv'
  OBVIOUS
<1>1. status \in Statuses /\ pc \in Places /\ sweeps = 0
  BY DEF Base, TypeOK
<1>2. CASE Dispatch
  BY <1>1, <1>2 DEF Dispatch, PausedInv, Goto, disk, locals, tracker,
       history, sweeper, budget
<1>3. CASE AgentReturns
  BY <1>3 DEF AgentReturns, StatusToResult, AfterPhase, PausedInv,
       sweeper, Goto, disk
<1>4. CASE Commit
  BY <1>4 DEF Commit, PausedInv, sweeper
<1>5. CASE Blocked
  BY <1>5 DEF Blocked, PausedInv, sweeper, disk
<1>6. CASE \E v \in Verdicts : Adjudicate(v)
  BY <1>6 DEF Adjudicate, PausedInv, sweeper
<1>7. CASE Recommit
  BY <1>7 DEF Recommit, PausedInv, sweeper
<1>8. CASE \E st \in Flags : AgentFlags(st)
  BY <1>8 DEF AgentFlags, PausedInv, sweeper
<1>9. CASE Crash
  BY <1>1, <1>9 DEF Crash, PausedInv, Goto, disk, locals, tracker, history, sweeper,
       budget
<1>10. CASE Resume \/ StartPhase \/ AllPhasesDone \/ AgentRaises \/ Escapes
  BY <1>1, <1>10 DEF Resume, StartPhase, AllPhasesDone, AgentRaises,
       Escapes, PausedInv, Goto, disk, locals, tracker, history, sweeper, budget
<1>11. CASE (\E K \in SUBSET Keys : ReviewBlocks(K)) \/ (\E K \in SUBSET
          Keys, n \in BOOLEAN : ReviewPasses(K, n)) \/ ReviewBreaks
  BY <1>1, <1>11 DEF ReviewBlocks, ReviewPasses, ReviewBreaks, PausedInv,
       Goto, disk, locals, tracker, history, sweeper, budget
<1>12. CASE Gate \/ ThreadClears \/ Record \/ Advance \/ CommitFails
  BY <1>1, <1>12 DEF Gate, ThreadClears, Record, Advance, CommitFails,
       PausedInv, Goto, disk, locals, tracker, history, sweeper, budget
<1>13. CASE AdjudicationFails \/ Route \/ NoRoute
  BY <1>1, <1>13 DEF AdjudicationFails, Route, NoRoute, PausedInv, Goto,
       disk, locals, tracker, history, sweeper, budget
<1>14. CASE Merge \/ MergeFails \/ MergeConflicts \/ ResolverReturns \/
          GiveUpMerge \/ Finish \/ RemoveWorktree
  BY <1>1, <1>14 DEF Merge, MergeFails, MergeConflicts, ResolverReturns,
       GiveUpMerge, Finish, RemoveWorktree, PausedInv, Goto, disk, locals,
       tracker, history, sweeper, budget
<1>15. CASE AgentEdits \/ AgentAsks \/ AgentHandsOff
  BY <1>1, <1>15 DEF AgentEdits, AgentAsks, AgentHandsOff, PausedInv, Goto,
       disk, locals, tracker, history, sweeper, budget
<1>16. CASE Answer \/ SettleEntry \/ (\E p \in Phases : Evaluate(p))
  BY <1>1, <1>16 DEF Answer, SettleEntry, Evaluate, PausedInv, Goto, disk,
       locals, tracker, history, sweeper, budget
<1>17. CASE WorktreeFails \/ Fail \/ Reopen \/ Restart
  BY <1>1, <1>17 DEF WorktreeFails, Fail, Reopen, Restart, PausedInv, Goto,
       disk, locals, tracker, history, sweeper, budget
<1>18. CASE Sweep \/ UNCHANGED vars
  BY <1>1, <1>18 DEF Sweep, SweepLists, SweepPosts, SweepFlips, vars,
       PausedInv, disk, locals, sweeper
<1>19. QED
  BY <1>1, <1>2, <1>3, <1>4, <1>5, <1>6, <1>7, <1>8, <1>9, <1>10, <1>11,
       <1>12, <1>13, <1>14, <1>15, <1>16, <1>17, <1>18
     DEF Next, Task, Agent, People

-----------------------------------------------------------------------------
(* The survival counts of the findings. *)

(* No finding is sent to a review phase: reviewers write nothing, and the  *)
(* roles that target_role names are those above the writing ones.          *)
OwnersWrite == \A k \in Keys : Owner[k] # 0 => Role[Owner[k]] # "review"

(* A review whose findings wait for work: since it blocked, no phase but   *)
(* reviews has run.                                                        *)
Untried(p) == p \notin tried /\ prev[p] # {}

(* Such a review is the one being dealt with, or its work comes next.      *)
TriedInv ==
    \A p \in Phases : Untried(p) =>
        \/ /\ idx = p /\ result = "blocked"
           /\ pc \in {"record", "blocked", "sa", "route", "recommit", "fail"}
        \/ pc = "head" /\ idx \in Phases /\ Role[idx] # "review"

(* What a review found goes to a phase that is none.                       *)
LEMMA RoutesToWork ==
  ASSUME OwnersWrite, TypeOK, idx \in Phases
  PROVE  \A p \in FixIdx : p \in Phases /\ Role[p] # "review"
PROOF
<1>1. posted.keys \subseteq Keys /\ Len(Role) \in Nat
  BY RoleLen DEF TypeOK
<1>2. \A p \in MostRecentDev : p \in Phases /\ Role[p] # "review"
  BY DEF MostRecentDev
<1>3. \A k \in Keys : \A p \in RouteOne(k) : p \in Phases /\ Role[p] # "review"
  BY <1>1, <1>2 DEF RouteOne, OwnersWrite, Phases
<1>4. QED
  BY <1>1, <1>2, <1>3 DEF FixIdx

(* Where no review waits for work and none blocks, none waits after.       *)
LEMMA NoneUntried ==
  ASSUME TriedInv, UNCHANGED tried,
         \A p \in Phases : prev'[p] = prev[p] \/ prev'[p] = {},
         pc \notin {"record", "blocked", "sa", "route", "recommit", "fail", "head"}
  PROVE  TriedInv'
  BY DEF TriedInv, Untried

(* Every step keeps the reviews that wait for work in sight.               *)
LEMMA NextTried == OwnersWrite /\ Base /\ TriedInv /\ [Next]_vars => TriedInv'
PROOF
<1> SUFFICES ASSUME OwnersWrite, Base, TriedInv, [Next]_vars PROVE TriedInv'
  OBVIOUS
<1>1. pc \in Places /\ prev \in [Phases -> SUBSET Keys] /\ TypeOK
  BY DEF Base, TypeOK
<1>2. CASE StartPhase
  BY <1>2 DEF StartPhase, TriedInv, Untried, Goto, tracker
<1>3. CASE \E K \in SUBSET Keys : ReviewBlocks(K)
  <2>1. PICK K \in SUBSET Keys : ReviewBlocks(K)
    BY <1>3
  <2>2. \A p \in Phases : ~Untried(p)
    BY <2>1 DEF ReviewBlocks, TriedInv
  <2>3. \A p \in Phases : Untried(p)' => p = idx
    BY <1>1, <2>1, <2>2 DEF ReviewBlocks, Untried
  <2>4. QED
    BY <2>1, <2>3 DEF ReviewBlocks, TriedInv, Goto
<1>4. CASE (\E K \in SUBSET Keys, n \in BOOLEAN : ReviewPasses(K, n)) \/ ReviewBreaks
  BY <1>1, <1>4, NoneUntried DEF ReviewPasses, ReviewBreaks, Forget, history
<1>5. CASE Record
  BY <1>5 DEF Record, TriedInv, Untried, Goto, locals, tracker
<1>6. CASE Fail
  BY <1>6 DEF Fail, ForgetTicket, TriedInv, Untried
<1>7. CASE Blocked
  BY <1>7 DEF Blocked, TriedInv, Untried, Goto, tracker
<1>8. CASE \E v \in Verdicts : Adjudicate(v)
  <2>1. PICK v \in Verdicts : Adjudicate(v)
    BY <1>8
  <2>2. idx \in Phases /\ UNCHANGED <<idx, result, tried>>
    BY <2>1 DEF Adjudicate, Base, InLoop, history
  <2>3. \A p \in Phases : Untried(p) => p = idx /\ result = "blocked"
    BY <2>1 DEF Adjudicate, TriedInv
  <2>4. \A p \in Phases : Untried(p)' => Untried(p)
    BY <1>1, <2>1, <2>2 DEF Adjudicate, Untried
  <2>5. pc' \in {"fail", "route"} \/ (pc' = "head" /\ prev'[idx] = {})
    BY <1>1, <2>1, <2>2 DEF Adjudicate, Goto
  <2>6. QED
    BY <2>2, <2>3, <2>4, <2>5 DEF TriedInv, Untried
<1>9. CASE AdjudicationFails \/ Route \/ NoRoute
  BY <1>9 DEF AdjudicationFails, Route, NoRoute, TriedInv, Untried, Goto,
       locals, tracker, history
<1>10. CASE Recommit
  <2>1. idx \in Phases /\ idx' \in FixIdx /\ pc' = "head" /\ UNCHANGED <<tracker, tried>>
    BY <1>10 DEF Recommit, Base, InLoop, Goto, history
  <2>2. idx' \in Phases /\ Role[idx'] # "review"
    BY <1>1, <2>1, RoutesToWork
  <2>3. QED
    BY <2>1, <2>2 DEF TriedInv
<1>11. CASE Crash
  BY <1>11 DEF Crash, TriedInv, Untried
<1>12. CASE AllPhasesDone
  BY <1>12 DEF AllPhasesDone, TriedInv, Untried, Goto, locals, tracker, history
<1>13. CASE Dispatch \/ WorktreeFails \/ Resume \/ AgentReturns \/ AgentRaises \/ Escapes
  BY <1>13, NoneUntried DEF Dispatch, WorktreeFails, Resume, AgentReturns, AgentRaises,
       Escapes, tracker, history
<1>14. CASE Gate \/ ThreadClears \/ Advance \/ Commit \/ CommitFails
  BY <1>14, NoneUntried DEF Gate, ThreadClears, Advance, Commit, CommitFails, tracker, history
<1>15. CASE Merge \/ MergeFails \/ MergeConflicts \/ ResolverReturns \/
          GiveUpMerge \/ Finish \/ RemoveWorktree
  BY <1>15, NoneUntried DEF Merge, MergeFails, MergeConflicts, ResolverReturns,
       GiveUpMerge, Finish, RemoveWorktree, tracker, history
<1>16. CASE (\E st \in Flags : AgentFlags(st)) \/ AgentEdits \/ AgentAsks \/ AgentHandsOff
  BY <1>16, NoneUntried DEF AgentFlags, AgentEdits, AgentAsks, AgentHandsOff, tracker, history
<1>17. CASE Answer \/ SettleEntry \/ (\E p \in Phases : Evaluate(p))
  BY <1>17 DEF Answer, SettleEntry, Evaluate, TriedInv, Untried, locals, tracker, history
<1>18. CASE Reopen \/ Restart
  BY <1>18, NoneUntried DEF Reopen, Restart, tracker, history
<1>19. CASE Sweep \/ UNCHANGED vars
  BY <1>19 DEF Sweep, SweepLists, SweepPosts, SweepFlips, vars,
       TriedInv, Untried, locals, tracker, history
<1>20. QED
  BY <1>2, <1>3, <1>4, <1>5, <1>6, <1>7, <1>8, <1>9, <1>10, <1>11, <1>12, <1>13, <1>14,
       <1>15, <1>16, <1>17, <1>18, <1>19
     DEF Next, Task, Agent, People

(* A count that grows in a step grew in a round of a review whose keys of  *)
(* the round before are still on file.                                     *)
LEMMA GrowsInReview ==
  ASSUME Base, [Next]_vars, NEW p \in Phases, NEW k \in Keys, surv'[p][k] > surv[p][k]
  PROVE  pc = "review" /\ prev[p] # {}
PROOF
<1>1. surv \in [Phases -> [Keys -> Nat]] /\ surv[p] \in [Keys -> Nat] /\ surv[p][k] \in Nat
  BY DEF Base, TypeOK
<1>2. surv' # surv
  BY <1>1
<1>3. CASE \E K \in SUBSET Keys : ReviewBlocks(K)
  <2>1. PICK K \in SUBSET Keys : ReviewBlocks(K)
    BY <1>3
  <2>2. pc = "review" /\ surv' = [surv EXCEPT ![idx] = Persist(idx, K \ dismissed)]
    BY <2>1 DEF ReviewBlocks
  <2>3. p = idx
    BY <1>1, <2>2
  <2>4. surv'[p] = Persist(p, K \ dismissed)
    BY <1>1, <2>2, <2>3
  <2>5. k \in prev[p]
    BY <1>1, <2>4 DEF Persist
  <2>6. QED
    BY <2>2, <2>5
<1>4. CASE (\E K \in SUBSET Keys, n \in BOOLEAN : ReviewPasses(K, n)) \/ ReviewBreaks
  <2>1. surv' = [surv EXCEPT ![idx] = [x \in Keys |-> 0]]
    BY <1>4 DEF ReviewPasses, ReviewBreaks, Forget
  <2>2. surv'[p][k] \in {0, surv[p][k]}
    BY <1>1, <2>1
  <2>3. QED
    BY <1>1, <2>2
<1>5. CASE Fail \/ Crash
  <2>1. surv'[p][k] = 0
    BY <1>5 DEF Fail, ForgetTicket, Crash, Unraised
  <2>2. QED
    BY <1>1, <2>1
<1>6. CASE \E v \in Verdicts : Adjudicate(v)
  <2>1. PICK S : surv' = [surv EXCEPT ![idx] = [x \in Keys |-> IF x \in S THEN 0 ELSE surv[idx][x]]]
    <3>1. PICK v \in Verdicts : Adjudicate(v)
      BY <1>6
    <3>2. surv' = [surv EXCEPT ![idx] = [x \in Keys |->
                     IF x \in {y \in Docket : v[y] = "dismissed"}
                              \cup {y \in Docket : v[y] = "uphold_guidance"}
                     THEN 0 ELSE surv[idx][x]]]
      BY <3>1 DEF Adjudicate
    <3>3. QED
      BY <3>2
  <2>2. surv'[p][k] \in {0, surv[p][k]}
    BY <1>1, <2>1
  <2>3. QED
    BY <1>1, <2>2
<1>7. QED
  BY <1>2, <1>3, <1>4, <1>5, <1>6
     DEF Next, Task, Agent, People, Sweep, SweepLists, SweepPosts, SweepFlips, vars, tracker,
       Dispatch, WorktreeFails, Resume, StartPhase,
       AllPhasesDone, AgentReturns, AgentRaises, Escapes, Gate, ThreadClears, Record, Advance,
       Commit, CommitFails, Blocked, AdjudicationFails, Route, NoRoute, Recommit, Merge,
       MergeFails, MergeConflicts, ResolverReturns, GiveUpMerge, Finish, RemoveWorktree,
       AgentEdits, AgentFlags, AgentAsks, AgentHandsOff, Answer, SettleEntry, Evaluate,
       Reopen, Restart

(* For every workflow whose findings go to phases that are not reviews,    *)
(* under crashes, retries and adjudications: a survival count only grows   *)
(* over a fix that was attempted (_record_blocking_persistence, with the   *)
(* resets after a dismissal and in _on_ticket_failed).                     *)
THEOREM TicketSurvivalCountsFixes ==
  ASSUME OwnersWrite
  PROVE  Spec => SurvivalCountsFixes
PROOF
<1>1. Init => TriedInv
  BY DEF Init, TriedInv, Untried
<1>2. Base /\ TriedInv /\ [Next]_vars
         => [\A p \in Phases, k \in Keys : surv'[p][k] > surv[p][k] => p \in tried]_vars
  <2> SUFFICES ASSUME Base, TriedInv, [Next]_vars, NEW p \in Phases, NEW k \in Keys,
                      surv'[p][k] > surv[p][k]
               PROVE  p \in tried
    OBVIOUS
  <2>1. pc = "review" /\ prev[p] # {}
    BY GrowsInReview
  <2>2. QED
    BY <2>1 DEF TriedInv, Untried
<1>3. Base /\ TriedInv /\ [Next]_vars => TriedInv'
  BY NextTried
<1>4. QED
  BY InitBase, NextBase, <1>1, <1>2, <1>3, PTL DEF Spec, SurvivalCountsFixes

-----------------------------------------------------------------------------
(* The merge strategies that integrate in the worktree find it clean. *)
CleanInv == lost = FALSE /\ (pc \in {"finish", "remove"} => dirty = FALSE)

(* Every step keeps the worktree clean from the merge to its removal.      *)
LEMMA NextClean ==
  ASSUME ~KeepsBranch
  PROVE  Base /\ CleanInv /\ [Next]_vars => CleanInv'
PROOF
<1> SUFFICES ASSUME Base, CleanInv, [Next]_vars PROVE CleanInv'
  OBVIOUS
<1>1. KeepsBranch = FALSE /\ dirty \in BOOLEAN
  BY WorkflowAssumption DEF Base, TypeOK
<1>2. CASE Dispatch
  BY <1>1, <1>2 DEF Dispatch, CleanInv, Goto, disk, history
<1>3. CASE StartPhase
  BY <1>3 DEF StartPhase, CleanInv, Goto
<1>4. CASE AgentReturns
  BY <1>4 DEF AgentReturns, CleanInv, Goto, AfterPhase, history
<1>5. CASE \E K \in SUBSET Keys : ReviewBlocks(K)
  BY <1>5 DEF ReviewBlocks, CleanInv, Goto
<1>6. CASE \E K \in SUBSET Keys, n \in BOOLEAN : ReviewPasses(K, n)
  BY <1>6 DEF ReviewPasses, CleanInv, Goto, history
<1>7. CASE Commit
  BY <1>7 DEF Commit, Goto, CleanInv, history
<1>8. CASE Blocked
  BY <1>1, <1>8 DEF Blocked, CleanInv, Goto, disk, history
<1>9. CASE \E v \in Verdicts : Adjudicate(v)
  BY <1>9 DEF Adjudicate, Goto, CleanInv, history
<1>10. CASE Recommit
  BY <1>10 DEF Recommit, Goto, CleanInv, history
<1>11. CASE Merge
  BY <1>1, <1>11 DEF Merge, Refused, CleanInv, Goto, history
<1>12. CASE RemoveWorktree
  BY <1>12 DEF RemoveWorktree, CleanInv, Goto
<1>13. CASE Answer
  BY <1>13 DEF Answer, CleanInv, history
<1>14. CASE SettleEntry
  BY <1>14 DEF SettleEntry, CleanInv, history
<1>15. CASE \E p \in Phases : Evaluate(p)
  BY <1>15 DEF Evaluate, CleanInv, history
<1>16. CASE Crash
  BY <1>1, <1>16 DEF Crash, CleanInv, Goto, disk, history
<1>17. CASE Resume \/ AllPhasesDone \/ AgentRaises \/ Escapes
  BY <1>1, <1>17 DEF Resume, AllPhasesDone, AgentRaises, Escapes,
       CleanInv, Goto, disk, history
<1>18. CASE ReviewBreaks
  BY <1>1, <1>18 DEF ReviewBreaks, CleanInv, Goto, disk, history
<1>19. CASE Gate \/ ThreadClears \/ Record \/ Advance \/ CommitFails
  BY <1>1, <1>19 DEF Gate, ThreadClears, Record, Advance, CommitFails,
       CleanInv, Goto, disk, history
<1>20. CASE AdjudicationFails \/ Route \/ NoRoute
  BY <1>1, <1>20 DEF AdjudicationFails, Route, NoRoute, CleanInv, Goto,
       disk, history
<1>21. CASE MergeFails \/ MergeConflicts \/ ResolverReturns \/ GiveUpMerge
          \/ Finish
  BY <1>1, <1>21 DEF MergeFails, MergeConflicts, ResolverReturns,
       GiveUpMerge, Finish, CleanInv, Goto, disk, history
<1>22. CASE AgentEdits \/ (\E st \in Flags : AgentFlags(st)) \/ AgentAsks
          \/ AgentHandsOff
  BY <1>1, <1>22 DEF AgentEdits, AgentFlags, AgentAsks, AgentHandsOff,
       CleanInv, Goto, disk, history
<1>23. CASE WorktreeFails \/ Fail \/ Reopen \/ Restart
  BY <1>1, <1>23 DEF WorktreeFails, Fail, Reopen, Restart, CleanInv, Goto,
       disk, history
<1>24. CASE Sweep \/ UNCHANGED vars
  BY <1>1, <1>24 DEF Sweep, SweepLists, SweepPosts, SweepFlips, vars,
       CleanInv, disk, history
<1>25. QED
  BY <1>1, <1>2, <1>3, <1>4, <1>5, <1>6, <1>7, <1>8, <1>9, <1>10, <1>11,
       <1>12, <1>13, <1>14, <1>15, <1>16, <1>17, <1>18, <1>19, <1>20, <1>21,
       <1>22, <1>23, <1>24
     DEF Next, Task, Agent, People

(* With the direct and squash strategies no uncommitted work is thrown     *)
(* away with a worktree, whatever crashes and failed commits there are     *)
(* (_auto_commit_worktree, _do_merge, remove_worktree).                    *)
THEOREM TicketNothingLost ==
  ASSUME ~KeepsBranch
  PROVE  Spec => []NothingLost
PROOF
<1>1. Init => CleanInv
  BY DEF Init, CleanInv
<1>2. CleanInv => NothingLost
  BY DEF CleanInv, NothingLost
<1>3. QED
  BY InitBase, NextBase, NextClean, <1>1, <1>2, PTL DEF Spec

-----------------------------------------------------------------------------
(* In a run that is not cut off, every phase before the current one has    *)
(* succeeded since the phases before it last ran.                          *)
OrderInv ==
    /\ pc # "off"
    /\ pc = "queued" => recorded = {}
    /\ 1..(idx - 1) \subseteq fresh
    /\ pc = "advance" => idx \in fresh

(* What precedes an earlier phase precedes a later one. *)
LEMMA EarlierPhases ==
  ASSUME NEW i \in Int, NEW j \in Int, j <= i
  PROVE  1..(j - 1) \subseteq 1..(i - 1)
  OBVIOUS

(* Every step keeps the order of phases, unless it kills or retries.       *)
LEMMA NextOrder ==
  ASSUME MaxCrashes = 0, MaxReopens = 0
  PROVE  Base /\ OrderInv /\ [Next]_vars => OrderInv'
PROOF
<1> SUFFICES ASSUME Base, OrderInv, [Next]_vars PROVE OrderInv'
  OBVIOUS
<1>1. /\ idx \in Int /\ Len(Role) \in Nat /\ crashes = 0 /\ reopens = 0
      /\ MaxCrashes = 0 /\ MaxReopens = 0
  BY RoleLen DEF Base, TypeOK
<1>2. CASE Dispatch
  <2>1. recorded = {} /\ idx' \in CurrentPhaseIndex
    BY <1>2 DEF Dispatch, OrderInv
  <2>2. idx' = 1
    BY <1>1, <2>1 DEF CurrentPhaseIndex, Phases
  <2>3. QED
    BY <1>2, <2>2 DEF Dispatch, OrderInv, Goto, history
<1>3. CASE StartPhase
  BY <1>1, <1>3 DEF StartPhase, OrderInv, Goto, disk
<1>4. CASE AgentReturns
  BY <1>4 DEF AgentReturns, AfterPhase, OrderInv, Goto, disk, history
<1>5. CASE Record
  <2>1. 1..(idx' - 1) \subseteq fresh'
    BY <1>5 DEF Record, OrderInv, locals
  <2>2. pc' = "advance" => idx' \in fresh'
    BY <1>5 DEF Record, Goto, locals
  <2>3. pc' \notin {"off", "queued"}
    BY <1>5 DEF Record, Goto
  <2>4. QED
    BY <2>1, <2>2, <2>3 DEF OrderInv
<1>6. CASE Advance
  BY <1>1, <1>6 DEF Advance, OrderInv, Goto, history
<1>7. CASE Commit
  BY <1>7 DEF Commit, Goto, OrderInv, locals, history
<1>8. CASE Blocked
  BY <1>8 DEF Blocked, OrderInv, Goto, disk, history
<1>9. CASE \E v \in Verdicts : Adjudicate(v)
  BY <1>9 DEF Adjudicate, OrderInv, Goto, history
<1>10. CASE Recommit
  <2>1. idx \in Phases /\ idx' \in FixIdx
    BY <1>10 DEF Recommit, Base, InLoop
  <2>2. idx' \in 1..(idx - 1)
    BY <2>1, RoutesBack
  <2>3. idx' \in Int /\ idx' <= idx
    BY <1>1, <2>2
  <2>4. 1..(idx' - 1) \subseteq 1..(idx - 1)
    BY <1>1, <2>3, EarlierPhases
  <2>5. QED
    BY <1>10, <2>4 DEF Recommit, OrderInv, Goto, history
<1>11. CASE Reopen
  BY <1>1, <1>11 DEF Reopen
<1>12. CASE Crash
  BY <1>1, <1>12 DEF Crash
<1>13. CASE Restart
  BY <1>13 DEF Restart, OrderInv
<1>14. CASE Resume \/ AllPhasesDone \/ AgentRaises \/ Escapes
  BY <1>1, <1>14 DEF Resume, AllPhasesDone, AgentRaises, Escapes,
       OrderInv, Goto, disk, locals, tracker, history
<1>15. CASE (\E K \in SUBSET Keys : ReviewBlocks(K)) \/ (\E K \in SUBSET
          Keys, n \in BOOLEAN : ReviewPasses(K, n)) \/ ReviewBreaks
  BY <1>1, <1>15 DEF ReviewBlocks, ReviewPasses, ReviewBreaks, OrderInv,
       Goto, disk, locals, tracker, history
<1>16. CASE Gate \/ ThreadClears \/ CommitFails
  BY <1>1, <1>16 DEF Gate, ThreadClears, CommitFails, OrderInv, Goto,
       disk, locals, tracker, history
<1>17. CASE AdjudicationFails \/ Route \/ NoRoute
  BY <1>1, <1>17 DEF AdjudicationFails, Route, NoRoute, OrderInv, Goto,
       disk, locals, tracker, history
<1>18. CASE Merge \/ MergeFails \/ MergeConflicts \/ ResolverReturns \/
          GiveUpMerge \/ Finish \/ RemoveWorktree
  BY <1>1, <1>18 DEF Merge, MergeFails, MergeConflicts, ResolverReturns,
       GiveUpMerge, Finish, RemoveWorktree, OrderInv, Goto, disk, locals,
       tracker, history
<1>19. CASE AgentEdits \/ (\E st \in Flags : AgentFlags(st)) \/ AgentAsks
          \/ AgentHandsOff
  BY <1>1, <1>19 DEF AgentEdits, AgentFlags, AgentAsks, AgentHandsOff,
       OrderInv, Goto, disk, locals, tracker, history
<1>20. CASE Answer \/ SettleEntry \/ (\E p \in Phases : Evaluate(p))
  BY <1>1, <1>20 DEF Answer, SettleEntry, Evaluate, OrderInv, Goto, disk,
       locals, tracker, history
<1>21. CASE WorktreeFails \/ Fail
  BY <1>1, <1>21 DEF WorktreeFails, Fail, OrderInv, Goto, disk, locals,
       tracker, history
<1>22. CASE Sweep \/ UNCHANGED vars
  BY <1>1, <1>22 DEF Sweep, SweepLists, SweepPosts, SweepFlips, vars,
       OrderInv, disk, locals, history
<1>23. QED
  BY <1>1, <1>2, <1>3, <1>4, <1>5, <1>6, <1>7, <1>8, <1>9, <1>10, <1>11,
       <1>12, <1>13, <1>14, <1>15, <1>16, <1>17, <1>18, <1>19, <1>20, <1>21,
       <1>22
     DEF Next, Task, Agent, People

(* For every workflow: while the daemon does not crash and the ticket is   *)
(* not retried, phases run in order and only work that passed every phase  *)
(* in turn is merged (the phase loop, the routing and its success          *)
(* records).                                                               *)
THEOREM TicketPhasesInOrder ==
  ASSUME MaxCrashes = 0, MaxReopens = 0
  PROVE  Spec => []PhasesInOrder
PROOF
<1>1. Init => OrderInv
  BY DEF Init, OrderInv
<1>2. OrderInv => PhasesInOrder
  BY DEF OrderInv, PhasesInOrder
<1>3. QED
  BY InitBase, NextBase, NextOrder, <1>1, <1>2, PTL DEF Spec

-----------------------------------------------------------------------------
(* The branch is merged from the merge on; elsewhere a finished task has   *)
(* overwritten what its agents wrote on the ticket.                        *)
MergedInv ==
    /\ pc \in {"finish", "remove"} => merged = TRUE
    /\ pc = "done" /\ status = "resolved" => merged = TRUE

(* Every step keeps what a finished ticket says about its branch.          *)
LEMMA NextMerged == Base /\ MergedInv /\ [Next]_vars => MergedInv'
PROOF
<1> SUFFICES ASSUME Base, MergedInv, [Next]_vars PROVE MergedInv'
  OBVIOUS
<1>1. merged \in BOOLEAN
  BY DEF Base, TypeOK
<1>2. CASE Dispatch \/ WorktreeFails \/ Resume \/ StartPhase \/ AllPhasesDone
  BY <1>1, <1>2 DEF Dispatch, WorktreeFails, Resume, StartPhase,
       AllPhasesDone, MergedInv, Goto, disk
<1>3. CASE AgentReturns \/ AgentRaises \/ Escapes \/ ReviewBreaks
  BY <1>1, <1>3 DEF AgentReturns, AgentRaises, Escapes, ReviewBreaks,
       MergedInv, Goto, disk, AfterPhase
<1>4. CASE \E K \in SUBSET Keys : ReviewBlocks(K)
  BY <1>1, <1>4 DEF ReviewBlocks, MergedInv, Goto, disk
<1>5. CASE \E K \in SUBSET Keys, n \in BOOLEAN : ReviewPasses(K, n)
  BY <1>1, <1>5 DEF ReviewPasses, MergedInv, Goto, disk
<1>6. CASE Gate \/ ThreadClears \/ Record \/ Advance \/ Commit \/ CommitFails
  BY <1>1, <1>6 DEF Gate, ThreadClears, Record, Advance, Commit,
       CommitFails, MergedInv, Goto, disk, CommitWorktree
<1>7. CASE Fail \/ Blocked \/ AdjudicationFails \/ Route \/ NoRoute \/ Recommit
  BY <1>1, <1>7 DEF Fail, Blocked, AdjudicationFails, Route, NoRoute,
       Recommit, MergedInv, Goto, disk, CommitWorktree
<1>8. CASE \E v \in Verdicts : Adjudicate(v)
  BY <1>1, <1>8 DEF Adjudicate, MergedInv, Goto, disk
<1>9. CASE Merge \/ MergeFails \/ MergeConflicts \/ ResolverReturns
  BY <1>1, <1>9 DEF Merge, MergeFails, MergeConflicts, ResolverReturns,
       MergedInv, Goto, disk
<1>10. CASE GiveUpMerge \/ Finish \/ RemoveWorktree
  BY <1>1, <1>10 DEF GiveUpMerge, Finish, RemoveWorktree, MergedInv, Goto,
       disk
<1>11. CASE AgentEdits \/ (\E st \in Flags : AgentFlags(st)) \/ AgentAsks
          \/ AgentHandsOff
  BY <1>1, <1>11 DEF AgentEdits, AgentFlags, AgentAsks, AgentHandsOff,
       MergedInv, Goto, disk
<1>12. CASE Answer \/ SettleEntry \/ \E p \in Phases : Evaluate(p)
  BY <1>1, <1>12 DEF Answer, SettleEntry, Evaluate, MergedInv, Goto, disk
<1>13. CASE Reopen \/ Crash \/ Restart
  BY <1>1, <1>13 DEF Reopen, Crash, Restart, MergedInv, Goto, disk
<1>14. CASE Sweep \/ UNCHANGED vars
  BY <1>1, <1>14 DEF Sweep, SweepLists, SweepPosts, SweepFlips, vars,
       MergedInv, disk
<1>15. QED
  BY <1>2, <1>3, <1>4, <1>5, <1>6, <1>7, <1>8, <1>9, <1>10, <1>11, <1>12,
       <1>13, <1>14
     DEF Next, Task, Agent, People

(* A ticket whose task ends and leaves it resolved was merged, in any      *)
(* workflow, whatever statuses agents set, and however often it is killed, *)
(* swept or retried (_on_ticket_completed, and the exits of _run_ticket).  *)
THEOREM TicketResolvedMeansMerged == Spec => []ResolvedMeansMerged
PROOF
<1>1. Init => MergedInv
  BY DEF Init, MergedInv
<1>2. MergedInv => ResolvedMeansMerged
  BY DEF MergedInv, ResolvedMeansMerged
<1>3. QED
  BY InitBase, NextBase, NextMerged, <1>1, <1>2, PTL DEF Spec

-----------------------------------------------------------------------------
(* What the end of a run has behind it: the merge is reached with every    *)
(* phase walked, and the branch is merged from there on and no sooner.     *)
Merging == {"merge", "resolver", "retry", "conflict"}

LifeInv ==
    /\ pc \in Merging => idx \notin Phases
    /\ merged => pc \in {"finish", "remove", "done"}
    /\ pc = "remove" => status = "resolved"
    /\ sweep = "idle"

(* Every step keeps the end of the run in its place, unless it kills,      *)
(* retries or sweeps.                                                      *)
LEMMA NextLife ==
  ASSUME MaxCrashes = 0, MaxReopens = 0, MaxSweeps = 0
  PROVE  Base /\ LifeInv /\ [Next]_vars => LifeInv'
PROOF
<1> SUFFICES ASSUME Base, LifeInv, [Next]_vars PROVE LifeInv'
  OBVIOUS
<1>1. merged \in BOOLEAN /\ crashes = 0 /\ reopens = 0 /\ sweeps = 0
      /\ MaxSweeps = 0
      /\ (pc \in InLoop => idx \in Phases)
  BY DEF Base, TypeOK
<1>2. CASE Dispatch \/ WorktreeFails \/ Resume \/ StartPhase \/ AllPhasesDone
  BY <1>1, <1>2 DEF Dispatch, WorktreeFails, Resume, StartPhase,
       AllPhasesDone, LifeInv, Merging, sweeper, Goto, disk, locals
<1>3. CASE AgentReturns \/ AgentRaises \/ Escapes \/ ReviewBreaks
  BY <1>1, <1>3 DEF AgentReturns, AgentRaises, Escapes, ReviewBreaks,
       LifeInv, Merging, sweeper, Goto, disk, locals, AfterPhase
<1>4. CASE \E K \in SUBSET Keys : ReviewBlocks(K)
  BY <1>1, <1>4 DEF ReviewBlocks, LifeInv, Merging, sweeper, Goto
<1>5. CASE \E K \in SUBSET Keys, n \in BOOLEAN : ReviewPasses(K, n)
  BY <1>1, <1>5 DEF ReviewPasses, LifeInv, Merging, sweeper, Goto
<1>6. CASE Gate \/ ThreadClears \/ Record \/ Advance \/ Commit \/ CommitFails
  BY <1>1, <1>6 DEF Gate, ThreadClears, Record, Advance, Commit,
       CommitFails, LifeInv, Merging, sweeper, Goto, disk, locals, CommitWorktree
<1>7. CASE Fail \/ Blocked \/ AdjudicationFails \/ Route \/ NoRoute \/ Recommit
  BY <1>1, <1>7 DEF Fail, Blocked, AdjudicationFails, Route, NoRoute,
       Recommit, LifeInv, Merging, sweeper, Goto, disk, locals, CommitWorktree
<1>8. CASE \E v \in Verdicts : Adjudicate(v)
  BY <1>1, <1>8 DEF Adjudicate, LifeInv, Merging, sweeper, Goto
<1>9. CASE Merge \/ MergeFails \/ MergeConflicts \/ ResolverReturns
  BY <1>1, <1>9 DEF Merge, MergeFails, MergeConflicts, ResolverReturns,
       LifeInv, Merging, sweeper, Goto, disk, locals
<1>10. CASE GiveUpMerge \/ Finish \/ RemoveWorktree
  BY <1>1, <1>10 DEF GiveUpMerge, Finish, RemoveWorktree, LifeInv, Merging, sweeper,
       Goto, locals
<1>11. CASE AgentEdits \/ (\E st \in Flags : AgentFlags(st)) \/ AgentAsks
          \/ AgentHandsOff
  BY <1>1, <1>11 DEF AgentEdits, AgentFlags, AgentAsks, AgentHandsOff,
       LifeInv, Merging, sweeper, locals
<1>12. CASE Answer \/ SettleEntry \/ \E p \in Phases : Evaluate(p)
  <2>1. UNCHANGED <<pc, idx, merged, sweep>>
        /\ (status' = status \/ status = "needs_info")
    BY <1>12 DEF Answer, SettleEntry, Evaluate, locals, sweeper
  <2>2. QED
    BY <1>1, <2>1 DEF LifeInv, Merging
<1>13. CASE Reopen \/ Crash
  BY <1>1, <1>13 DEF Reopen, Crash
<1>14. CASE Restart
  BY <1>1, <1>14 DEF Restart, LifeInv, Merging, sweeper, Goto, disk, locals
<1>15. CASE Sweep
  <2>1. sweep = "idle" /\ ~(sweeps < MaxSweeps)
    BY <1>1 DEF LifeInv
  <2>2. QED
    BY <1>15, <2>1 DEF Sweep, SweepLists, SweepPosts, SweepFlips
<1>16. CASE UNCHANGED vars
  BY <1>16 DEF vars, LifeInv, Merging, sweeper, disk, locals
<1>17. QED
  BY <1>2, <1>3, <1>4, <1>5, <1>6, <1>7, <1>8, <1>9, <1>10, <1>11, <1>12,
       <1>13, <1>14, <1>15, <1>16
     DEF Next, Task, Agent, People

(* Where a ticket shows as being worked on. *)
Working == {"agent", "review", "gate", "thread", "record"}

(* A step that nobody outside can see. *)
Unseen ==
    /\ (pc \in Working) = (pc' \in Working) /\ (pc \in Working => idx' = idx)
    /\ pc # "done" /\ pc' # "done"
    /\ (status = "needs_info") = (status' = "needs_info")
    /\ fresh' = fresh /\ merged' = merged

(* Such a step leaves the life cycle alone. *)
LEMMA UnseenStutters ==
  ASSUME Unseen
  PROVE  UNCHANGED Lifecycle!lifeVars
PROOF
<1>1. AtWork' = AtWork /\ Closed' = Closed
  BY DEF Unseen, Working, AtWork, Closed
<1>2. QED
  BY <1>1 DEF Unseen, Lifecycle!lifeVars

(* A step of a ticket that is neither killed, retried nor swept is a step  *)
(* of its life cycle, or one that nobody outside can see.                  *)
LEMMA MapsToLifecycle ==
  ASSUME MaxCrashes = 0, MaxReopens = 0, MaxSweeps = 0,
         Base, PausedInv, OrderInv, MergedInv, LifeInv, [Next]_vars
  PROVE  [Lifecycle!LifeNext]_(Lifecycle!lifeVars)
PROOF
<1>1. /\ merged \in BOOLEAN /\ crashes = 0 /\ reopens = 0 /\ sweeps = 0 /\ pc # "off"
      /\ (pc \in InLoop => idx \in Phases) /\ Len(Role) \in Nat
      /\ idx \in 1..(Len(Role) + 1) /\ 1..(idx - 1) \subseteq fresh
  BY RoleLen DEF Base, TypeOK, OrderInv
<1>2. pc \notin {"agent", "wait", "queued", "off", "dead", "fail", "record"}
        => status # "needs_info"
  BY DEF PausedInv
<1>3. pc \notin {"finish", "remove", "done"} => merged = FALSE
  BY <1>1 DEF LifeInv
<1>4. pc \in Merging => Lifecycle!Complete
  BY <1>1 DEF LifeInv, Phases, Lifecycle!Complete
<1>5. CASE StartPhase
  <2>1. pc = "head" /\ idx \in Phases /\ pc' \in {"agent", "review"}
    BY <1>5 DEF StartPhase, Goto
  <2>2. UNCHANGED <<status, merged, idx>> /\ fresh' = {p \in fresh : p < idx}
    BY <1>5 DEF StartPhase, disk
  <2>3. AtWork = 0 /\ AtWork' = idx /\ Closed = "no" /\ Closed' = "no"
    BY <2>1, <2>2 DEF AtWork, Closed
  <2>4. Lifecycle!Begin(idx)
    BY <1>1, <1>2, <1>3, <2>1, <2>2, <2>3 DEF Lifecycle!Begin
  <2>5. QED
    BY <2>1, <2>4 DEF Lifecycle!LifeNext, Phases
<1>6. CASE Record
  <2>1. pc = "record" /\ pc' \in {"advance", "wait", "blocked", "fail"}
        /\ idx \in Phases /\ UNCHANGED <<status, merged>>
    BY <1>1, <1>6 DEF Record, Goto, InLoop
  <2>2. AtWork = idx /\ idx # 0 /\ AtWork' = 0 /\ Closed = "no" /\ Closed' = "no"
    BY <2>1, <1>1 DEF AtWork, Closed, Phases
  <2>3. CASE result = "success"
    <3>1. status # "needs_info" /\ fresh' = fresh \cup {idx}
      BY <1>6, <2>1, <2>3 DEF Record, PausedInv
    <3>2. Lifecycle!Pass
      BY <2>1, <2>2, <3>1 DEF Lifecycle!Pass
    <3>3. QED
      BY <3>2 DEF Lifecycle!LifeNext
  <2>4. CASE result # "success"
    <3>1. fresh' = fresh
      BY <1>6, <2>4 DEF Record
    <3>2. Lifecycle!Leave
      BY <2>1, <2>2, <3>1 DEF Lifecycle!Leave
    <3>3. QED
      BY <3>2 DEF Lifecycle!LifeNext
  <2>5. QED
    BY <2>3, <2>4
<1>7. CASE AgentRaises \/ Escapes
  <2>1. pc \in {"agent", "review"} /\ pc' \in {"fail", "dead"} /\ idx \in Phases
        /\ UNCHANGED <<status, merged, fresh>>
    BY <1>1, <1>7 DEF AgentRaises, Escapes, Goto, disk, history, InLoop
  <2>2. AtWork # 0 /\ AtWork' = 0 /\ Closed = "no" /\ Closed' = "no"
    BY <2>1, <1>1 DEF AtWork, Closed, Phases
  <2>3. Lifecycle!Leave
    BY <2>1, <2>2 DEF Lifecycle!Leave
  <2>4. QED
    BY <2>3 DEF Lifecycle!LifeNext
<1>8. CASE AgentAsks
  <2>1. pc = "agent" /\ pc' = pc /\ idx' = idx /\ idx \in Phases
        /\ status' = "needs_info" /\ UNCHANGED <<merged, fresh>>
    BY <1>1, <1>8 DEF AgentAsks, locals, history, InLoop
  <2>2. AtWork # 0 /\ AtWork' = AtWork /\ Closed' = Closed
    BY <2>1, <1>1 DEF AtWork, Closed, Phases
  <2>3. Lifecycle!Ask
    BY <2>1, <2>2 DEF Lifecycle!Ask
  <2>4. QED
    BY <2>3 DEF Lifecycle!LifeNext
<1>9. CASE (\E st \in Flags : AgentFlags(st)) \/ Answer
  <2>1. status' # "needs_info" /\ pc' = pc /\ idx' = idx
        /\ UNCHANGED <<merged, fresh>>
    BY <1>9, AgentAssumption DEF AgentFlags, Answer, locals, history
  <2>2. pc # "done"
    BY <1>2, <1>9 DEF AgentFlags, Answer
  <2>3. AtWork' = AtWork /\ Closed' = Closed
    BY <2>1, <2>2 DEF AtWork, Closed
  <2>4. CASE status = "needs_info"
    <3>1. Lifecycle!Settle
      BY <2>1, <2>3, <2>4 DEF Lifecycle!Settle
    <3>2. QED
      BY <3>1 DEF Lifecycle!LifeNext
  <2>5. CASE status # "needs_info"
    BY <2>1, <2>3, <2>5 DEF Lifecycle!lifeVars
  <2>6. QED
    BY <2>4, <2>5
<1>10. CASE Merge
  <2>1. pc \in Merging /\ pc' = "finish" /\ merged' = TRUE
        /\ UNCHANGED <<status, fresh>>
    BY <1>10 DEF Merge, Goto, history, Merging
  <2>2. AtWork = 0 /\ AtWork' = 0 /\ Closed = "no" /\ Closed' = "no"
    BY <2>1 DEF AtWork, Closed, Merging
  <2>3. Lifecycle!Publish
    BY <1>2, <1>3, <1>4, <2>1, <2>2 DEF Lifecycle!Publish, Merging
  <2>4. QED
    BY <2>3 DEF Lifecycle!LifeNext
<1>11. CASE Fail
  <2>1. pc = "fail" /\ pc' = "done" /\ status' = "failed"
        /\ UNCHANGED <<merged, fresh>>
    BY <1>11 DEF Fail, Goto, history
  <2>2. AtWork = 0 /\ AtWork' = 0 /\ Closed = "no" /\ Closed' = "failed"
    BY <2>1 DEF AtWork, Closed
  <2>3. Lifecycle!Close("failed")
    BY <1>3, <2>1, <2>2 DEF Lifecycle!Close
  <2>4. QED
    BY <2>3 DEF Lifecycle!LifeNext
<1>12. CASE GiveUpMerge
  <2>1. pc = "conflict" /\ pc' = "done" /\ status' = "merge_conflict"
        /\ UNCHANGED <<merged, fresh>>
    BY <1>12 DEF GiveUpMerge, Goto, history
  <2>2. AtWork = 0 /\ AtWork' = 0 /\ Closed = "no" /\ Closed' = "merge_conflict"
    BY <2>1 DEF AtWork, Closed
  <2>3. Lifecycle!Close("merge_conflict")
    BY <1>3, <1>4, <2>1, <2>2 DEF Lifecycle!Close, Merging
  <2>4. QED
    BY <2>3 DEF Lifecycle!LifeNext
<1>13. CASE RemoveWorktree
  <2>1. pc = "remove" /\ pc' = "done" /\ status = "resolved"
        /\ UNCHANGED <<status, merged, fresh>>
    BY <1>13 DEF RemoveWorktree, Goto, LifeInv
  <2>2. AtWork = 0 /\ AtWork' = 0 /\ Closed = "no" /\ Closed' = "resolved"
    BY <2>1 DEF AtWork, Closed
  <2>3. Lifecycle!Close("resolved")
    BY <2>1, <2>2 DEF Lifecycle!Close, MergedInv
  <2>4. QED
    BY <2>3 DEF Lifecycle!LifeNext
<1>14. CASE Dispatch \/ WorktreeFails \/ Resume \/ AllPhasesDone
  <2>1. Unseen
    BY <1>14 DEF Dispatch, WorktreeFails, Resume, AllPhasesDone, Unseen,
         Working, Goto, disk, history
  <2>2. QED
    BY <2>1, UnseenStutters
<1>15. CASE AgentReturns \/ ReviewBreaks \/ Gate \/ ThreadClears
  <2>1. Unseen
    BY <1>15 DEF AgentReturns, AfterPhase, ReviewBreaks, Gate, ThreadClears,
         Unseen, Working, Goto, disk, locals, history
  <2>2. QED
    BY <2>1, UnseenStutters
<1>16. CASE (\E K \in SUBSET Keys : ReviewBlocks(K)) \/ (\E K \in SUBSET
          Keys, n \in BOOLEAN : ReviewPasses(K, n))
  <2>1. pc = "review" /\ pc' \in {"record", "gate"}
        /\ UNCHANGED <<idx, status, fresh, merged>>
    BY <1>16 DEF ReviewBlocks, ReviewPasses, Goto, history
  <2>2. Unseen
    BY <2>1 DEF Unseen, Working
  <2>3. QED
    BY <2>2, UnseenStutters
<1>17. CASE Advance \/ Commit \/ CommitFails \/ Route \/ NoRoute \/ Recommit
  <2>1. Unseen
    BY <1>2, <1>17 DEF Advance, Commit, CommitFails, CommitWorktree, Route,
         NoRoute, Recommit, Unseen, Working, Goto, disk, history
  <2>2. QED
    BY <2>1, UnseenStutters
<1>18. CASE Blocked \/ AdjudicationFails \/ \E v \in Verdicts : Adjudicate(v)
  <2>1. Unseen
    BY <1>18 DEF Blocked, AdjudicationFails, Adjudicate, Unseen, Working,
         Goto, disk, history
  <2>2. QED
    BY <2>1, UnseenStutters
<1>19. CASE MergeFails \/ MergeConflicts \/ ResolverReturns \/ Finish
  <2>1. Unseen
    BY <1>2, <1>19 DEF MergeFails, MergeConflicts, ResolverReturns, Finish,
         Unseen, Working, Goto, disk, history
  <2>2. QED
    BY <2>1, UnseenStutters
<1>20. CASE AgentEdits \/ AgentHandsOff \/ SettleEntry
          \/ (\E p \in Phases : Evaluate(p)) \/ UNCHANGED vars
  <2>1. UNCHANGED <<pc, idx, status, fresh, merged>>
    BY <1>20 DEF AgentEdits, AgentHandsOff, SettleEntry, Evaluate, vars, disk,
         locals, history
  <2>2. AtWork' = AtWork /\ Closed' = Closed
    BY <2>1 DEF AtWork, Closed
  <2>3. QED
    BY <2>1, <2>2 DEF Lifecycle!lifeVars
<1>21. CASE Reopen \/ Crash \/ Restart \/ Sweep
  BY <1>1, <1>2, <1>21 DEF Reopen, Crash, Restart, Sweep, SweepLists, SweepPosts,
       SweepFlips, PausedInv
<1>22. QED
  BY <1>5, <1>6, <1>7, <1>8, <1>9, <1>10, <1>11, <1>12, <1>13, <1>14, <1>15,
       <1>16, <1>17, <1>18, <1>19, <1>20, <1>21
     DEF Next, Task, Agent, People

(* For every workflow: a ticket that is neither killed, retried nor swept  *)
(* follows its life cycle, whatever reviewers find, adjudicators decide,   *)
(* agents flag and operators answer (_run_ticket, _on_ticket_completed).   *)
THEOREM TicketFollowsLifecycle ==
  ASSUME MaxCrashes = 0, MaxReopens = 0, MaxSweeps = 0
  PROVE  Spec => FollowsLifecycle
PROOF
<1>1. Init => PausedInv /\ OrderInv /\ MergedInv /\ LifeInv
  BY DEF Init, PausedInv, OrderInv, MergedInv, LifeInv, Merging
<1>2. Init => Lifecycle!LifeInit
  BY DEF Init, AtWork, Closed, Lifecycle!LifeInit
<1>3. QED
  BY InitBase, NextBase, NextPaused, NextOrder, NextMerged, NextLife,
     MapsToLifecycle, <1>1, <1>2, PTL
  DEF Spec, FollowsLifecycle, Lifecycle!LifeSpec

=============================================================================
