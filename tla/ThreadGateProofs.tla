--------------------------- MODULE ThreadGateProofs ---------------------------
(***************************************************************************)
(* Proofs about ThreadGate, for any roles, any number of calls in flight   *)
(* and any number of entries.  Every step leaves the thread alone, appends *)
(* one entry, or patches one entry so that its kind and what it responds   *)
(* to stay and a closed entry stays closed (lemma ThreadSteps); the two    *)
(* invariants follow from that and from what the sweep has decided to do.  *)
(***************************************************************************)
EXTENDS ThreadGate, TLAPS

-----------------------------------------------------------------------------
(* Patching an entry of a sequence changes that entry and nothing else. *)
LEMMA PatchSeq ==
    ASSUME NEW S, NEW s \in Seq(S), NEW i \in 1..Len(s), NEW e \in S
    PROVE  /\ [s EXCEPT ![i] = e] \in Seq(S)
           /\ Len([s EXCEPT ![i] = e]) = Len(s)
           /\ \A j \in 1..Len(s) :
                [s EXCEPT ![i] = e][j] = IF j = i THEN e ELSE s[j]
OBVIOUS

(* Appending keeps the earlier entries where they are. *)
LEMMA AppendSeq ==
    ASSUME NEW S, NEW s \in Seq(S), NEW e \in S
    PROVE  /\ Append(s, e) \in Seq(S)
           /\ Len(Append(s, e)) = Len(s) + 1
           /\ \A j \in 1..Len(s) : Append(s, e)[j] = s[j]
           /\ Append(s, e)[Len(s) + 1] = e
OBVIOUS

(* What a patch of an entry keeps. *)
Keeps(e, f) ==
    /\ f \in Entry
    /\ f.kind = e.kind /\ f.responds_to = e.responds_to
    /\ ~IsBlocking(e) => ~IsBlocking(f)

(* The writes of the closing tools, of the gate, of the operator and of    *)
(* time keep what Keeps says.                                              *)
LEMMA WritesKeep ==
    ASSUME NEW e \in Entry
    PROVE  /\ \A op : Keeps(e, Closed(op, e))
           /\ Keeps(e, Accepted(e)) /\ Keeps(e, Rejected(e))
           /\ Keeps(e, [e EXCEPT !.resolved = TRUE])
           /\ e.age < 2 => Keeps(e, [e EXCEPT !.age = @ + 1])
<1>1. Keeps(e, Accepted(e)) /\ Keeps(e, Rejected(e))
  BY DEF Keeps, Accepted, Rejected, Entry, IsBlocking, IsResolved
<1>2. Keeps(e, [e EXCEPT !.resolved = TRUE])
  BY DEF Keeps, Entry, IsBlocking, IsResolved
<1>3. Keeps(e, [e EXCEPT !.waived = TRUE])
  BY DEF Keeps, Entry, IsBlocking, IsResolved
<1>4. ASSUME e.age < 2 PROVE Keeps(e, [e EXCEPT !.age = @ + 1])
  BY <1>4 DEF Keeps, Entry, IsBlocking, IsResolved
<1>5. \A op : Keeps(e, Closed(op, e))
  BY <1>1, <1>2, <1>3 DEF Closed
<1> QED BY <1>1, <1>2, <1>4, <1>5

(* New makes an entry. *)
LEMMA NewEntry ==
    ASSUME NEW kind \in Kinds, NEW author \in Roles \cup {"orchestrator"},
           NEW target \in Nat
    PROVE  /\ New(kind, author, target) \in Entry
           /\ New(kind, author, target).kind = kind
           /\ New(kind, author, target).responds_to = target
BY DEF New, Entry

-----------------------------------------------------------------------------
(* The entry the orchestrator works on exists. *)
HidInv == gate \in {"checks", "bounce", "auto", "prompt"} => hid \in Ids

TypeInv == TypeOK /\ HidInv

Appends(e) == e \in Entry /\ thread' = Append(thread, e)

Patches(i, f) ==
    i \in Ids /\ Keeps(thread[i], f) /\ thread' = [thread EXCEPT ![i] = f]

(* The entries of agents are appended with nothing they respond to, those  *)
(* of the sweep respond to an entry that was due.                          *)
AgentAppends == \E e \in Entry : Appends(e) /\ e.responds_to = 0

SweepAppends ==
    \E i \in Ids, e \in Entry :
        /\ Appends(e) /\ e.responds_to = i
        /\ \/ /\ e.kind = "escalation" /\ i \in sweep.escalate
              /\ sweep' = [sweep EXCEPT !.pc = "flip", !.escalate = @ \ {i}]
           \/ /\ e.kind = "note" /\ i \in sweep.nudge
              /\ sweep' = [sweep EXCEPT !.nudge = @ \ {i}]

(* Every step does one of four things to the thread. *)
LEMMA ThreadSteps ==
    ASSUME TypeInv, [Next]_vars
    PROVE  \/ thread' = thread
           \/ AgentAppends /\ sweep' = sweep
           \/ SweepAppends
           \/ (\E i \in Ids, f \in Entry : Patches(i, f)) /\ sweep' = sweep
<1> USE DEF TypeInv, TypeOK
<1>0. \A i \in Ids : thread[i] \in Entry
  BY DEF Ids
<1>a. ASSUME NEW kind \in Kinds, NEW by \in Roles, Post(New(kind, by, 0))
      PROVE  AgentAppends
  <2>1. New(kind, by, 0) \in Entry /\ New(kind, by, 0).responds_to = 0
    BY NewEntry
  <2> QED BY <1>a, <2>1 DEF AgentAppends, Appends, Post
<1>1. CASE UNCHANGED vars
  BY <1>1 DEF vars
<1>2. CASE AgentPosts
  <2>1. ASSUME NEW kind \in Kinds, NEW by \in Roles, PostBy(kind, by)
        PROVE  AgentAppends /\ sweep' = sweep
    BY <2>1, <1>a DEF PostBy
  <2>2. ASSUME NEW c \in Callers, AskQuestion(c)
        PROVE  AgentAppends /\ sweep' = sweep
    BY <2>2, <1>a, RoleAssumption DEF AskQuestion, Kinds
  <2> QED
    BY <1>2, <2>1, <2>2, RoleAssumption
       DEF AgentPosts, ThreadAsk, ThreadObject, ThreadEscalate, ThreadHandoff, Kinds
<1>3. CASE AgentResolves
  BY <1>3 DEF AgentResolves
<1>4. ASSUME NEW i \in Ids, Age(i)
      PROVE  (\E j \in Ids, f \in Entry : Patches(j, f)) /\ sweep' = sweep
  <2>1. Keeps(thread[i], [thread[i] EXCEPT !.age = @ + 1])
    BY <1>0, <1>4, WritesKeep DEF Age
  <2>2. thread' = [thread EXCEPT ![i] = [thread[i] EXCEPT !.age = @ + 1]]
    BY <1>4 DEF Age
  <2> QED BY <1>4, <2>1, <2>2 DEF Patches, Keeps, Age
<1>5. ASSUME NEW i \in Ids, CloseEntry(i) PROVE thread' = thread
  BY <1>5 DEF CloseEntry, BeginClose
<1>6. CASE Answer
  BY <1>6 DEF Answer, BeginAnswer
<1>7. ASSUME NEW c \in Callers, Finish(c)
      PROVE  \/ thread' = thread
             \/ (\E i \in Ids, f \in Entry : Patches(i, f)) /\ sweep' = sweep
  <2>1. CASE FinishClose(c)
    <3>1. call[c].id \in Ids
      BY <2>1 DEF FinishClose
    <3>2. Keeps(thread[call[c].id], Closed(call[c].op, thread[call[c].id]))
      BY <1>0, <3>1, WritesKeep
    <3> QED BY <2>1, <3>1, <3>2 DEF FinishClose, Patches, Keeps
  <2> QED BY <1>7, <2>1 DEF Finish, FinishPause, FinishAnswer
<1>8. CASE Task
  <2>1. CASE HarnessJudges
    <3>1. hid \in Ids
      BY <2>1 DEF HarnessJudges, HidInv
    <3>2. Keeps(thread[hid], Accepted(thread[hid]))
          /\ Keeps(thread[hid], Rejected(thread[hid]))
      BY <1>0, <3>1, WritesKeep
    <3> QED BY <2>1, <3>1, <3>2 DEF HarnessJudges, Patches, Keeps
  <2>2. CASE OperatorReplies
    <3>1. hid \in Ids
      BY <2>2 DEF OperatorReplies, HidInv
    <3>2. Keeps(thread[hid], [thread[hid] EXCEPT !.resolved = TRUE])
      BY <1>0, <3>1, WritesKeep
    <3> QED BY <2>2, <3>1, <3>2 DEF OperatorReplies, Patches, Keeps
  <2> QED
    BY <1>8, <2>1, <2>2
       DEF Task, AgentReturns, ChecksEnd, Look, WaitEnds, WaitForResume, Unpause,
           SilentWaitEnds
<1>9. CASE Sweep
  <2>1. ASSUME NEW i \in Ids, SweepEscalates(i) PROVE SweepAppends
    <3>1. i \in Nat
      BY DEF Ids
    <3>2. /\ New("escalation", "orchestrator", i) \in Entry
          /\ New("escalation", "orchestrator", i).kind = "escalation"
          /\ New("escalation", "orchestrator", i).responds_to = i
      BY <3>1 DEF New, Entry, Kinds
    <3> QED BY <2>1, <3>2 DEF SweepEscalates, SweepAppends, Appends, Post
  <2>2. ASSUME NEW i \in Ids, SweepNudges(i) PROVE SweepAppends
    <3>1. i \in Nat
      BY DEF Ids
    <3>2. /\ New("note", "orchestrator", i) \in Entry
          /\ New("note", "orchestrator", i).kind = "note"
          /\ New("note", "orchestrator", i).responds_to = i
      BY <3>1 DEF New, Entry, Kinds
    <3> QED BY <2>2, <3>2 DEF SweepNudges, SweepAppends, Appends, Post
  <2> QED
    BY <1>9, <2>1, <2>2 DEF Sweep, SweepLists, SweepReads, SweepFlips, SweepEnds
<1> QED
  BY <1>1, <1>2, <1>3, <1>4, <1>5, <1>6, <1>7, <1>8, <1>9 DEF Next

-----------------------------------------------------------------------------
(* What the steps do to the length and the entries of the thread. *)
LEMMA ThreadGrows ==
    ASSUME TypeInv, [Next]_vars
    PROVE  /\ thread' \in Seq(Entry)
           /\ Len(thread) \in Nat /\ Len(thread') \in Nat
           /\ Len(thread) <= Len(thread')
           /\ \A i \in Ids : i \in Ids' /\ Keeps(thread[i], thread'[i])
<1>0. thread \in Seq(Entry) /\ \A i \in Ids : thread[i] \in Entry
  BY DEF TypeInv, TypeOK, Ids
<1>1. \A e \in Entry : Keeps(e, e)
  BY DEF Keeps
<1>2. CASE thread' = thread
  BY <1>0, <1>1, <1>2 DEF Ids
<1>3. CASE \E e \in Entry : Appends(e)
  <2>1. PICK e \in Entry : thread' = Append(thread, e)
    BY <1>3 DEF Appends
  <2> QED BY <1>0, <1>1, <2>1, AppendSeq DEF Ids
<1>4. CASE \E i \in Ids, f \in Entry : Patches(i, f)
  <2>1. PICK i \in Ids, f \in Entry : Patches(i, f)
    BY <1>4
  <2>2. /\ thread' \in Seq(Entry) /\ Len(thread') = Len(thread)
        /\ \A j \in 1..Len(thread) : thread'[j] = IF j = i THEN f ELSE thread[j]
    BY <1>0, <2>1, PatchSeq DEF Patches, Ids
  <2> QED BY <1>0, <1>1, <2>1, <2>2 DEF Ids, Patches
<1> QED
  BY <1>2, <1>3, <1>4, ThreadSteps DEF AgentAppends, SweepAppends

-----------------------------------------------------------------------------
(* The initial states are well typed. *)
LEMMA InitType == Init => TypeInv
<1> SUFFICES ASSUME Init PROVE TypeInv
  OBVIOUS
<1>1. thread \in Seq(Entry) /\ Ids = {}
  BY DEF Init, Ids
<1>2. call \in [Callers -> [op : Ops \cup {"none"}, id : Nat]]
      /\ \A c \in Callers : call[c].id = 0
  BY DEF Init, Idle
<1>3. sweep \in [pc : {"idle", "listed", "scan", "flip"},
                 escalate : SUBSET Ids, nudge : SUBSET Ids]
  BY DEF Init
<1> QED
  BY <1>1, <1>2, <1>3 DEF Init, TypeInv, TypeOK, HidInv, Statuses, Places

(* A sweep record stays a sweep record when the thread grows. *)
LEMMA SweepType ==
    ASSUME TypeInv, [Next]_vars
    PROVE  sweep' \in [pc : {"idle", "listed", "scan", "flip"},
                       escalate : SUBSET Ids', nudge : SUBSET Ids']
<1> DEFINE PCs == {"idle", "listed", "scan", "flip"}
           Rec(S) == [pc : PCs, escalate : SUBSET S, nudge : SUBSET S]
<1>0. sweep \in Rec(Ids) /\ \A i \in Ids : i \in Ids'
  BY ThreadGrows DEF TypeInv, TypeOK
<1>1. sweep \in Rec(Ids')
  BY <1>0
<1>2. CASE sweep' = sweep
  BY <1>1, <1>2
<1>3. CASE Sweep
  <2>1. CASE SweepReads
    <3>1. Sweepable \subseteq Ids'
      BY <1>0 DEF Sweepable, Blocking
    <3> QED BY <2>1, <3>1, <1>1 DEF SweepReads
  <2>2. ASSUME NEW i \in Ids, SweepEscalates(i) \/ SweepNudges(i)
        PROVE  sweep' \in Rec(Ids')
    BY <2>2, <1>1 DEF SweepEscalates, SweepNudges
  <2> QED
    BY <1>1, <1>3, <2>1, <2>2 DEF Sweep, SweepLists, SweepFlips, SweepEnds
<1> QED
  BY <1>2, <1>3
     DEF Next, vars, AgentPosts, ThreadAsk, ThreadObject, ThreadEscalate,
         ThreadHandoff, PostBy, AskQuestion, AgentResolves, Age, CloseEntry,
         BeginClose, Answer, BeginAnswer, Finish, FinishClose, FinishPause,
         FinishAnswer, Task, AgentReturns, ChecksEnd, HarnessJudges, Look,
         WaitEnds, WaitForResume, OperatorReplies, Unpause, SilentWaitEnds

(* The calls in flight name entries of the thread. *)
LEMMA CallType ==
    ASSUME TypeInv, [Next]_vars
    PROVE  /\ call' \in [Callers -> [op : Ops \cup {"none"}, id : Nat]]
           /\ \A c \in Callers : call'[c].id \in Ids' \cup {0}
<1> DEFINE Rec == [op : Ops \cup {"none"}, id : Nat]
<1>0. /\ call \in [Callers -> Rec] /\ \A c \in Callers : call[c].id \in Ids \cup {0}
      /\ \A i \in Ids : i \in Ids'
  BY ThreadGrows DEF TypeInv, TypeOK
<1>1. CASE call' = call
  BY <1>0, <1>1
<1>2. ASSUME NEW c \in Callers, NEW r \in Rec, r.id \in Ids \cup {0},
             call' = [call EXCEPT ![c] = r]
      PROVE  /\ call' \in [Callers -> Rec]
             /\ \A d \in Callers : call'[d].id \in Ids' \cup {0}
  BY <1>0, <1>2
<1>3. Idle \in Rec /\ Idle.id = 0
  BY DEF Idle
<1>4. ASSUME NEW op \in Ops, NEW i \in Ids \cup {0}
      PROVE  [op |-> op, id |-> i] \in Rec /\ [op |-> op, id |-> i].id = i
  BY DEF Ids
<1>5. ASSUME NEW c \in Callers, AskQuestion(c) \/ BeginAnswer(c) \/ Finish(c)
      PROVE  \E r \in Rec : r.id = 0 /\ call' = [call EXCEPT ![c] = r]
  <2>1. "pause" \in Ops /\ "answer" \in Ops
    BY DEF Ops
  <2> QED
    BY <1>3, <1>4, <1>5, <2>1
       DEF AskQuestion, BeginAnswer, Finish, FinishClose, FinishPause, FinishAnswer
<1>6. ASSUME NEW i \in Ids, CloseEntry(i)
      PROVE  \E c \in Callers, r \in Rec :
                 r.id = i /\ call' = [call EXCEPT ![c] = r]
  BY <1>4, <1>6 DEF CloseEntry, BeginClose
<1>7. CASE \E c \in Callers : AskQuestion(c) \/ BeginAnswer(c) \/ Finish(c)
  BY <1>2, <1>5, <1>7
<1>8. CASE \E i \in Ids : CloseEntry(i)
  BY <1>2, <1>6, <1>8
<1> QED
  BY <1>1, <1>7, <1>8
     DEF Next, vars, AgentPosts, ThreadAsk, ThreadObject, ThreadEscalate,
         ThreadHandoff, PostBy, AgentResolves, Age, Answer, Task, AgentReturns,
         ChecksEnd, HarnessJudges, Look, WaitEnds, WaitForResume,
         OperatorReplies, Unpause, SilentWaitEnds, Sweep, SweepLists,
         SweepReads, SweepEscalates, SweepFlips, SweepNudges, SweepEnds
(* The place of the orchestrator, and the entry it works on. *)
LEMMA TaskType ==
    ASSUME TypeInv, [Next]_vars
    PROVE  /\ status' \in Statuses /\ automated' \in BOOLEAN
           /\ gate' \in Places /\ hid' \in Ids' \cup {0} /\ seen' \in Nat
           /\ HidInv'
<1> USE DEF HidInv
<1>0. /\ status \in Statuses /\ automated \in BOOLEAN /\ gate \in Places
      /\ hid \in Ids \cup {0} /\ seen \in Nat /\ HidInv
      /\ Len(thread) \in Nat /\ \A i \in Ids : i \in Ids'
  BY ThreadGrows DEF TypeInv, TypeOK
<1>1. CASE UNCHANGED <<status, automated, gate, hid, seen>>
  BY <1>0, <1>1
<1>2. CASE Task
  <2>1. CASE AgentReturns
    BY <1>0, <2>1 DEF AgentReturns, Places, Ended
  <2>2. CASE WaitForResume
    BY <1>0, <2>2 DEF WaitForResume, Places, Ended
  <2>3. ASSUME NEW passing \in BOOLEAN, ChecksEnd(passing)
        PROVE  gate' \in {"look", "dead", "auto", "bounce"} /\ hid \in Ids
    BY <1>0, <2>3 DEF ChecksEnd
  <2>4. CASE \E passing \in BOOLEAN : ChecksEnd(passing)
    <3>1. UNCHANGED <<status, automated, hid, seen>>
      BY <2>4 DEF ChecksEnd
    <3> QED BY <1>0, <2>3, <2>4, <3>1 DEF Places, Ended
  <2>5. CASE Look
    <3>1. gate' \in {"dead", "wait", "rejected", "passed"}
      BY <2>5 DEF Look
    <3>2. UNCHANGED <<status, automated, hid>> /\ seen' \in Nat
      BY <1>0, <2>5 DEF Look
    <3> QED BY <1>0, <3>1, <3>2 DEF Places, Ended
  <2>6. CASE HarnessJudges \/ WaitEnds \/ SilentWaitEnds
    BY <1>0, <2>6 DEF HarnessJudges, WaitEnds, SilentWaitEnds, Places, Ended
  <2>7. CASE OperatorReplies \/ Unpause
    BY <1>0, <2>7 DEF OperatorReplies, Unpause, Places, Ended, Statuses
  <2> QED BY <1>2, <2>1, <2>2, <2>4, <2>5, <2>6, <2>7 DEF Task
<1>3. CASE UNCHANGED <<automated, gate, hid, seen>> /\ status' \in Statuses
  BY <1>0, <1>3
<1>4. CASE AgentResolves \/ SweepFlips \/ \E c \in Callers : Finish(c)
  BY <1>0, <1>3, <1>4
     DEF AgentResolves, SweepFlips, Finish, FinishClose, FinishPause,
         FinishAnswer, Statuses
<1>5. CASE AgentPosts \/ Answer
  BY <1>1, <1>5
     DEF AgentPosts, ThreadAsk, ThreadObject, ThreadEscalate, ThreadHandoff,
         PostBy, AskQuestion, Answer, BeginAnswer
<1>6. CASE \E i \in Ids : Age(i) \/ CloseEntry(i)
  BY <1>1, <1>6 DEF Age, CloseEntry, BeginClose
<1>7. CASE Sweep
  BY <1>1, <1>4, <1>7
     DEF Sweep, SweepLists, SweepReads, SweepEscalates, SweepNudges, SweepEnds
<1> QED
  BY <1>1, <1>2, <1>4, <1>5, <1>6, <1>7 DEF Next, vars

(* LEMMA: every step keeps the types, and the entry the gate acts on.        *)
LEMMA NextType == TypeInv /\ [Next]_vars => TypeInv'
<1> SUFFICES ASSUME TypeInv, [Next]_vars PROVE TypeInv'
  OBVIOUS
<1> QED
  BY ThreadGrows, SweepType, CallType, TaskType DEF TypeInv, TypeOK

(* Typing: the tools, the gate, the operator and the sweep, in any order,  *)
(* keep every record well formed and every reference to an entry valid.    *)
THEOREM ThreadGateTypeCorrect == Spec => []TypeOK
<1>1. TypeInv => TypeOK
  BY DEF TypeInv
<1> QED BY InitType, NextType, <1>1, PTL DEF Spec

(* LEMMA: the strengthened types hold of every state.                        *)
LEMMA TypeAlways == Spec => []TypeInv
BY InitType, NextType, PTL DEF Spec

-----------------------------------------------------------------------------
(* A phase that has passed: the thread is at least as long as it was, and  *)
(* nothing of what it held then blocks.                                    *)
SettledInv ==
    gate = "passed" => /\ seen \in 0..Len(thread)
                       /\ \A i \in 1..seen : ~IsBlocking(thread[i])

(* LEMMA: no step opens an entry again that was closed when the phase        *)
(* passed.                                                                   *)
LEMMA NextSettled == TypeInv /\ SettledInv /\ [Next]_vars => SettledInv'
<1> SUFFICES ASSUME TypeInv, SettledInv, [Next]_vars, gate' = "passed"
             PROVE  /\ seen' \in 0..Len(thread')
                    /\ \A i \in 1..(seen') : ~IsBlocking(thread'[i])
  BY DEF SettledInv
<1>0. /\ Len(thread) \in Nat /\ Len(thread') \in Nat
      /\ Len(thread) <= Len(thread')
      /\ \A i \in 1..Len(thread) : ~IsBlocking(thread[i]) => ~IsBlocking(thread'[i])
  BY ThreadGrows DEF Keeps, Ids
<1>1. CASE Look
  <2>1. Blocking = {} /\ seen' = Len(thread)
    BY <1>1 DEF Look
  <2>2. \A i \in 1..Len(thread) : ~IsBlocking(thread[i])
    BY <2>1 DEF Blocking, Ids
  <2> QED BY <1>0, <2>1, <2>2
<1>2. CASE gate = "passed" /\ seen' = seen
  <2>1. seen \in 0..Len(thread) /\ \A i \in 1..seen : ~IsBlocking(thread[i])
    BY <1>2 DEF SettledInv
  <2> QED BY <1>0, <1>2, <2>1
<1>3. CASE ~Look
  <2>1. CASE Task
    BY <1>3, <2>1
       DEF Task, AgentReturns, ChecksEnd, HarnessJudges, WaitEnds, WaitForResume,
           OperatorReplies, Unpause, SilentWaitEnds
  <2>2. CASE AgentPosts \/ Answer \/ AgentResolves
    BY <1>2, <2>2
       DEF AgentPosts, ThreadAsk, ThreadObject, ThreadEscalate, ThreadHandoff,
           PostBy, AskQuestion, Answer, BeginAnswer, AgentResolves
  <2>3. CASE \E i \in Ids : Age(i) \/ CloseEntry(i)
    BY <1>2, <2>3 DEF Age, CloseEntry, BeginClose
  <2>4. CASE \E c \in Callers : Finish(c)
    BY <1>2, <2>4 DEF Finish, FinishClose, FinishPause, FinishAnswer
  <2>5. CASE Sweep
    BY <1>2, <2>5
       DEF Sweep, SweepLists, SweepReads, SweepEscalates, SweepFlips, SweepNudges,
           SweepEnds
  <2>6. CASE UNCHANGED vars
    BY <1>2, <2>6 DEF vars
  <2> QED BY <2>1, <2>2, <2>3, <2>4, <2>5, <2>6 DEF Next
<1> QED BY <1>1, <1>3

(* A phase passes only when every entry of the thread is closed, and no    *)
(* write that was in flight, of a tool, of the operator or of the sweep,   *)
(* opens one of them again (has_unresolved_blocking in orchestrator.py).   *)
THEOREM ThreadPassedMeansSettled == Spec => []PassedMeansSettled
<1>1. Init => SettledInv
  BY DEF Init, SettledInv
<1>2. SettledInv => PassedMeansSettled
  BY DEF SettledInv, PassedMeansSettled
<1> QED BY TypeAlways, <1>1, NextSettled, <1>2, PTL DEF Spec
-----------------------------------------------------------------------------
(* A responder points at an entry of an agent; two responders of one kind  *)
(* point at different entries; and what the sweep still means to post has  *)
(* not been posted.                                                        *)
PointsInv ==
    \A j \in Ids : thread[j].responds_to # 0 =>
        /\ thread[j].responds_to \in Ids
        /\ thread[thread[j].responds_to].responds_to = 0

OnceInv ==
    \A i, j \in Ids :
        /\ thread[i].responds_to # 0
        /\ thread[i].responds_to = thread[j].responds_to
        /\ thread[i].kind = thread[j].kind
        => i = j

Unanswered(S, kind) ==
    \A i \in S : /\ thread[i].responds_to = 0
                 /\ \A j \in Ids : thread[j].responds_to = i =>
                                       thread[j].kind # kind

PlanInv ==
    /\ Unanswered(sweep.escalate, "escalation")
    /\ Unanswered(sweep.nudge, "note")

SpeakInv == PointsInv /\ OnceInv /\ PlanInv

(* A step that keeps the kinds and the references keeps the invariant. *)
LEMMA SpeakFrame ==
    ASSUME TypeInv, SpeakInv, Ids' = Ids, sweep' = sweep,
           \A i \in Ids : /\ thread'[i].kind = thread[i].kind
                          /\ thread'[i].responds_to = thread[i].responds_to
    PROVE  SpeakInv'
<1>0. sweep.escalate \subseteq Ids /\ sweep.nudge \subseteq Ids
  BY DEF TypeInv, TypeOK
<1>1. PointsInv'
  BY DEF SpeakInv, PointsInv
<1>2. OnceInv'
  BY DEF SpeakInv, OnceInv
<1>3. PlanInv'
  BY <1>0 DEF SpeakInv, PlanInv, Unanswered
<1> QED BY <1>1, <1>2, <1>3 DEF SpeakInv

(* The thread is read: what the sweep plans has no responder yet. *)
LEMMA SpeakReads ==
    ASSUME TypeInv, SpeakInv, thread' = thread,
           \/ SweepReads
           \/ sweep'.escalate = sweep.escalate /\ sweep'.nudge = sweep.nudge
    PROVE  SpeakInv'
<1>1. PointsInv' /\ OnceInv'
  BY DEF SpeakInv, PointsInv, OnceInv, Ids
<1>2. CASE sweep'.escalate = sweep.escalate /\ sweep'.nudge = sweep.nudge
  BY <1>1, <1>2 DEF SpeakInv, PlanInv, Unanswered, Ids
<1>3. CASE SweepReads /\ ~Readable
  <2>1. sweep'.escalate = sweep.escalate /\ sweep'.nudge = sweep.nudge
    BY <1>3 DEF SweepReads, TypeInv, TypeOK
  <2> QED BY <1>1, <2>1 DEF SpeakInv, PlanInv, Unanswered, Ids
<1>4. CASE SweepReads /\ Readable
  <2>1. /\ \A i \in sweep'.escalate : i \in Sweepable /\ ~HasResponder(i, "escalation")
        /\ \A i \in sweep'.nudge : i \in Sweepable /\ ~HasResponder(i, "note")
    BY <1>4 DEF SweepReads
  <2>2. PlanInv'
    BY <2>1 DEF PlanInv, Unanswered, Sweepable, HasResponder, Ids
  <2> QED BY <1>1, <2>2 DEF SpeakInv
<1> QED BY <1>2, <1>3, <1>4

(* An entry is appended that responds to nothing, or that the sweep had    *)
(* planned.                                                                *)
LEMMA SpeakAppends ==
    ASSUME TypeInv, SpeakInv, \/ AgentAppends /\ sweep' = sweep
                              \/ SweepAppends
    PROVE  SpeakInv'
<1>0. /\ thread \in Seq(Entry) /\ Len(thread) \in Nat
      /\ sweep.escalate \subseteq Ids /\ sweep.nudge \subseteq Ids
  BY DEF TypeInv, TypeOK
<1>1. PICK e \in Entry : thread' = Append(thread, e)
  BY DEF AgentAppends, SweepAppends, Appends
<1>2. /\ Len(thread') = Len(thread) + 1
      /\ \A j \in Ids : thread'[j] = thread[j]
      /\ thread'[Len(thread) + 1] = e
      /\ Ids' = Ids \cup {Len(thread) + 1}
      /\ Len(thread) + 1 \notin Ids /\ 0 \notin Ids
  BY <1>0, <1>1, AppendSeq DEF Ids
<1> DEFINE n == Len(thread) + 1
<1> HIDE DEF n
<1>n. /\ \A j \in Ids : thread'[j] = thread[j]
      /\ thread'[n] = e /\ Ids' = Ids \cup {n} /\ n \notin Ids /\ 0 \notin Ids
  BY <1>2 DEF n
<1>3. CASE e.responds_to = 0 /\ sweep' = sweep
  <2>1. PointsInv'
    BY <1>n, <1>3 DEF SpeakInv, PointsInv
  <2>2. OnceInv'
    BY <1>n, <1>3 DEF SpeakInv, OnceInv
  <2>3. PlanInv'
    BY <1>0, <1>n, <1>3 DEF SpeakInv, PlanInv, Unanswered
  <2> QED BY <2>1, <2>2, <2>3 DEF SpeakInv
<1>4. ASSUME NEW i \in Ids, e.responds_to = i,
             \/ /\ e.kind = "escalation" /\ i \in sweep.escalate
                /\ sweep'.escalate = sweep.escalate \ {i}
                /\ sweep'.nudge = sweep.nudge
             \/ /\ e.kind = "note" /\ i \in sweep.nudge
                /\ sweep'.escalate = sweep.escalate
                /\ sweep'.nudge = sweep.nudge \ {i}
      PROVE  SpeakInv'
  <2>1. /\ thread[i].responds_to = 0
        /\ \A j \in Ids : thread[j].responds_to = i => thread[j].kind # e.kind
    BY <1>4 DEF SpeakInv, PlanInv, Unanswered
  <2>2. PointsInv'
    BY <1>n, <1>4, <2>1 DEF SpeakInv, PointsInv
  <2>3. OnceInv'
    BY <1>n, <1>4, <2>1 DEF SpeakInv, OnceInv
  <2>4. PlanInv'
    <3>1. Unanswered(sweep.escalate, "escalation") /\ Unanswered(sweep.nudge, "note")
      BY DEF SpeakInv, PlanInv
    <3>2. CASE e.kind = "escalation"
      BY <1>0, <1>n, <1>4, <3>1, <3>2 DEF PlanInv, Unanswered
    <3>3. CASE e.kind = "note"
      BY <1>0, <1>n, <1>4, <3>1, <3>3 DEF PlanInv, Unanswered
    <3> QED BY <1>4, <3>2, <3>3
  <2> QED BY <2>2, <2>3, <2>4 DEF SpeakInv
<1>5. CASE AgentAppends /\ sweep' = sweep
  <2>1. PICK f \in Entry : thread' = Append(thread, f) /\ f.responds_to = 0
    BY <1>5 DEF AgentAppends, Appends
  <2>2. f = e
    BY <1>0, <1>2, <2>1, AppendSeq
  <2> QED BY <1>3, <1>5, <2>1, <2>2
<1>6. CASE SweepAppends
  <2>1. PICK i \in Ids, f \in Entry :
          /\ thread' = Append(thread, f) /\ f.responds_to = i
          /\ \/ /\ f.kind = "escalation" /\ i \in sweep.escalate
                /\ sweep' = [sweep EXCEPT !.pc = "flip", !.escalate = @ \ {i}]
             \/ /\ f.kind = "note" /\ i \in sweep.nudge
                /\ sweep' = [sweep EXCEPT !.nudge = @ \ {i}]
    BY <1>6 DEF SweepAppends, Appends
  <2>2. f = e
    BY <1>0, <1>2, <2>1, AppendSeq
  <2>3. \/ /\ f.kind = "escalation" /\ i \in sweep.escalate
           /\ sweep'.escalate = sweep.escalate \ {i} /\ sweep'.nudge = sweep.nudge
        \/ /\ f.kind = "note" /\ i \in sweep.nudge
           /\ sweep'.escalate = sweep.escalate /\ sweep'.nudge = sweep.nudge \ {i}
    BY <2>1 DEF TypeInv, TypeOK
  <2> QED BY <1>4, <2>1, <2>2, <2>3
<1> QED BY <1>5, <1>6

(* LEMMA: no step posts a second responder of a kind to an entry.            *)
LEMMA NextSpeak == TypeInv /\ SpeakInv /\ [Next]_vars => SpeakInv'
<1> SUFFICES ASSUME TypeInv, SpeakInv, [Next]_vars PROVE SpeakInv'
  OBVIOUS
<1>1. CASE (\E i \in Ids, f \in Entry : Patches(i, f)) /\ sweep' = sweep
  <2>1. Ids' = Ids
    BY <1>1, PatchSeq DEF Patches, Ids, TypeInv, TypeOK, Keeps
  <2>2. \A i \in Ids : /\ thread'[i].kind = thread[i].kind
                       /\ thread'[i].responds_to = thread[i].responds_to
    BY ThreadGrows DEF Keeps
  <2> QED BY <1>1, <2>1, <2>2, SpeakFrame
<1>2. CASE thread' = thread
  <2>1. \/ SweepReads \/ SweepAppends
        \/ sweep'.escalate = sweep.escalate /\ sweep'.nudge = sweep.nudge
    <3>0. sweep \in [pc : {"idle", "listed", "scan", "flip"},
                     escalate : SUBSET Ids, nudge : SUBSET Ids]
      BY DEF TypeInv, TypeOK
    <3>1. CASE Sweep
      <4>1. ASSUME NEW i \in Ids, SweepEscalates(i) \/ SweepNudges(i) PROVE FALSE
        <5>1. thread \in Seq(Entry) /\ i \in Nat
          BY DEF TypeInv, TypeOK, Ids
        <5>2. /\ New("escalation", "orchestrator", i) \in Entry
              /\ New("note", "orchestrator", i) \in Entry
          BY <5>1 DEF New, Entry, Kinds
        <5>3. \E e \in Entry : thread' = Append(thread, e)
          BY <4>1, <5>2 DEF SweepEscalates, SweepNudges, Post
        <5>4. Len(thread) \in Nat /\ \A e \in Entry : Append(thread, e) # thread
          BY <5>1, AppendSeq
        <5> QED BY <1>2, <5>3, <5>4
      <4> QED
        BY <3>0, <3>1, <4>1 DEF Sweep, SweepLists, SweepFlips, SweepEnds
    <3>2. CASE sweep' = sweep
      BY <3>2
    <3> QED
      BY <3>1, <3>2
         DEF Next, vars, AgentPosts, ThreadAsk, ThreadObject, ThreadEscalate,
             ThreadHandoff, PostBy, AskQuestion, AgentResolves, Age, CloseEntry,
             BeginClose, Answer, BeginAnswer, Finish, FinishClose, FinishPause,
             FinishAnswer, Task, AgentReturns, ChecksEnd, HarnessJudges, Look,
             WaitEnds, WaitForResume, OperatorReplies, Unpause, SilentWaitEnds
  <2> QED BY <1>2, <2>1, SpeakReads, SpeakAppends
<1> QED BY <1>1, <1>2, SpeakAppends, ThreadSteps

(* The sweep nudges an entry at most once and escalates it at most once,   *)
(* and it never answers itself, for any number of entries and whatever is  *)
(* posted or closed while it works (sweep_blocking_entries, whose          *)
(* decisions rest on one reading of the thread).                           *)
THEOREM ThreadSweepSpeaksOnce == Spec => []SweepSpeaksOnce
<1>1. Init => SpeakInv
  BY DEF Init, SpeakInv, PointsInv, OnceInv, PlanInv, Unanswered, Ids
<1>2. SpeakInv => SweepSpeaksOnce
  BY DEF SpeakInv, PointsInv, OnceInv, SweepSpeaksOnce
<1> QED BY TypeAlways, <1>1, NextSpeak, <1>2, PTL DEF Spec
=============================================================================
