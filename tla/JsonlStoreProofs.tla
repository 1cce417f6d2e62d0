-------------------------- MODULE JsonlStoreProofs --------------------------
(* Proofs about JsonlStore, for every set of ids, values and workers. *)
EXTENDS JsonlStore, TLAPS

-----------------------------------------------------------------------------
(* What a suspended call carries: one call at a time, by the lock, with a  *)
(* value to write and, for update and delete, a captured dict.             *)
CallInv ==
    /\ lock # None => up
    /\ \A w \in Workers : Suspended(w) <=> lock = w
    /\ \A w \in Workers : Suspended(w) =>
          /\ call[w].op \in {"insert", "update"} => call[w].val \in Vals
          /\ call[w].op = "delete" => call[w].val = None
          /\ call[w].op # "insert" => call[w].cur \in Vals
          /\ call[w].op = "insert" => call[w].cur = None

(* LEMMA: the initial state is well typed and nobody is suspended. *)
LEMMA InitBase == Init => TypeOK /\ CallInv
  BY NoneAssumption
  DEF Init, TypeOK, CallInv, Slot, Calls, NoCall, Suspended

(* LEMMA: every step of the shared store, or a delete, keeps the types and *)
(* the one-call-at-a-time facts.                                           *)
LEMMA NextBase ==
  ASSUME TypeOK, CallInv, [SharedNext \/ Deletes]_vars
  PROVE  TypeOK' /\ CallInv'
<1> USE NoneAssumption DEF TypeOK, CallInv, Suspended, Slot
<1>1. CASE Writes
  <2>1. PICK w \in Workers, i \in Ids, v \in Vals :
           InsertBegin(w, i, v) \/ UpdateBegin(w, i, v)
    BY <1>1 DEF Writes
  <2>2. CASE InsertBegin(w, i, v)
    <3>1. call'[w] \in Calls /\ Suspended(w)'
      BY <1>1, <2>2 DEF Writes, InsertBegin, Begin, Calls
    <3> QED BY <1>1, <2>2, <3>1 DEF Writes, InsertBegin, Begin
  <2>3. CASE UpdateBegin(w, i, v)
    <3>1. call'[w] \in Calls /\ Suspended(w)'
      BY <1>1, <2>3 DEF Writes, UpdateBegin, Begin, Calls
    <3> QED BY <1>1, <2>3, <3>1 DEF Writes, UpdateBegin, Begin
  <2> QED BY <2>1, <2>2, <2>3
<1>2. CASE Deletes
  <2>1. PICK w \in Workers, i \in Ids : DeleteBegin(w, i)
    BY <1>2 DEF Deletes
  <2>2. call'[w] \in Calls /\ Suspended(w)'
    BY <1>2, <2>1 DEF Deletes, DeleteBegin, Begin, Calls
  <2> QED
    BY <1>2, <2>1, <2>2 DEF Deletes, DeleteBegin, Begin
<1>3. ASSUME NEW w \in Workers, Proceeds(w) PROVE TypeOK' /\ CallInv'
  <2>0. call[w] \in Calls /\ call[w].pc # "idle" /\ lock = w
    BY <1>3 DEF Proceeds, Append, AppendFirstPart, AppendLastPart,
                AppendRaises, AppendBreaksOff, Resume
  <2>1. call[w].id \in Ids /\ call[w].val \in Slot /\ call[w].cur \in Slot
    BY <2>0 DEF Calls, NoCall
  <2>2. CASE Append(w)
    <3>1. call'[w] \in Calls BY <2>0, <2>2 DEF Append, Calls, NoCall
    <3> QED BY <2>0, <2>1, <2>2, <3>1 DEF Append, Land
  <2>3. CASE AppendFirstPart(w)
    <3>1. call'[w] \in Calls BY <2>0, <2>3 DEF AppendFirstPart, Calls, NoCall
    <3> QED BY <2>0, <2>1, <2>3, <3>1 DEF AppendFirstPart
  <2>4. CASE AppendLastPart(w)
    <3>1. call'[w] \in Calls BY <2>0, <2>4 DEF AppendLastPart, Calls, NoCall
    <3> QED BY <2>0, <2>1, <2>4, <3>1 DEF AppendLastPart
  <2>5. CASE AppendRaises(w)
    <3>1. call'[w] \in Calls /\ ~Suspended(w)'
      BY <2>5 DEF AppendRaises, Calls, NoCall
    <3> QED BY <2>0, <2>5, <3>1 DEF AppendRaises
  <2>7. CASE AppendBreaksOff(w)
    <3>1. call'[w] \in Calls /\ ~Suspended(w)'
      BY <2>7 DEF AppendBreaksOff, Calls, NoCall
    <3> QED BY <2>0, <2>7, <3>1 DEF AppendBreaksOff
  <2>6. CASE Resume(w)
    <3>1. call'[w] \in Calls /\ ~Suspended(w)'
      BY <2>6 DEF Resume, Calls, NoCall
    <3>2. docs' \in [Ids -> Slot] /\ index' \in [Vals -> SUBSET Ids]
      BY <2>0, <2>1, <2>6
      DEF Resume, ResumeInsert, ResumeUpdate, ResumeDelete,
          IndexInsert, IndexRemove
    <3> QED BY <2>0, <2>6, <3>1, <3>2 DEF Resume
  <2> QED BY <1>3, <2>2, <2>3, <2>4, <2>5, <2>6, <2>7 DEF Proceeds
<1>4. CASE Crash
  BY <1>4 DEF Crash, Calls, NoCall
<1>5. CASE Restart
  BY <1>5 DEF Restart, Indexed
<1>6. CASE Load
  <2>1. ASSUME NEW w \in Workers PROVE call'[w] \in Calls
    <3>1. CASE call[w].pc = "idle" BY <1>6, <3>1 DEF Load
    <3>2. CASE call[w].pc # "idle"
      <4>1. call[w] \in
              [pc : {"append", "half", "appended"},
               op : {"insert", "update", "delete"},
               id : Ids, val : Slot, cur : Slot, bound : BOOLEAN]
        BY <3>2 DEF Calls, NoCall
      <4>2. call'[w] = [call[w] EXCEPT !.bound = FALSE]
        BY <1>6, <3>2 DEF Load
      <4> QED BY <4>1, <4>2 DEF Calls
    <3> QED BY <3>1, <3>2
  <2>2. \A w \in Workers :
           /\ call'[w].pc = call[w].pc /\ call'[w].op = call[w].op
           /\ call'[w].val = call[w].val /\ call'[w].cur = call[w].cur
    BY <1>6 DEF Load, Calls, NoCall
  <2> QED BY <1>6, <2>1, <2>2 DEF Load, Indexed
<1>7. ASSUME NEW i \in Ids, NEW v \in Vals, ForeignAppend(i, v)
      PROVE  TypeOK' /\ CallInv'
  BY <1>7 DEF ForeignAppend, Land
<1>8. CASE UNCHANGED vars
  BY <1>8 DEF vars
<1> QED
  BY <1>1, <1>2, <1>3, <1>4, <1>5, <1>6, <1>7, <1>8
  DEF SharedNext, ReloadNext, Runs

(* THEOREM: the variables keep their types in every store, reloaded or     *)
(* not, whatever its constants.                                            *)
THEOREM SharedTypeOK == SharedSpec => []TypeOK
<1>1. TypeOK /\ CallInv /\ [SharedNext]_vars => (TypeOK /\ CallInv)'
  BY NextBase
<1> QED BY InitBase, <1>1, PTL DEF SharedSpec

-----------------------------------------------------------------------------
(* The store that is loaded once.  While no line is broken, a call before  *)
(* its write finds the file clean and memory equal to the log; after the   *)
(* write the log has the call's value and memory still has what the call   *)
(* captured.  Needed because WriteAhead says nothing of what a resuming    *)
(* call will store, and IndexExact nothing of the bucket it will remove    *)
(* the id from.                                                            *)
StaticCalls ==
    \A w \in Workers :
       /\ Suspended(w) => /\ call[w].cur = docs[call[w].id]
                          /\ call[w].bound = TRUE
       /\ call[w].pc = "append" => tail # "half"
       /\ call[w].pc = "half" => tail # "clean"
       /\ call[w].pc = "appended" =>
             /\ tail # "half"
             /\ tail = "clean" => disk[call[w].id] = call[w].val
             /\ call[w].val \in written[call[w].id]

(* Between calls no line is unfinished. *)
StaticTail == (up /\ lock = None) => tail # "half"

(* While no line is broken, a document differs from the log only under the *)
(* one call that wrote it.                                                 *)
StaticDue ==
    (up /\ tail # "broken") =>
        \A i \in Ids :
             docs[i] # disk[i] =>
                lock # None /\ call[lock].pc = "appended" /\ call[lock].id = i

(* A line was written before what it says was shown or replayed. *)
StaticWritten == \A i \in Ids : {None, docs[i], disk[i]} \subseteq written[i]

StaticInv ==
    /\ TypeOK /\ CallInv
    /\ StaticCalls /\ StaticTail /\ StaticDue /\ StaticWritten /\ IndexExact

(* LEMMA: StaticInv holds initially. *)
LEMMA StaticInit == Init => StaticInv
<1> SUFFICES ASSUME Init PROVE StaticInv
  OBVIOUS
<1>1. TypeOK /\ CallInv BY InitBase
<1>2. StaticCalls /\ StaticTail /\ StaticDue /\ StaticWritten
  BY DEF Init, NoCall, StaticCalls, StaticTail, StaticDue, StaticWritten, Suspended
<1>3. IndexExact
  BY NoneAssumption DEF Init, IndexExact, Indexed
<1> QED BY <1>1, <1>2, <1>3 DEF StaticInv

(* LEMMA: a step of the store that is loaded once preserves StaticInv. *)
LEMMA StaticStep ==
  ASSUME StaticInv, [StaticNext]_vars
  PROVE  StaticInv'
<1>0. TypeOK' /\ CallInv'
  BY NextBase DEF StaticInv, StaticNext, SharedNext, ReloadNext
<1> USE NoneAssumption
    DEF StaticInv, TypeOK, CallInv, Suspended, Slot
<1> DEFINE Rest ==
      StaticCalls /\ StaticTail /\ StaticDue /\ StaticWritten /\ IndexExact
<1>1. ASSUME NEW w \in Workers, NEW i \in Ids, NEW v \in Slot,
             NEW op \in {"insert", "update", "delete"}, up, Begin(w, op, i, v)
      PROVE  Rest'
  <2>1. StaticCalls' /\ StaticTail'
    BY <1>1 DEF Begin, StaticCalls, StaticTail
  <2>2. StaticDue' /\ StaticWritten' BY <1>1 DEF Begin, StaticDue, StaticWritten
  <2>3. IndexExact' BY <1>1 DEF Begin, IndexExact, Indexed
  <2> QED BY <2>1, <2>2, <2>3
<1>2. ASSUME NEW w \in Workers, Proceeds(w) PROVE Rest'
  <2>0. /\ call[w].pc # "idle" /\ lock = w /\ up
        /\ \A x \in Workers : x # w => call[x].pc = "idle"
    BY <1>2 DEF Proceeds, Append, AppendFirstPart, AppendLastPart,
                AppendRaises, AppendBreaksOff, Resume
  <2>1. /\ call[w].id \in Ids /\ call[w].val \in Slot
        /\ call[w].cur = docs[call[w].id] /\ call[w].bound = TRUE
        /\ call[w].op \in {"insert", "update", "delete"}
    BY <2>0 DEF Calls, NoCall, StaticCalls
  <2>2. CASE Append(w)
    <3>1. tail # "half" BY <2>2 DEF Append, StaticCalls
    <3> QED BY <2>0, <2>1, <2>2, <3>1
        DEF Append, Land, StaticCalls, StaticTail, StaticDue, StaticWritten, IndexExact, Indexed
  <2>3. CASE AppendFirstPart(w)
    <3>1. tail # "half" BY <2>3 DEF AppendFirstPart, StaticCalls
    <3> QED BY <2>0, <2>1, <2>3, <3>1
        DEF AppendFirstPart, StaticCalls, StaticTail, StaticDue, StaticWritten, IndexExact,
            Indexed
  <2>4. CASE AppendLastPart(w)
    <3>1. tail # "clean" BY <2>4 DEF AppendLastPart, StaticCalls
    <3> QED BY <2>0, <2>1, <2>4, <3>1
        DEF AppendLastPart, StaticCalls, StaticTail, StaticDue, StaticWritten, IndexExact,
            Indexed
  <2>5. CASE AppendRaises(w)
    BY <2>0, <2>1, <2>5
    DEF AppendRaises, NoCall, StaticCalls, StaticTail, StaticDue, StaticWritten, IndexExact,
        Indexed
  <2>7. CASE AppendBreaksOff(w)
    BY <2>0, <2>1, <2>7
    DEF AppendBreaksOff, NoCall, StaticCalls, StaticTail, StaticDue, StaticWritten,
        IndexExact, Indexed
  <2>6. CASE Resume(w)
    <3>1. /\ tail # "half"
          /\ tail = "clean" => disk[call[w].id] = call[w].val
          /\ call[w].val \in written[call[w].id]
      BY <2>6 DEF Resume, StaticCalls
    <3>2. docs' = [docs EXCEPT ![call[w].id] = call[w].val]
      <4>1. call[w].op = "delete" => call[w].val = None BY <2>0
      <4> QED BY <2>1, <2>6, <4>1
          DEF Resume, ResumeInsert, ResumeUpdate, ResumeDelete
    <3>3. StaticCalls' /\ StaticTail' /\ StaticDue' /\ StaticWritten'
      BY <2>0, <2>1, <2>6, <3>1, <3>2
      DEF Resume, NoCall, StaticCalls, StaticTail, StaticDue, StaticWritten
    <3>4. IndexExact'
      <4>1. index = Indexed(docs) BY <2>0 DEF IndexExact
      <4>2. /\ call[w].op = "insert" => docs[call[w].id] = None
            /\ call[w].op # "insert" => docs[call[w].id] \in Vals
            /\ call[w].op # "delete" => call[w].val \in Vals
            /\ call[w].op = "delete" => call[w].val = None
        BY <2>0, <2>1
      <4>3. ASSUME NEW x \in Vals
            PROVE  index'[x] = {i \in Ids : docs'[i] = x}
        <5>0. index[x] = {i \in Ids : docs[i] = x} BY <4>1 DEF Indexed
        <5>1. CASE ResumeInsert(w)
          BY <2>1, <3>2, <4>2, <5>0, <5>1 DEF ResumeInsert, IndexInsert
        <5>2. CASE ResumeUpdate(w)
          BY <2>1, <3>2, <4>2, <5>0, <5>2
          DEF ResumeUpdate, IndexInsert, IndexRemove
        <5>3. CASE ResumeDelete(w)
          BY <2>1, <3>2, <4>2, <5>0, <5>3 DEF ResumeDelete, IndexRemove
        <5> QED BY <2>6, <5>1, <5>2, <5>3 DEF Resume
      <4>4. index' \in [Vals -> SUBSET Ids] BY <1>0
      <4> QED BY <4>3, <4>4 DEF IndexExact, Indexed
    <3> QED BY <3>3, <3>4
  <2> QED BY <1>2, <2>2, <2>3, <2>4, <2>5, <2>6, <2>7 DEF Proceeds
<1>3. CASE Crash
  <2>1. \A w \in Workers : call'[w].pc = "idle"
    BY <1>3 DEF Crash, NoCall
  <2> QED BY <1>0, <1>3, <2>1
      DEF Crash, StaticCalls, StaticTail, StaticDue, StaticWritten, IndexExact
<1>4. CASE Restart
  <2>1. \A w \in Workers : call'[w].pc = "idle"
    BY <1>4 DEF Restart
  <2>2. StaticCalls' /\ StaticTail' /\ StaticDue' /\ StaticWritten'
    BY <1>4, <2>1 DEF Restart, StaticCalls, StaticTail, StaticDue, StaticWritten
  <2>3. IndexExact'
    BY <1>4 DEF Restart, IndexExact, Indexed
  <2> QED BY <1>0, <2>2, <2>3
<1>5. CASE UNCHANGED vars
  BY <1>5 DEF vars, StaticCalls, StaticTail, StaticDue, StaticWritten, IndexExact, Indexed
<1> QED
  <2>1. CASE Writes
    BY <1>0, <1>1, <2>1 DEF Writes, InsertBegin, UpdateBegin
  <2>2. CASE Deletes
    BY <1>0, <1>1, <2>2 DEF Deletes, DeleteBegin
  <2> QED BY <1>0, <1>2, <1>3, <1>4, <1>5, <2>1, <2>2 DEF StaticNext, Runs

(* THEOREM: in a store that is loaded once, memory never runs ahead of the *)
(* log, failing writes included: a document differs from it only while its *)
(* call waits to resume, or, behind a line that broke off in the file,     *)
(* because its own complete line came after that one.                      *)
THEOREM StaticWriteAhead == StaticSpec => []WriteAhead
<1>1. StaticInv => WriteAhead
  BY NoneAssumption
  DEF StaticInv, StaticDue, StaticWritten, WriteAhead, Due, TypeOK
<1> QED BY StaticInit, StaticStep, <1>1, PTL DEF StaticSpec

(* THEOREM: in a store that is loaded once, find_by() over an index always *)
(* answers what a scan of the documents would.                             *)
THEOREM StaticIndexExact == StaticSpec => []IndexExact
<1>1. StaticInv => IndexExact
  BY DEF StaticInv
<1> QED BY StaticInit, StaticStep, <1>1, PTL DEF StaticSpec

-----------------------------------------------------------------------------
(* LEMMA: what is owed is nothing, or the document of the one call that is *)
(* appended.                                                               *)
LEMMA OwedIs ==
  ASSUME TypeOK, CallInv
  PROVE  /\ (\A w \in Workers : call[w].pc # "appended") => Owed = {}
         /\ Jammed => Owed = {}
         /\ \A w \in Workers : (call[w].pc = "appended" /\ ~Jammed) => Owed = {call[w].id}
  BY NoneAssumption DEF Owed, Jammed, CallInv, Suspended, TypeOK

(* LEMMA: a step of the store that is loaded once is a step of the durable *)
(* map, or leaves it alone.                                                *)
LEMMA StaticMapsTo ==
  ASSUME StaticInv, StaticInv', [StaticNext]_vars
  PROVE  [Promise!MapNext]_(Promise!mapVars)
<1> USE NoneAssumption
<1>0. TypeOK /\ CallInv /\ TypeOK' /\ CallInv'
  BY DEF StaticInv
<1> DEFINE Stutters == UNCHANGED <<disk, docs, Owed, up, Jammed>>
<1> DEFINE Free(w) == call'[w].pc # "appended" /\ call[w].pc # "appended"
<1>1. ASSUME NEW w \in Workers, NEW op, NEW i \in Ids, NEW v, Begin(w, op, i, v)
      PROVE  Stutters
  <2>1. \A x \in Workers : Free(x)
    BY <1>0, <1>1 DEF Begin, TypeOK, CallInv, Suspended
  <2>2. Owed = {} /\ Owed' = {} BY <2>1 DEF Owed
  <2> QED BY <1>1, <2>2 DEF Begin, Jammed
<1>2. ASSUME NEW w \in Workers, Proceeds(w)
      PROVE  Stutters \/ Promise!MapNext
  <2>0. /\ lock = w /\ up
        /\ \A x \in Workers : x # w => call[x].pc = "idle"
    BY <1>0, <1>2 DEF CallInv, Suspended, TypeOK, Proceeds, Append, AppendFirstPart, AppendLastPart,
                     AppendRaises, AppendBreaksOff, Resume
  <2>1. /\ call[w].id \in Ids /\ call[w].val \in Vals \cup {None}
        /\ docs[call[w].id] = None => call[w].val # None
        /\ call[w].cur = docs[call[w].id] /\ call[w].bound = TRUE
    <3>1. /\ call[w].op \in {"insert", "update", "delete"}
          /\ call[w].id \in Ids /\ call[w].val \in Vals \cup {None}
          /\ call[w].pc # "idle"
      BY <1>0, <1>2 DEF TypeOK, Calls, NoCall, Slot, Proceeds, Append, AppendFirstPart,
                       AppendLastPart, AppendRaises, AppendBreaksOff, Resume
    <3>2. call[w].cur = docs[call[w].id] /\ call[w].bound = TRUE
      BY <3>1 DEF StaticInv, StaticCalls, Suspended
    <3> QED BY <1>0, <3>1, <3>2 DEF CallInv, Suspended
  <2>2. ASSUME call[w].pc # "appended", call'[w].pc = "appended", UNCHANGED <<docs, up>>,
               ~Jammed, ~Jammed',
               disk' = [disk EXCEPT ![call[w].id] = call[w].val],
               call'[w].id = call[w].id
        PROVE  Promise!MapNext
    <3>1. Owed = {} BY <1>0, <2>0, <2>2, OwedIs
    <3>2. Owed' = {call[w].id}
      <4>1. lock' = w BY <1>0, <2>2 DEF CallInv, Suspended
      <4> QED BY <1>0, <2>2, <4>1 DEF Owed, CallInv, Suspended
    <3>3. Promise!Persist(call[w].id, call[w].val)
      BY <2>0, <2>1, <2>2, <3>1, <3>2 DEF Jammed, Promise!Persist, Promise!Sensible
    <3> QED BY <2>1, <3>3 DEF Promise!MapNext
  <2>8. CASE Jammed /\ ~Resume(w)
    <3>1. UNCHANGED <<disk, docs, up>> /\ Jammed'
      BY <1>0, <1>2, <2>8 DEF Proceeds, Append, AppendFirstPart, AppendLastPart, AppendRaises,
                              AppendBreaksOff, Land, Jammed
    <3> QED BY <2>8, <3>1 DEF Owed, Jammed
  <2>3. CASE Append(w) /\ ~Jammed
    <3>1. tail = "clean" BY <1>0, <2>3 DEF Append, StaticInv, StaticCalls, Jammed, TypeOK
    <3>2. /\ call[w].pc # "appended" /\ call'[w].pc = "appended" /\ call'[w].id = call[w].id
          /\ disk' = [disk EXCEPT ![call[w].id] = call[w].val] /\ UNCHANGED <<docs, up>>
          /\ ~Jammed'
      BY <1>0, <2>3, <3>1 DEF Append, Land, TypeOK, Calls, NoCall, Jammed
    <3> QED BY <2>2, <2>3, <3>2
  <2>4. CASE AppendLastPart(w) /\ ~Jammed
    <3>1. tail = "half" BY <1>0, <2>4 DEF AppendLastPart, StaticInv, StaticCalls, Jammed, TypeOK
    <3>2. /\ call[w].pc # "appended" /\ call'[w].pc = "appended" /\ call'[w].id = call[w].id
          /\ disk' = [disk EXCEPT ![call[w].id] = call[w].val] /\ UNCHANGED <<docs, up>>
          /\ ~Jammed'
      BY <1>0, <2>4, <3>1 DEF AppendLastPart, TypeOK, Calls, NoCall, Jammed
    <3> QED BY <2>2, <2>4, <3>2
  <2>5. CASE (AppendFirstPart(w) \/ AppendRaises(w) \/ AppendBreaksOff(w)) /\ ~Jammed
    <3>0. call[w].pc # "appended" /\ call'[w].pc # "appended"
      BY <1>0, <2>5 DEF AppendFirstPart, AppendRaises, AppendBreaksOff, TypeOK, Calls, NoCall
    <3>1. \A x \in Workers : Free(x)
      BY <1>0, <2>0, <2>5, <3>0
      DEF AppendFirstPart, AppendRaises, AppendBreaksOff, TypeOK
    <3>2. Owed = {} /\ Owed' = {} BY <3>1 DEF Owed
    <3>3. CASE AppendBreaksOff(w)
      BY <2>0, <2>5, <3>2, <3>3
      DEF AppendBreaksOff, Jammed, Promise!MapNext, Promise!Jam
    <3>4. CASE AppendFirstPart(w)
      <4>1. tail = "clean"
        BY <1>0, <2>5, <3>4 DEF AppendFirstPart, StaticInv, StaticCalls, Jammed, TypeOK
      <4> QED BY <2>5, <3>2, <3>4, <4>1 DEF AppendFirstPart, Jammed
    <3>5. CASE AppendRaises(w)
      BY <2>5, <3>2, <3>5 DEF AppendRaises, Jammed
    <3> QED BY <2>5, <3>3, <3>4, <3>5
  <2>6. CASE Resume(w)
    <3>1. ~Jammed => Owed = {call[w].id} BY <1>0, <2>6, OwedIs DEF Resume
    <3>2. Owed' = {}
      <4>1. \A x \in Workers : call'[x].pc # "appended"
        BY <1>0, <2>0, <2>6 DEF Resume, TypeOK, NoCall
      <4> QED BY <4>1 DEF Owed
    <3>3. docs' = [docs EXCEPT ![call[w].id] = call[w].val]
      <4>1. call[w].op = "delete" => call[w].val = None
        BY <1>0, <2>6 DEF CallInv, Suspended, Resume
      <4> QED BY <2>1, <2>6, <4>1 DEF Resume, ResumeInsert, ResumeUpdate, ResumeDelete
    <3>4. UNCHANGED <<disk, up, Jammed>> BY <2>6 DEF Resume, Jammed
    <3>5. CASE ~Jammed
      <4>0. tail = "clean"
        BY <1>0, <2>6, <3>5 DEF StaticInv, StaticCalls, Resume, Jammed, TypeOK
      <4>1. disk[call[w].id] = call[w].val
        BY <2>6, <4>0 DEF StaticInv, StaticCalls, Resume
      <4>2. \A i \in Ids : i # call[w].id => docs[i] = disk[i]
        BY <2>0, <4>0 DEF StaticInv, StaticDue
      <4>3. docs' = disk BY <1>0, <3>3, <4>1, <4>2 DEF TypeOK
      <4> QED BY <2>0, <3>1, <3>2, <3>4, <3>5, <4>3 DEF Promise!MapNext, Promise!Show
    <3>6. CASE Jammed
      <4>1. Owed = {} BY <1>0, <3>6, OwedIs
      <4>2. Promise!ShowLost(call[w].id, call[w].val)
        BY <2>0, <2>1, <3>2, <3>3, <3>4, <3>6, <4>1 DEF Promise!ShowLost, Promise!Sensible
      <4> QED BY <2>1, <4>2 DEF Promise!MapNext
    <3> QED BY <3>5, <3>6
  <2>9. Proceeds(w) => \/ Append(w) \/ AppendFirstPart(w) \/ AppendLastPart(w)
                       \/ AppendRaises(w) \/ AppendBreaksOff(w) \/ Resume(w)
    BY DEF Proceeds
  <2> QED BY <1>2, <2>3, <2>4, <2>5, <2>6, <2>8, <2>9
<1>3. CASE Crash
  <2>1. Owed' = {} BY <1>3 DEF Crash, NoCall, Owed
  <2>2. Owed # {} => tail # "half"
    BY <1>0 DEF Owed, StaticInv, StaticCalls
  <2> QED BY <1>0, <1>3, <2>1, <2>2
    DEF Crash, Jammed, Promise!MapNext, Promise!Stop, Promise!Nothing
<1>4. CASE Restart
  <2>1. \A w \in Workers : call[w].pc = "idle" /\ call'[w].pc = "idle"
    BY <1>0, <1>4 DEF Restart, CallInv, Suspended, TypeOK
  <2>2. Owed = {} /\ Owed' = {} BY <2>1 DEF Owed
  <2> QED BY <1>4, <2>2 DEF Restart, Jammed, Promise!MapNext, Promise!Start
<1>5. CASE UNCHANGED vars
  BY <1>5 DEF vars, Owed, Jammed, Promise!mapVars
<1>6. Stutters => UNCHANGED Promise!mapVars
  BY DEF Promise!mapVars
<1> QED
  BY <1>1, <1>2, <1>3, <1>4, <1>5, <1>6
  DEF StaticNext, Runs, Writes, Deletes, InsertBegin, UpdateBegin, DeleteBegin

(* THEOREM: a store that is loaded once implements the durable map, which  *)
(* a write that fails half-way jams: its callers need to know nothing of   *)
(* files, lines, threads and indexes.                                      *)
THEOREM StaticKeepsPromise == StaticSpec => KeepsPromise
<1>1. Init => Promise!MapInit
  BY DEF Init, NoCall, Owed, Jammed, Promise!MapInit, Promise!Nothing
<1> QED
  BY StaticInit, StaticStep, StaticMapsTo, <1>1, PTL
  DEF StaticSpec, KeepsPromise, Promise!MapSpec

-----------------------------------------------------------------------------
(* LEMMA: only the append of the call that holds the lock changes the log. *)
LEMMA StaticLogStep ==
  ASSUME StaticInv, [StaticNext]_vars
  PROVE  LogStep
<1> SUFFICES ASSUME NEW i \in Ids, disk'[i] # disk[i]
             PROVE  \E w \in Workers : /\ lock = w /\ call[w].id = i
                                       /\ call'[w].pc = "appended" /\ disk'[i] = call[w].val
  BY DEF LogStep
<1> USE DEF StaticInv, TypeOK
<1>1. PICK w \in Workers : Append(w) \/ AppendLastPart(w)
  BY DEF StaticNext, Runs, Writes, Deletes, InsertBegin, UpdateBegin, DeleteBegin, Begin,
         Proceeds, AppendFirstPart, AppendRaises, AppendBreaksOff, Resume, Crash, Restart, vars
<1>2. lock = w BY <1>1 DEF CallInv, Suspended, Append, AppendLastPart
<1>3. call'[w].pc = "appended" BY <1>1 DEF Append, AppendLastPart, Calls, NoCall
<1>4. disk' = [disk EXCEPT ![call[w].id] = call[w].val]
  BY <1>1 DEF Append, Land, AppendLastPart
<1> QED BY <1>2, <1>3, <1>4

(* THEOREM: no step, crash or failing append takes a document out of the   *)
(* log of a store that is loaded once but a call that holds the lock, for  *)
(* its own document.                                                       *)
THEOREM StaticNoSilentLoss == StaticSpec => NoSilentLoss
<1>1. StaticInv /\ [StaticNext]_vars => [LogStep]_vars
  BY StaticLogStep
<1> QED BY StaticInit, StaticStep, <1>1, PTL DEF StaticSpec, NoSilentLoss

-----------------------------------------------------------------------------
(* The ticket store: reloads race suspended calls and other processes      *)
(* append.  No line deletes, so unless two processes fused their lines,    *)
(* every document in memory is still in the log: that is why the dict an   *)
(* update orphaned has a successor in the reloaded _docs.                  *)
LoggedInv ==
    /\ \A i \in Ids : {None, docs[i], disk[i]} \subseteq written[i]
    /\ \A w \in Workers :
          call[w].pc = "appended" => call[w].val \in written[call[w].id]

NoDeleteInv ==
    /\ \A w \in Workers : call[w].op # "delete"
    /\ \A w \in Workers : call[w].pc = "half" => tail # "clean"
    /\ tail # "broken" =>
          /\ \A i \in Ids : docs[i] # None => disk[i] # None
          /\ \A w \in Workers :
                /\ call[w].pc = "appended" => disk[call[w].id] # None
                /\ (Suspended(w) /\ call[w].op = "update") =>
                      docs[call[w].id] # None

SharedInv == TypeOK /\ CallInv /\ LoggedInv /\ NoDeleteInv /\ IndexSafe

(* LEMMA: SharedInv holds initially. *)
LEMMA SharedInit == Init => SharedInv
<1> SUFFICES ASSUME Init PROVE SharedInv
  OBVIOUS
<1>1. TypeOK /\ CallInv BY InitBase
<1>2. LoggedInv /\ NoDeleteInv /\ IndexSafe
  BY DEF Init, NoCall, LoggedInv, NoDeleteInv, IndexSafe, Suspended
<1> QED BY <1>1, <1>2 DEF SharedInv

(* LEMMA: a step of the ticket store preserves SharedInv. *)
LEMMA SharedStep ==
  ASSUME SharedInv, [SharedNext]_vars
  PROVE  SharedInv'
<1>0. TypeOK' /\ CallInv'
  BY NextBase DEF SharedInv
<1> USE NoneAssumption
    DEF SharedInv, TypeOK, CallInv, Suspended, Slot
<1> DEFINE Rest == LoggedInv /\ NoDeleteInv /\ IndexSafe
<1>1. ASSUME NEW w \in Workers, NEW i \in Ids, NEW v \in Vals,
             NEW op \in {"insert", "update"}, op = "update" => docs[i] # None,
             up, Begin(w, op, i, v)
      PROVE  Rest'
  BY <1>1 DEF Begin, LoggedInv, NoDeleteInv, IndexSafe
<1>2. ASSUME NEW w \in Workers, Proceeds(w) PROVE Rest'
  <2>0. /\ call[w].pc # "idle" /\ lock = w /\ up
        /\ \A x \in Workers : x # w => call[x].pc = "idle"
    BY <1>2 DEF Proceeds, Append, AppendFirstPart, AppendLastPart,
                AppendRaises, AppendBreaksOff, Resume
  <2>1. /\ call[w].id \in Ids /\ call[w].val \in Vals
        /\ call[w].op \in {"insert", "update"}
    BY <2>0 DEF Calls, NoCall, NoDeleteInv
  <2>2. CASE Append(w)
    BY <2>0, <2>1, <2>2
    DEF Append, Land, LoggedInv, NoDeleteInv, IndexSafe
  <2>3. CASE AppendFirstPart(w)
    BY <2>0, <2>1, <2>3
    DEF AppendFirstPart, LoggedInv, NoDeleteInv, IndexSafe
  <2>4. CASE AppendLastPart(w)
    BY <2>0, <2>1, <2>4
    DEF AppendLastPart, LoggedInv, NoDeleteInv, IndexSafe
  <2>5. CASE AppendRaises(w)
    BY <2>0, <2>5
    DEF AppendRaises, NoCall, LoggedInv, NoDeleteInv, IndexSafe
  <2>7. CASE AppendBreaksOff(w)
    BY <2>0, <2>7
    DEF AppendBreaksOff, NoCall, LoggedInv, NoDeleteInv, IndexSafe
  <2>6. CASE Resume(w)
    <3>1. call'[w].pc = "idle" /\ call'[w].op = "none"
      BY <2>6 DEF Resume, NoCall
    <3>2. CASE ResumeInsert(w)
      <4>1. LoggedInv' /\ NoDeleteInv'
        BY <2>0, <2>1, <2>6, <3>1, <3>2
        DEF Resume, ResumeInsert, LoggedInv, NoDeleteInv
      <4>2. IndexSafe'
        BY <2>0, <2>1, <2>6, <3>2
        DEF Resume, ResumeInsert, IndexInsert, IndexSafe
      <4> QED BY <4>1, <4>2
    <3>3. CASE ResumeUpdate(w)
      <4>1. LoggedInv' /\ NoDeleteInv'
        BY <2>0, <2>1, <2>6, <3>1, <3>3
        DEF Resume, ResumeUpdate, LoggedInv, NoDeleteInv
      <4>2. IndexSafe'
        BY <2>0, <2>1, <2>6, <3>3
        DEF Resume, ResumeUpdate, IndexInsert, IndexRemove, IndexSafe,
            NoDeleteInv
      <4> QED BY <4>1, <4>2
    <3> QED BY <2>1, <2>6, <3>2, <3>3 DEF Resume, ResumeDelete
  <2> QED BY <1>2, <2>2, <2>3, <2>4, <2>5, <2>6, <2>7 DEF Proceeds
<1>3. CASE Crash
  <2>1. \A w \in Workers : call'[w].pc = "idle" /\ call'[w].op = "none"
    BY <1>3 DEF Crash, NoCall
  <2> QED BY <1>0, <1>3, <2>1 DEF Crash, LoggedInv, NoDeleteInv, IndexSafe
<1>4. CASE Restart
  BY <1>0, <1>4 DEF Restart, Indexed, LoggedInv, NoDeleteInv, IndexSafe
<1>5. CASE Load
  <2>1. \A w \in Workers :
           /\ call'[w].pc = call[w].pc /\ call'[w].op = call[w].op
           /\ call'[w].val = call[w].val /\ call'[w].id = call[w].id
    BY <1>5 DEF Load, Calls, NoCall
  <2>2. \A w \in Workers : call[w].pc # "idle" => call[w].id \in Ids
    BY DEF Calls, NoCall
  <2>3. LoggedInv'
    BY <1>5, <2>1 DEF Load, LoggedInv
  <2>4. NoDeleteInv'
    BY <1>5, <2>1, <2>2 DEF Load, NoDeleteInv
  <2>5. IndexSafe'
    BY <1>5 DEF Load, Indexed, IndexSafe
  <2> QED BY <1>0, <2>3, <2>4, <2>5
<1>6. ASSUME NEW i \in Ids, NEW v \in Vals, ForeignAppend(i, v) PROVE Rest'
  <2>1. LoggedInv' /\ NoDeleteInv'
    BY <1>6 DEF ForeignAppend, Land, LoggedInv, NoDeleteInv
  <2>2. IndexSafe'
    BY <1>6 DEF ForeignAppend, Land, IndexSafe
  <2> QED BY <2>1, <2>2
<1>7. CASE UNCHANGED vars
  BY <1>7 DEF vars, LoggedInv, NoDeleteInv, IndexSafe
<1>8. CASE Writes
  BY <1>0, <1>1, <1>8 DEF Writes, InsertBegin, UpdateBegin
<1> QED
  BY <1>0, <1>2, <1>3, <1>4, <1>5, <1>6, <1>7, <1>8
  DEF SharedNext, ReloadNext, Runs

(* THEOREM: find_by() on the reloaded ticket store never meets an id that  *)
(* _docs dropped, however reloads interleave with suspended calls.         *)
THEOREM SharedIndexSafe == SharedSpec => []IndexSafe
<1>1. SharedInv => IndexSafe
  BY DEF SharedInv
<1> QED BY SharedInit, SharedStep, <1>1, PTL DEF SharedSpec

(* THEOREM: what the reloaded ticket store shows was in the log first.     *)
THEOREM SharedMemoryWasLogged == SharedSpec => []MemoryWasLogged
<1>1. SharedInv => MemoryWasLogged
  BY DEF SharedInv, LoggedInv, MemoryWasLogged
<1> QED BY SharedInit, SharedStep, <1>1, PTL DEF SharedSpec

=============================================================================
