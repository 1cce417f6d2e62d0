----------------------------- MODULE JsonlStore -----------------------------
(***************************************************************************)
(* The append-only document store of jig/store/core.py: a JSONL file that  *)
(* is the durable log, an in-memory map `_docs` rebuilt from it by load(), *)
(* and secondary indexes over `_docs`.                                     *)
(*                                                                         *)
(* Coroutines of one event loop (Workers) call insert, update and delete.  *)
(* Each call holds the asyncio lock, hands the append to a thread and only *)
(* when that thread is done touches the memory: the await is the one place *)
(* where other coroutines run in between.  load() takes no lock, and the   *)
(* orchestrator calls it again every few seconds on the ticket store to    *)
(* pick up lines that other processes (the jig CLI, the standalone MCP)    *)
(* appended.  The other stores are loaded once, at startup.                *)
(*                                                                         *)
(* A document is abstracted to the value of its indexed field.             *)
(***************************************************************************)
EXTENDS FiniteSets, Integers

CONSTANTS
    Ids,        \* document ids
    Vals,       \* values of the indexed field
    Workers,    \* coroutines that call the store
    None        \* "no document" / "no holder"

ASSUME NoneAssumption == None \notin Vals /\ None \notin Workers

VARIABLES
    disk,       \* what replaying the complete, well-formed lines yields
    tail,       \* the end of the file: "clean", "half" a line, or "broken"
    docs,       \* _docs
    index,      \* _indexes[field]: value -> set of ids
    lock,       \* holder of the asyncio lock
    call,       \* the call each worker is suspended in
    up,         \* the process is running
    foreign,    \* ghost: ids other processes wrote since the last load()
    written     \* ghost: values whose line ever reached the file, per id

vars == <<disk, tail, docs, index, lock, call, up, foreign, written>>

Slot == Vals \cup {None}

NoCall == [pc |-> "idle", op |-> "none", id |-> None, val |-> None,
           cur |-> None, bound |-> FALSE]

(* A suspended call.  `cur` is the indexed value of the dict captured in   *)
(* `current` before the await; `bound` says that dict is still the one in  *)
(* _docs (a load() in between replaces it and leaves `current` orphaned).  *)
Calls ==
    {NoCall} \cup
    [pc : {"append", "half", "appended"}, op : {"insert", "update", "delete"},
     id : Ids, val : Slot, cur : Slot, bound : BOOLEAN]

Init ==
    /\ disk = [i \in Ids |-> None]
    /\ tail = "clean"
    /\ docs = disk
    /\ index = [v \in Vals |-> {}]
    /\ lock = None
    /\ call = [w \in Workers |-> NoCall]
    /\ up = TRUE
    /\ foreign = {}
    /\ written = [i \in Ids |-> {None}]

-----------------------------------------------------------------------------
(* _index_insert / _index_remove for the document i with value v. *)
IndexInsert(ix, i, v) == [ix EXCEPT ![v] = @ \cup {i}]

(* Mutant of IndexRemove: the old entry stays. *)
IndexRemoveForgets(ix, i, v) == ix

IndexRemove(ix, i, v) == [ix EXCEPT ![v] = @ \ {i}]

(* The indexes load() builds from scratch over the documents d. *)
Indexed(d) == [v \in Vals |-> {i \in Ids : d[i] = v}]

(* Mutant of Begin: the call does not wait for the lock. *)
BeginUnlocked(w, op, i, v) ==
    /\ lock' = w
    /\ call' = [call EXCEPT ![w] =
                  [pc |-> "append", op |-> op, id |-> i, val |-> v,
                   cur |-> docs[i], bound |-> TRUE]]
    /\ UNCHANGED <<disk, tail, docs, index, up, foreign, written>>

(* A call up to its await: the lock, the early returns, the captured dict. *)
Begin(w, op, i, v) ==
    /\ lock = None
    /\ lock' = w
    /\ call' = [call EXCEPT ![w] =
                  [pc |-> "append", op |-> op, id |-> i, val |-> v,
                   cur |-> docs[i], bound |-> TRUE]]
    /\ UNCHANGED <<disk, tail, docs, index, up, foreign, written>>

(* insert(): a known _id raises ValueError and nothing is written.  Ids    *)
(* are uuid4 strings: two processes never mint the same one.               *)
InsertBegin(w, i, v) ==
    /\ docs[i] = None
    /\ i \notin foreign
    /\ Begin(w, "insert", i, v)

(* update(): an unknown id returns False. *)
UpdateBegin(w, i, v) ==
    /\ docs[i] # None
    /\ Begin(w, "update", i, v)

(* delete(): an unknown id returns False. *)
DeleteBegin(w, i) ==
    /\ docs[i] # None
    /\ Begin(w, "delete", i, None)

(* A whole line for document i reaches the file.  Behind a half line it    *)
(* fuses with it and load() will never get past that line again.           *)
Land(i, v) ==
    /\ tail' = IF tail = "clean" THEN "clean" ELSE "broken"
    /\ disk' = IF tail = "clean" THEN [disk EXCEPT ![i] = v] ELSE disk
    /\ written' = [written EXCEPT ![i] = @ \cup {v}]

(* _append_line in its thread, for a line that goes out in one write. *)
Append(w) ==
    /\ call[w].pc = "append"
    /\ Land(call[w].id, call[w].val)
    /\ call' = [call EXCEPT ![w].pc = "appended"]
    /\ UNCHANGED <<docs, index, lock, up, foreign>>

(* _append_line for a line longer than the file buffer: several writes. *)
AppendFirstPart(w) ==
    /\ call[w].pc = "append"
    /\ tail' = IF tail = "clean" THEN "half" ELSE "broken"
    /\ call' = [call EXCEPT ![w].pc = "half"]
    /\ UNCHANGED <<disk, docs, index, lock, up, foreign, written>>

AppendLastPart(w) ==
    /\ call[w].pc = "half"
    /\ tail' = IF tail = "half" THEN "clean" ELSE tail
    /\ disk' = IF tail = "half" THEN [disk EXCEPT ![call[w].id] = call[w].val]
                                ELSE disk
    /\ written' = [written EXCEPT ![call[w].id] = @ \cup {call[w].val}]
    /\ call' = [call EXCEPT ![w].pc = "appended"]
    /\ UNCHANGED <<docs, index, lock, up, foreign>>

(* Mutants of AppendRaises: the document, or only its index entry, was put *)
(* in memory before the append that now fails.                             *)
AppendRaisesLate(w) ==
    /\ call[w].pc = "append"
    /\ docs' = [docs EXCEPT ![call[w].id] = call[w].val]
    /\ call' = [call EXCEPT ![w] = NoCall]
    /\ lock' = None
    /\ UNCHANGED <<disk, tail, index, up, foreign, written>>

AppendRaisesIndexed(w) ==
    /\ call[w].pc = "append"
    /\ index' = IndexInsert(index, call[w].id, call[w].val)
    /\ call' = [call EXCEPT ![w] = NoCall]
    /\ lock' = None
    /\ UNCHANGED <<disk, tail, docs, up, foreign, written>>

(* _append_line raises (RecordTooLargeError, or the open fails) before it  *)
(* has written: the call ends, the lock is released, memory is untouched.  *)
AppendRaises(w) ==
    /\ call[w].pc = "append"
    /\ call' = [call EXCEPT ![w] = NoCall]
    /\ lock' = None
    /\ UNCHANGED <<disk, tail, docs, index, up, foreign, written>>

(* Mutant of AppendBreaksOff: the document is in memory already. *)
AppendBreaksOffLate(w) ==
    /\ call[w].pc = "half"
    /\ docs' = [docs EXCEPT ![call[w].id] = call[w].val]
    /\ call' = [call EXCEPT ![w] = NoCall]
    /\ lock' = None
    /\ tail' = "broken"
    /\ UNCHANGED <<disk, index, up, foreign, written>>

(* The write or the close raises (disk full) with part of the line in the  *)
(* file: the call ends as above, and the process goes on with a file no    *)
(* load() gets past.                                                       *)
AppendBreaksOff(w) ==
    /\ call[w].pc = "half"
    /\ call' = [call EXCEPT ![w] = NoCall]
    /\ lock' = None
    /\ tail' = "broken"
    /\ UNCHANGED <<disk, docs, index, up, foreign, written>>

(* The coroutine resumes after the await, applies the change to memory and *)
(* releases the lock.  An insert stores a fresh dict; an update changes    *)
(* the captured dict wherever it now lives; a delete removes the id        *)
(* (KeyError, and no change, when a load() has already dropped it).        *)
ResumeInsert(w) ==
    LET c == call[w] IN
    /\ c.op = "insert"
    /\ docs' = [docs EXCEPT ![c.id] = c.val]
    /\ index' = IndexInsert(index, c.id, c.val)

(* Mutant of ResumeUpdate: the change is made to a copy of the dict. *)
ResumeUpdateCopies(w) ==
    LET c == call[w] IN
    /\ c.op = "update"
    /\ UNCHANGED docs
    /\ index' = IndexInsert(IndexRemove(index, c.id, c.cur), c.id, c.val)

ResumeUpdate(w) ==
    LET c == call[w] IN
    /\ c.op = "update"
    /\ docs' = IF c.bound THEN [docs EXCEPT ![c.id] = c.val] ELSE docs
    /\ index' = IndexInsert(IndexRemove(index, c.id, c.cur), c.id, c.val)

(* Mutant of ResumeDelete: the tombstone line is kept as the document. *)
ResumeDeleteTombstone(w) ==
    LET c == call[w] IN
    /\ c.op = "delete"
    /\ docs' = [docs EXCEPT ![c.id] = "_deleted"]
    /\ index' = IndexRemove(index, c.id, c.cur)

ResumeDelete(w) ==
    LET c == call[w] IN
    /\ c.op = "delete"
    /\ docs' = [docs EXCEPT ![c.id] = None]
    /\ index' = IndexRemove(index, c.id, c.cur)

Resume(w) ==
    /\ call[w].pc = "appended"
    /\ ResumeInsert(w) \/ ResumeUpdate(w) \/ ResumeDelete(w)
    /\ call' = [call EXCEPT ![w] = NoCall]
    /\ lock' = None
    /\ UNCHANGED <<disk, tail, up, foreign, written>>

-----------------------------------------------------------------------------
(* Mutant of Load: the documents are replaced, the indexes are not. *)
LoadKeepsIndex ==
    /\ up
    /\ docs' = disk
    /\ call' = [w \in Workers |-> IF call[w].pc = "idle" THEN call[w]
                                  ELSE [call[w] EXCEPT !.bound = FALSE]]
    /\ foreign' = {}
    /\ UNCHANGED <<disk, tail, index, lock, up, written>>

(* load() on the running store.  It replaces every dict, so the ones the   *)
(* suspended calls captured are orphaned.  On a half or malformed line it  *)
(* raises after the lines before it were replayed and before the indexes   *)
(* are built; the reconcile loop logs that and carries on.                 *)
Load ==
    /\ up
    /\ docs' = disk
    /\ index' = IF tail = "clean" THEN Indexed(disk) ELSE [v \in Vals |-> {}]
    /\ call' = [w \in Workers |-> IF call[w].pc = "idle" THEN call[w]
                                  ELSE [call[w] EXCEPT !.bound = FALSE]]
    /\ foreign' = {}
    /\ UNCHANGED <<disk, tail, lock, up, written>>

(* Another process appends a line: an update of a document in the log, or  *)
(* a document under an id that is new to everyone.                         *)
ForeignAppend(i, v) ==
    /\ \/ disk[i] # None
       \/ written[i] = {None} /\ \A w \in Workers : call[w].id # i
    /\ Land(i, v)
    /\ foreign' = foreign \cup {i}
    /\ UNCHANGED <<docs, index, lock, call, up>>

(* The process dies.  Its thread may have got all, some or none of the     *)
(* pending line out (the Append actions); what it held in memory is gone.  *)
Crash ==
    /\ up
    /\ up' = FALSE
    /\ docs' = [i \in Ids |-> None]
    /\ index' = [v \in Vals |-> {}]
    /\ lock' = None
    /\ call' = [w \in Workers |-> NoCall]
    /\ tail' = IF tail = "half" THEN "broken" ELSE tail
    /\ UNCHANGED <<disk, foreign, written>>

(* startup(): a fresh store loads the file; a malformed line raises out of *)
(* startup and the process stays down.                                     *)
Restart ==
    /\ ~up
    /\ tail = "clean"
    /\ up' = TRUE
    /\ docs' = disk
    /\ index' = Indexed(disk)
    /\ foreign' = {}
    /\ UNCHANGED <<disk, tail, lock, call, written>>

-----------------------------------------------------------------------------
Writes ==
    /\ up
    /\ \E w \in Workers, i \in Ids, v \in Vals :
          InsertBegin(w, i, v) \/ UpdateBegin(w, i, v)

Deletes ==
    /\ up
    /\ \E w \in Workers, i \in Ids : DeleteBegin(w, i)

Proceeds(w) ==
    \/ Append(w)
    \/ AppendFirstPart(w)
    \/ AppendLastPart(w)
    \/ AppendRaises(w)
    \/ AppendBreaksOff(w)
    \/ Resume(w)

Runs ==
    \/ Writes
    \/ \E w \in Workers : Proceeds(w)
    \/ Crash
    \/ Restart

(* A store that is loaded once and written by one process. *)
StaticNext == Runs \/ Deletes

(* The ticket store: the running store reloads, and nobody deletes         *)
(* (TicketStore has no delete).                                            *)
ReloadNext == Runs \/ Load

(* The ticket store with other processes appending to its file. *)
SharedNext ==
    \/ ReloadNext
    \/ \E i \in Ids, v \in Vals : ForeignAppend(i, v)

StaticSpec == Init /\ [][StaticNext]_vars
ReloadSpec == Init /\ [][ReloadNext]_vars
SharedSpec == Init /\ [][SharedNext]_vars

(* The reload loop keeps running and a thread or coroutine that can go on  *)
(* does: asyncio and the thread pool starve nobody.                        *)
SharedFairSpec ==
    /\ SharedSpec
    /\ WF_vars(Load)
    /\ \A w \in Workers : WF_vars(Proceeds(w))

-----------------------------------------------------------------------------
TypeOK ==
    /\ disk \in [Ids -> Slot]
    /\ tail \in {"clean", "half", "broken"}
    /\ docs \in [Ids -> Slot]
    /\ index \in [Vals -> SUBSET Ids]
    /\ lock \in Workers \cup {None}
    /\ call \in [Workers -> Calls]
    /\ up \in BOOLEAN
    /\ foreign \in SUBSET Ids
    /\ written \in [Ids -> SUBSET Slot]

Suspended(w) == call[w].pc # "idle"

(* The one call whose line is in the file and whose memory half is due. *)
Due(i) == \E w \in Workers : call[w].pc = "appended" /\ call[w].id = i

(* insert, update and delete write the log first: until a line breaks off  *)
(* in the file, a document in memory differs from the replayed log only    *)
(* while the one call that wrote it waits to resume, and memory then lags  *)
(* behind the log, never ahead.  Behind a line that broke off under a      *)
(* process that lives on, memory does run ahead of what a load() finds,    *)
(* but only with documents whose own line went out after it: never with    *)
(* the one whose line broke off.                                           *)
WriteAhead ==
    up => \A i \in Ids :
             docs[i] # disk[i] =>
                \/ Due(i)
                \/ tail = "broken" /\ docs[i] \in written[i]

(* find_by() answers exactly what a scan of _docs would, at every await    *)
(* point, whatever order inserts, value changes and deletes come in.       *)
IndexExact == up => index = Indexed(docs)

(* find_by() never meets an id that _docs has dropped (a KeyError in its   *)
(* list comprehension), even when reloads race suspended calls, as long as *)
(* no line of the file is broken (fused with another process's, or left    *)
(* unfinished by a write that failed).                                     *)
IndexSafe ==
    (up /\ tail # "broken") => \A v \in Vals : \A i \in index[v] : docs[i] # None

(* Whatever races, memory shows only values whose line had reached the     *)
(* file first: a reload can take a caller back in time, it cannot make up  *)
(* a document state that was never logged.                                 *)
MemoryWasLogged ==
    up => \A i \in Ids : docs[i] \in written[i]

(* "the orchestrator's own writes are already on disk, so the rebuild is   *)
(* idempotent" (_reconcile_external_tickets): with no call suspended, a    *)
(* document no other process touched reads as its last line in the log.    *)
ReloadIdempotent ==
    (up /\ lock = None /\ tail = "clean") =>
        \A i \in Ids \ foreign : docs[i] = disk[i]

(* The log of a document changes only by the append of the call that holds *)
(* the lock and is about that document.                                    *)
LogStep ==
    \A i \in Ids : disk'[i] # disk[i] =>
          \E w \in Workers :
             /\ lock = w
             /\ call[w].id = i
             /\ call'[w].pc = "appended"
             /\ disk'[i] = call[w].val

(* What the log replays to survives: no step of the store, of a failing    *)
(* append or of a crash takes a document out of it except the delete (or   *)
(* overwrite) of that document by a call in progress.  (A change that was  *)
(* acknowledged behind a broken line never got into it.)                   *)
NoSilentLoss == [][LogStep]_vars

(* What the store promises, in terms of DurableMap: the file is what is    *)
(* durable, _docs is what is shown, what is owed is the document whose     *)
(* line is out and whose call waits to resume, and a broken line jams it.  *)
Jammed == tail = "broken"
Owed == IF Jammed THEN {}
        ELSE {call[w].id : w \in {x \in Workers : call[x].pc = "appended"}}
Promise == INSTANCE DurableMap WITH
              durable <- disk, shown <- docs, owed <- Owed, serving <- up,
              jammed <- Jammed

(* A store that is loaded once implements the durable map, jams included:  *)
(* with lines that go out in parts, appends that fail before or in the     *)
(* middle of one and crashes anywhere, every step is one of the map's or   *)
(* leaves it alone.                                                        *)
KeepsPromise == Promise!MapSpec

(* Reloading heals: if calls and other processes stop and no line is       *)
(* broken, memory and its indexes come to agree with the log for good.     *)
Quiet == up /\ foreign = {} /\ tail = "clean" /\ \A w \in Workers : ~Suspended(w)
Healed == docs = disk /\ index = Indexed(docs)
HealsWhenQuiet == <>[]Quiet => <>[]Healed

=============================================================================
