----------------------------- MODULE DurableMap -----------------------------
(***************************************************************************)
(* What a document store of jig promises its callers, without files,       *)
(* lines, locks, threads or indexes: a map that survives the process.  A   *)
(* change is made durable in one step and shown to readers in a later one; *)
(* there is never a second change in between, readers never see one that   *)
(* could still be lost, and a process that comes back shows all that was   *)
(* made durable.                                                           *)
(*                                                                         *)
(* The promise ends when the log is jammed: nothing is durable any more.   *)
(* The process goes on answering, and shows changes that it has lost, but  *)
(* what was durable stays so, and no process comes back until someone has  *)
(* mended the file.                                                        *)
(*                                                                         *)
(* JsonlStore is shown to implement it, for a store of one process that is *)
(* loaded once.  (The ticket store, which is loaded again while calls are  *)
(* suspended, does not: a call that was suspended then returns without its *)
(* change being shown.)                                                    *)
(***************************************************************************)
EXTENDS FiniteSets

CONSTANTS
    Ids,        \* document ids
    Vals,       \* contents of a document
    None        \* "no document"

VARIABLES
    durable,    \* what the next process will find
    shown,      \* what a reader in this process sees
    owed,       \* the document whose change is durable and not yet shown
    serving,    \* is there a process?
    jammed      \* the log takes no more changes

mapVars == <<durable, shown, owed, serving, jammed>>

Nothing == [i \in Ids |-> None]

MapInit ==
    /\ durable = Nothing /\ shown = Nothing
    /\ owed = {} /\ serving = TRUE /\ jammed = FALSE

\* What may become of document i: a document that is not there is not removed.
Sensible(i, v) == shown[i] = None => v # None

\* A document is created, changed or, if it is there, removed.
Persist(i, v) ==
    /\ serving /\ owed = {} /\ ~jammed
    /\ Sensible(i, v)
    /\ durable' = [durable EXCEPT ![i] = v]
    /\ owed' = {i}
    /\ UNCHANGED <<shown, serving, jammed>>

\* The call returns: its change is visible from now on.
Show ==
    /\ serving /\ owed # {}
    /\ shown' = durable /\ owed' = {}
    /\ UNCHANGED <<durable, serving, jammed>>

\* A change fails half-way: its caller is told, and the log is jammed.
Jam ==
    /\ serving /\ owed = {} /\ ~jammed
    /\ jammed' = TRUE
    /\ UNCHANGED <<durable, shown, owed, serving>>

\* Behind the jam a call returns, its change is visible, and it is lost.
ShowLost(i, v) ==
    /\ serving /\ jammed
    /\ Sensible(i, v)
    /\ shown' = [shown EXCEPT ![i] = v]
    /\ UNCHANGED <<durable, owed, serving, jammed>>

\* The process dies, perhaps in the middle of a change.
Stop ==
    /\ serving /\ serving' = FALSE
    /\ shown' = Nothing /\ owed' = {}
    /\ jammed => jammed'
    /\ owed # {} => jammed' = jammed
    /\ jammed' \in BOOLEAN
    /\ UNCHANGED durable

Start ==
    /\ ~serving /\ serving' = TRUE /\ ~jammed
    /\ shown' = durable
    /\ UNCHANGED <<durable, owed, jammed>>

MapNext ==
    \/ \E i \in Ids, v \in Vals \cup {None} : Persist(i, v) \/ ShowLost(i, v)
    \/ Show \/ Jam \/ Stop \/ Start

MapSpec == MapInit /\ [][MapNext]_mapVars
=============================================================================
