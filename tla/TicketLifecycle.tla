--------------------------- MODULE TicketLifecycle ---------------------------
(***************************************************************************)
(* What the run of a ticket promises to the operator and to the tickets    *)
(* that depend on it, without worktrees, gates, threads, reviewers, rounds *)
(* or adjudications: the phases of its workflow are stations in a line.    *)
(* One is begun only when those before it hold and nobody is waiting for   *)
(* an answer, and it undoes those behind it; only a ticket that holds all  *)
(* of them is merged, once; and it is closed as what it is.  Whatever      *)
(* agents write on the ticket meanwhile does not close it.                 *)
(*                                                                         *)
(* TicketRun is shown to implement it, for a task that is neither killed   *)
(* nor retried.  (After either the records of earlier rounds decide where  *)
(* to resume, and stations that were undone are taken to hold.)            *)
(***************************************************************************)
EXTENDS Integers

CONSTANT
    Last        \* the number of stations

VARIABLES
    at,         \* the station at work, 0 for none
    passed,     \* the stations that hold
    asked,      \* does the operator owe an answer?
    merged,
    closed      \* how the ticket was closed, "no" while it is not

lifeVars == <<at, passed, asked, merged, closed>>

LifeInit ==
    /\ at = 0 /\ passed = {} /\ ~asked
    /\ merged = FALSE /\ closed = "no"

\* A station's work changes the tree those behind it have looked at.
Begin(p) ==
    /\ at = 0 /\ ~asked /\ ~merged /\ closed = "no"
    /\ 1..(p - 1) \subseteq passed
    /\ at' = p /\ passed' = {q \in passed : q < p}
    /\ UNCHANGED <<asked, merged, closed>>

Pass ==
    /\ at # 0 /\ ~asked
    /\ at' = 0 /\ passed' = passed \cup {at}
    /\ UNCHANGED <<asked, merged, closed>>

\* Sent back, asked something, failed or lost.
Leave ==
    /\ at # 0 /\ at' = 0
    /\ UNCHANGED <<passed, asked, merged, closed>>

Ask ==
    /\ at # 0 /\ asked' = TRUE
    /\ UNCHANGED <<at, passed, merged, closed>>

\* The answer, or the asker does without.
Settle ==
    /\ asked /\ ~asked'
    /\ UNCHANGED <<at, passed, merged, closed>>

Complete == 1..Last \subseteq passed

Publish ==
    /\ at = 0 /\ ~asked /\ ~merged /\ closed = "no" /\ Complete
    /\ merged' = TRUE
    /\ UNCHANGED <<at, passed, asked, closed>>

Close(outcome) ==
    /\ at = 0 /\ closed = "no"
    /\ merged <=> outcome = "resolved"
    /\ outcome = "merge_conflict" => Complete
    /\ closed' = outcome /\ ~asked'
    /\ UNCHANGED <<at, passed, merged>>

LifeNext ==
    \/ \E p \in 1..Last : Begin(p)
    \/ Pass \/ Leave \/ Ask \/ Settle \/ Publish
    \/ \E outcome \in {"resolved", "failed", "merge_conflict"} : Close(outcome)

LifeSpec == LifeInit /\ [][LifeNext]_lifeVars
=============================================================================
