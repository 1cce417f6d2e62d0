---------------------------- MODULE MCScheduler -----------------------------
(* Small instances of Scheduler for TLC. *)
EXTENDS Scheduler, TLC

CONSTANTS a, b, c

(* b waits for a, c for b; the edge from b to c was lost in a race of two  *)
(* creations, so only blocked_by knows it.                                 *)
Chain == (a :> {} @@ b :> {a} @@ c :> {b})
ChainBlocks == (a :> {b} @@ b :> {} @@ c :> {})

(* b waits for a. *)
Duo == (a :> {} @@ b :> {a})
DuoBlocks == (a :> {b} @@ b :> {})

(* Nobody waits for anybody. *)
Free == [t \in Tickets |-> {}]

=============================================================================
