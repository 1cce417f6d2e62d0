---------------------------- MODULE MCJsonlStore ----------------------------
(* Small instances of JsonlStore for TLC. *)
EXTENDS JsonlStore, TLC

(* Ids, values and workers are interchangeable in the safety runs. *)
Symmetry == Permutations(Ids) \cup Permutations(Vals) \cup Permutations(Workers)

=============================================================================
