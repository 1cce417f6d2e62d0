----------------------------- MODULE MCTicketRun -----------------------------
(* Instances of TicketRun for TLC. *)
EXTENDS TicketRun

CONSTANTS a, b

(* Workflows of jig/defaults/workflows (bugfix.yaml and docs.yaml), and    *)
(* the fix loop on its own.                                                *)
Bugfix == <<"test", "dev", "review", "validate">>
Docs == <<"document">>
Short == <<"dev", "review">>

(* The file of a belongs to the first phase, the file of b to nobody. *)
TestOwned == [k \in {a, b} |-> IF k = a THEN 1 ELSE 0]
OneOwned == [k \in {a} |-> 1]
NoneOwned == [k \in {} |-> 0]

=============================================================================
