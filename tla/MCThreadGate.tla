---------------------------- MODULE MCThreadGate ----------------------------
(* Small instances of ThreadGate: a developer, and a reviewer who judges   *)
(* handoffs and may waive objections.                                      *)
EXTENDS ThreadGate

MCRoles == {"dev", "rev"}
MCDev == "dev"
MCEvaluators == {"rev"}
MCPosters == {<<"question", "dev">>, <<"objection", "rev">>, <<"escalation", "dev">>}
=============================================================================
