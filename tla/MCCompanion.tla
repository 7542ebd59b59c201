---------------------------- MODULE MCCompanion ----------------------------
(* Model values and bounds for the runs of CompanionHistory. *)
EXTENDS CompanionHistory

CONSTANTS ann, k1, k2

OnePerson == {ann}
TwoKeys == {k1, k2}
OneKey == {k1}
=============================================================================
