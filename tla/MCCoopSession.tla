--------------------------- MODULE MCCoopSession ---------------------------
(* Model values and bounds for the run of CoopSession. *)
EXTENDS CoopSession

CONSTANTS p1, c1, c2

OneAddress == {p1}
TwoClients == {c1, c2}
ShownKinds == {{}, {"SP"}, {"HB"}}
=============================================================================
