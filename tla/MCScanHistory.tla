--------------------------- MODULE MCScanHistory ---------------------------
(* Model values and bounds for the runs of ScanHistory. *)
EXTENDS ScanHistory, TLC

CONSTANTS p1, p2, p3

Two == {p1, p2}
Three == {p1, p2, p3}

AnyMarkers == SUBSET Markers
OneMarker == {{}, {"SP"}, {"HB"}}

\* The addresses are interchangeable: no definition tells one from another.
Symmetry == Permutations(Players)
=============================================================================
