------------------------- MODULE MCSyncHookHistory -------------------------
(* Model values and bounds for the runs of SyncHookHistory. *)
EXTENDS SyncHookHistory, TLC

CONSTANTS p1, p2, o1, t1

TwoPlayers == {p1, p2}
OneObject == {o1}
OneThread == {t1}

Restricted == {{"SP"}, {"HB"}}

\* The addresses and the threads are interchangeable.
Symmetry == Permutations(Players) \cup Permutations(Threads)
=============================================================================
