------------------------- MODULE MCSyncHookPromises -------------------------
(* Model values and bounds for the runs of SyncHookPromises. *)
EXTENDS SyncHookPromises

CONSTANTS p1, p2, o1, t1

OnePlayer == {p1}
TwoPlayers == {p1, p2}
OneObject == {o1}
OneThread == {t1}
Restricted == {{"SP"}, {"HB"}}
AlwaysSP == {{"SP"}}
=============================================================================
