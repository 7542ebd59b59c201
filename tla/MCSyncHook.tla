----------------------------- MODULE MCSyncHook -----------------------------
(* Model values and bounds for the runs of SyncHook. *)
EXTENDS SyncHook

CONSTANTS p1, p2, o1, t1

TwoPlayers == {p1, p2}
OneObject == {o1}
OneThread == {t1}

SPOrNone == {{}, {"SP"}}
=============================================================================
