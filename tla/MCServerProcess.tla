-------------------------- MODULE MCServerProcess --------------------------
(* Model values and bounds for the runs of ServerProcess. *)
EXTENDS ServerProcess

CONSTANT t1

OneThread == {t1}
=============================================================================
