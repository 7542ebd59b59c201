-------------------------- MODULE SyncHookPromises --------------------------
(***************************************************************************)
(* What PATCHES.md and the comments of main.cpp promise of the two modes,  *)
(* stated of the hook as it is.  The history variables record what held    *)
(* throughout a call; they never constrain a step.                         *)
(***************************************************************************)
EXTENDS SyncHook

VARIABLES
  always,     \* per thread: the players the SP table names all through the call
  restricted  \* per thread: tracked when it began, marked all through the call

pvars == <<vars, always, restricted>>

Calling(t) == call[t].pc # "idle"

\* The players who are connected under a name with a marker.
Marked == {p \in linked : tags[p] # {}}

PInit ==
  /\ Init
  /\ always = [t \in Threads |-> {}]
  /\ restricted = [t \in Threads |-> {}]

Observe ==
  /\ always' = [t \in Threads |->
       IF ~Calling(t)' THEN {}
       ELSE Tracked(sp') \cap (IF Calling(t) THEN always[t] ELSE Tracked(sp))]
  /\ restricted' = [t \in Threads |->
       IF ~Calling(t)' THEN {}
       ELSE Marked' \cap (IF Calling(t) THEN restricted[t] ELSE Tracked(sp) \cup Tracked(hb))]

PSpec == PInit /\ [][Next /\ Observe]_pvars

Passes(t) == call[t].pc = "done" /\ call[t].verdict = "pass"

----------------------------------------------------------------------------
(* "SINGLEPLAYER MODE: block ALL sync" (main.cpp 122): a character that    *)
(* the SP table names at every moment of the call is withheld.  But when a *)
(* publication moves it to another slot, a reader that has passed the new  *)
(* slot and not yet reached the old one misses it.                         *)
AlwaysTrackedBlocks ==
  \A t \in Threads : Passes(t) => call[t].obj \notin always[t]

(* "blocks non-character sync" in either mode (PATCHES.md 83-84): a player *)
(* who is restricted before, during and after a change of mode receives no *)
(* object.  But while a publication moves the player from one table to the *)
(* other, a reader may find it in neither.                                 *)
SwitchStaysClosed ==
  \A t \in Threads :
    Passes(t) /\ call[t].obj \in Objects => call[t].tgt \notin restricted[t]

=============================================================================
