--------------------------- MODULE ClientSignals ---------------------------
(***************************************************************************)
(* What the players' clients promise the rest of the system: the mode each *)
(* player chose, and the one mode its character's name shows.  This is the *)
(* abstract specification of the plugin, which Companion implements, and   *)
(* the client side of CoopSession.                                         *)
(*                                                                         *)
(* A name shows at most one mode.  It may be out of date - a saved game    *)
(* brings an old mode back, a process forgets the mode it was in, a toggle *)
(* may find no character - but a name changes to the mode just chosen, to  *)
(* the one that was saved, or to none.                                     *)
(***************************************************************************)
EXTENDS Naturals

CONSTANTS
  Clients,  \* the players' games
  Absent    \* no character loaded, or no saved game

Modes == 0 .. 2   \* MP, HB, SP

ASSUME AbsentAssumption == Absent \notin Modes

VARIABLES
  mode,    \* the mode each player's plugin is in
  shown,   \* the mode the name of the loaded character shows
  stored   \* the mode the name in the saved game shows

clientVars == <<mode, shown, stored>>

SignalsTypeOK ==
  /\ mode \in [Clients -> Modes]
  /\ shown \in [Clients -> Modes \cup {Absent}]
  /\ stored \in [Clients -> Modes \cup {Absent}]

SignalsInit ==
  /\ mode = [c \in Clients |-> 0]
  /\ shown = [c \in Clients |-> Absent]
  /\ stored = [c \in Clients |-> Absent]

----------------------------------------------------------------------------
\* Mutant of Toggle: the mode does not wrap around.
ToggleUnwrapped(c) ==
  /\ mode' = [mode EXCEPT ![c] = @ + 1]
  /\ \/ shown[c] # Absent /\ shown' = [shown EXCEPT ![c] = mode'[c]]
     \/ UNCHANGED shown
  /\ UNCHANGED stored

(* The key is pressed; the name follows unless it cannot be set. *)
Toggle(c) ==
  /\ mode' = [mode EXCEPT ![c] = (@ + 1) % 3]
  /\ \/ shown[c] # Absent /\ shown' = [shown EXCEPT ![c] = mode'[c]]
     \/ UNCHANGED shown
  /\ UNCHANGED stored

NewCharacter(c) ==
  /\ shown' = [shown EXCEPT ![c] = 0]
  /\ UNCHANGED <<mode, stored>>

SaveGame(c) ==
  /\ shown[c] # Absent
  /\ stored' = [stored EXCEPT ![c] = shown[c]]
  /\ UNCHANGED <<mode, shown>>

LoadGame(c) ==
  /\ stored[c] # Absent
  /\ shown' = [shown EXCEPT ![c] = stored[c]]
  /\ UNCHANGED <<mode, stored>>

(* The game ends and is started again: only the saved game outlives it. *)
Restart(c) ==
  /\ mode' = [mode EXCEPT ![c] = 0]
  /\ shown' = [shown EXCEPT ![c] = Absent]
  /\ UNCHANGED stored

SignalsStep ==
  \E c \in Clients :
    Toggle(c) \/ NewCharacter(c) \/ SaveGame(c) \/ LoadGame(c) \/ Restart(c)

SignalsSpec == SignalsInit /\ [][SignalsStep]_clientVars

=============================================================================
