-------------------------- MODULE CompanionHistory --------------------------
(***************************************************************************)
(* The plugin with history variables, and what the player, the overlay and *)
(* the server can rely on.  The history variables never constrain a step.  *)
(***************************************************************************)
EXTENDS Companion

VARIABLES
  person,       \* who the loaded character really is
  savedPerson,  \* who the saved character really is
  settled,      \* a toggle reached everything, and nothing was loaded or joined since
  spent         \* the keys whose present press has toggled, under this configuration

histVars == <<person, savedPerson, settled, spent>>
hvars == <<vars, histVars>>

HInit == Init /\ person = Nobody /\ savedPerson = Nobody /\ settled = FALSE /\ spent = {}

Toggled == mode' = (mode + 1) % 3 /\ PluginStep

\* The character or the session is no longer the one that was signalled to.
Disturbed == Restart \/ LoadGame \/ Disconnect \/ \E p \in People : NewCharacter(p)

Record ==
  /\ settled' = IF Toggled THEN console /\ character # Nobody /\ connected
                ELSE settled /\ ~Disturbed
  /\ spent' = (IF toggleKey' # toggleKey \/ Restart THEN {} ELSE spent \cap down')
                \cup (IF Toggled THEN {toggleKey'} ELSE {})

\* Next, with the person behind the name coming and going with the character.
NextWithPerson ==
  \/ \E p \in People : NewCharacter(p) /\ person' = p /\ UNCHANGED savedPerson
  \/ LoadGame /\ person' = savedPerson /\ UNCHANGED savedPerson
  \/ SaveGame /\ savedPerson' = person /\ UNCHANGED person
  \/ Restart /\ person' = Nobody /\ UNCHANGED savedPerson
  \/ /\ \/ LoadClient \/ Connect \/ Disconnect \/ SwitchFocus \/ PluginStep
        \/ \E k \in Keys \cup {NoKey} : Remap(k)
        \/ \E k \in Keys : Press(k) \/ Release(k)
     /\ UNCHANGED <<person, savedPerson>>

HNext == NextWithPerson /\ Record

HSpec == HInit /\ [][HNext]_hvars

(* The game loop draws frames, and two seconds do pass between them.       *)
HFairSpec ==
  /\ HSpec
  /\ WF_hvars(FrameInitialize /\ HNext)
  /\ WF_hvars(Frame(TRUE) /\ HNext)

----------------------------------------------------------------------------
(* A name never carries two markers, in the game or in a saved game, and   *)
(* the name the plugin remembers, to which it appends a marker at every    *)
(* toggle, carries none, through any saving, loading and restarting in any *)
(* mode (encounter_toggle.cpp 77-81, 95).                                  *)
OneMarker ==
  /\ \A n \in {character, saved} \ {Nobody} : Len(n.tail) <= 1
  /\ original # Nobody => original.tail = <<>>

(* The three signals of the mode never part: once a toggle has reached a   *)
(* connected character, the name the server reads, the overlay and the     *)
(* encounter flags agree until something is loaded or the session ends     *)
(* (encounter_toggle.cpp 93-106).                                          *)
SignalsAgree ==
  settled =>
    /\ character.tail = Marker(mode)
    /\ overlay.mode = mode
    /\ encounters = IF mode = 0 THEN EncounterTypes ELSE {}

(* In multiplayer mode the player is called what the character is called:  *)
(* a toggle back to MP returns the name, if it was first read from this    *)
(* character (encounter_toggle.cpp 54-96).                                 *)
NameReturns ==
  settled /\ mode = 0 /\ original.who = person => character = [who |-> person, tail |-> <<>>]

\* The mode that a name signals; 3 is no mode: a name with several markers.
Signal(n) ==
  IF n = Nobody THEN Nobody
  ELSE IF n.tail = <<>> THEN 0
  ELSE IF n.tail = <<"HB">> THEN 1
  ELSE IF n.tail = <<"SP">> THEN 2 ELSE 3

\* The one client of this game, as the rest of the system sees it.
Me == Fallback
Signals == INSTANCE ClientSignals
  WITH Clients <- {Me}, Absent <- Nobody, mode <- [c \in {Me} |-> mode],
       shown <- [c \in {Me} |-> Signal(character)], stored <- [c \in {Me} |-> Signal(saved)]

(* The plugin and its game implement ClientSignals: a name only ever comes *)
(* to show the mode just chosen, the one in the saved game, or none, never *)
(* a mixture of two (encounter_toggle.cpp 50-96).                          *)
ImplementsSignals == Signals!SignalsSpec

(* One press is one toggle: a key that is held down does not toggle again, *)
(* whatever happens to the focus, until it is released or the              *)
(* configuration changes (companion main.cpp 93-116).                      *)
OneTogglePerPress == [][Toggled => toggleKey' \notin spent \/ toggleKey' # toggleKey]_hvars

(* A key chosen in MCM takes effect while the game runs (main.cpp 63-70).  *)
ConfigTakesEffect ==
  \A k \in Keys : <>[](ini = k /\ focused /\ initialized) => <>[](toggleKey = k)

----------------------------------------------------------------------------
(* "Current mode displayed on the NV:MP connection overlay" (README 11):   *)
(* the overlay, once it shows the plugin's text, does not say MP while the *)
(* name tells the server otherwise.  A saved game brings a marker back     *)
(* that a new process knows nothing of.                                    *)
OverlayTellsServerMode ==
  connected /\ character # Nobody /\ sites["overlay"] = "patched" /\ overlay.mode = 0 =>
    character.tail = <<>>

=============================================================================
