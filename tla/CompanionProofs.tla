-------------------------- MODULE CompanionProofs --------------------------
(***************************************************************************)
(* Theorems of HSpec, the client plugin in its game, for any people and    *)
(* keys.  CompanionInv is the inductive invariant: a name has at most one  *)
(* marker, hence the name that is stripped and remembered has none, hence  *)
(* SetName appends at most one to it; and once a toggle has reached        *)
(* everything, the character is called the remembered name with the        *)
(* marker of the mode until the character or the session goes.  From it    *)
(* follow the implementation of ClientSignals, and that one press of the   *)
(* key is one toggle.                                                      *)
(***************************************************************************)
EXTENDS CompanionHistory, TLAPS

SettledInv ==
  settled =>
    /\ connected
    /\ original \in Names /\ original.tail = <<>>
    /\ character = WithMarker(original, mode)
    /\ overlay.mode = mode
    /\ encounters = IF mode = 0 THEN EncounterTypes ELSE {}

CompanionInv ==
  /\ CTypeOK
  /\ OneMarker
  /\ SettledInv

----------------------------------------------------------------------------
(* Names.                                                                  *)

(* The record of a name is its two fields. *)
LEMMA NameFields ==
  ASSUME NEW n \in Names
  PROVE  /\ n = [who |-> n.who, tail |-> n.tail]
         /\ n.who \in People \cup {Fallback}
         /\ n.tail \in Seq(Markers)
BY DEF Names

(* Cutting a tail of one marker at that marker leaves nothing, at the      *)
(* other one everything.                                                   *)
LEMMA CutOne ==
  ASSUME NEW x \in Markers, NEW marker \in Markers
  PROVE  CutAt(<<x>>, marker) = IF x = marker THEN <<>> ELSE <<x>>
<1>1. CASE x = marker
  <2>1. (CHOOSE i \in DOMAIN <<x>> : <<x>>[i] = marker /\ \A j \in 1 .. i - 1 : <<x>>[j] # marker) = 1
    BY <1>1
  <2>2. SubSeq(<<x>>, 1, 0) = <<>>
    OBVIOUS
  <2>3. QED
    BY <1>1, <2>1, <2>2 DEF CutAt
<1>2. CASE x # marker
  BY <1>2 DEF CutAt
<1>3. QED
  BY <1>1, <1>2

(* Cutting an empty tail leaves it empty. *)
LEMMA CutNone ==
  ASSUME NEW marker
  PROVE  CutAt(<<>>, marker) = <<>>
BY DEF CutAt

(* A name with at most one marker is stripped of it. *)
LEMMA StrippedIsBare ==
  ASSUME NEW n \in Names, Len(n.tail) <= 1
  PROVE  Stripped(n) \in Names /\ Stripped(n).tail = <<>> /\ Stripped(n).who = n.who
<1>1. CutAt(CutAt(n.tail, "SP"), "HB") = <<>>
  <2>1. CASE Len(n.tail) = 0
    <3>1. n.tail = <<>>
      BY <2>1, NameFields
    <3>2. QED
      BY <3>1, CutNone
  <2>2. CASE Len(n.tail) = 1
    <3>1. PICK x \in Markers : n.tail = <<x>>
      BY <2>2, NameFields
    <3>2. CASE x = "SP"
      BY <3>1, <3>2, CutOne, CutNone DEF Markers
    <3>3. CASE x = "HB"
      BY <3>1, <3>3, CutOne, CutNone DEF Markers
    <3>4. QED
      BY <3>1, <3>2, <3>3 DEF Markers
  <2>3. Len(n.tail) = 0 \/ Len(n.tail) = 1
    <3>1. ASSUME NEW k \in Nat, k <= 1
          PROVE  k = 0 \/ k = 1
      BY <3>1
    <3>2. n.tail \in Seq(Markers)
      BY NameFields
    <3>3. Len(n.tail) \in Nat /\ Len(n.tail) <= 1
      BY <3>2
    <3>4. QED
      BY <3>1, <3>3, Zenon
  <2>4. QED
    BY <2>1, <2>2, <2>3
<1>2. Stripped(n) = [who |-> n.who, tail |-> <<>>]
  <2>1. [n EXCEPT !.tail = <<>>] = [who |-> n.who, tail |-> <<>>]
    BY NameFields
  <2>2. QED
    BY <1>1, <2>1 DEF Stripped
<1>3. <<>> \in Seq(Markers)
  OBVIOUS
<1>4. QED
  BY <1>2, <1>3, NameFields DEF Names

(* A bare name with a mode's marker is a name with at most that marker. *)
LEMMA MarkedName ==
  ASSUME NEW n \in Names, n.tail = <<>>, NEW m \in Modes
  PROVE  /\ WithMarker(n, m) \in Names
         /\ WithMarker(n, m).who = n.who
         /\ WithMarker(n, m).tail = Marker(m)
         /\ Len(Marker(m)) <= 1
<1>1. Marker(m) \in Seq(Markers) /\ Len(Marker(m)) <= 1
  <2>1. CASE m = 0
    BY <2>1 DEF Marker
  <2>2. CASE m = 1
    <3>1. Marker(m) = <<"HB">>
      BY <2>2 DEF Marker
    <3>2. QED
      BY <3>1 DEF Markers
  <2>3. CASE m = 2
    <3>1. Marker(m) = <<"SP">>
      BY <2>3 DEF Marker
    <3>2. QED
      BY <3>1 DEF Markers
  <2>4. QED
    BY <2>1, <2>2, <2>3 DEF Modes
<1>2. <<>> \o Marker(m) = Marker(m)
  BY <1>1
<1>3. QED
  BY <1>1, <1>2, NameFields DEF WithMarker, Names

(* In a state of the invariant, what a toggle builds the name from is bare. *)
LEMMA CapturedIsBare ==
  ASSUME CompanionInv
  PROVE  Captured \in Names /\ Captured.tail = <<>>
<1>1. CASE original # Nobody
  BY <1>1 DEF CompanionInv, CTypeOK, OneMarker, Captured
<1>2. CASE original = Nobody /\ character # Nobody /\ character.who \in Readable \cup {Fallback}
  <2>1. character \in Names /\ Len(character.tail) <= 1
    BY <1>2 DEF CompanionInv, CTypeOK, OneMarker
  <2>2. QED
    BY <1>2, <2>1, StrippedIsBare DEF Captured
<1>3. CASE original = Nobody /\ ~(character # Nobody /\ character.who \in Readable \cup {Fallback})
  BY <1>3 DEF Captured, Names
<1>4. QED
  BY <1>1, <1>2, <1>3

----------------------------------------------------------------------------
(* The plugin's step.                                                      *)

(* The mode after a toggle is another mode. *)
LEMMA ModeTurns ==
  ASSUME NEW m \in Modes
  PROVE  (m + 1) % 3 \in Modes /\ (m + 1) % 3 # m
BY DEF Modes

(* A patched place is patched or was not the plugin's to patch. *)
LEMMA PatchType ==
  ASSUME CTypeOK, NEW site \in {"damage", "overlay"}
  PROVE  Patch(site) \in [{"damage", "overlay"} -> {"original", "patched", "foreign"}]
BY DEF CTypeOK, Patch

(* The handler of the key, as a whole, keeps what it touches in the        *)
(* invariant, and settles everything if there is something to settle.      *)
LEMMA ToggleStep ==
  ASSUME CompanionInv, OnToggleMultiplayerKey, saved' = saved, connected' = connected,
         settled' => console /\ character # Nobody /\ connected
  PROVE  /\ mode' \in Modes /\ original' \in Names /\ original'.tail = <<>>
         /\ overlay' \in [who : People \cup {Fallback, Nobody}, mode : Modes]
         /\ character' \in Names \cup {Nobody} /\ encounters' \subseteq EncounterTypes
         /\ OneMarker' /\ SettledInv'
<1> DEFINE m == (mode + 1) % 3
           n == Captured
<1>1. m \in Modes /\ mode' = m
  BY ModeTurns DEF CompanionInv, CTypeOK, OnToggleMultiplayerKey
<1>2. n \in Names /\ n.tail = <<>> /\ original' = n
  BY CapturedIsBare DEF OnToggleMultiplayerKey
<1>3. overlay' = [who |-> Nobody, mode |-> m]
  <2>1. overlay \in [who : People \cup {Fallback, Nobody}, mode : Modes]
    BY DEF CompanionInv, CTypeOK
  <2>2. overlay' = UpdateModeIndicator(SetOverlayText(overlay, n, m), m)
    BY DEF OnToggleMultiplayerKey
  <2>3. QED
    BY <2>1, <2>2 DEF UpdateModeIndicator, SetOverlayText
<1>4. character' = IF console /\ character # Nobody THEN WithMarker(n, m) ELSE character
  BY DEF OnToggleMultiplayerKey
<1>5. encounters' = IF connected THEN (IF m = 0 THEN EncounterTypes ELSE {}) ELSE encounters
  BY DEF OnToggleMultiplayerKey
<1>6. /\ WithMarker(n, m) \in Names /\ Len(WithMarker(n, m).tail) <= 1
  BY <1>1, <1>2, MarkedName
<1>7. character' \in Names \cup {Nobody} /\ (character' # Nobody => Len(character'.tail) <= 1)
  BY <1>4, <1>6 DEF CompanionInv, CTypeOK, OneMarker
<1>8. OneMarker'
  BY <1>2, <1>7 DEF CompanionInv, OneMarker
<1>9. SettledInv'
  BY <1>1, <1>2, <1>3, <1>4, <1>5 DEF SettledInv
<1> HIDE DEF m, n
<1>10. QED
  BY <1>1, <1>2, <1>3, <1>5, <1>7, <1>8, <1>9 DEF CompanionInv, CTypeOK

(* A step that is not a toggle leaves "settled" as it was, or ends it. *)
LEMMA NoToggle ==
  ASSUME CompanionInv, Record, mode' = mode
  PROVE  settled' = (settled /\ ~Disturbed)
BY ModeTurns DEF CompanionInv, CTypeOK, Record, Toggled

----------------------------------------------------------------------------
(* The invariant.                                                          *)

(* Every first state is in the invariant. *)
LEMMA CompanionInvInit == HInit => CompanionInv
<1> SUFFICES ASSUME HInit
             PROVE  CompanionInv
  OBVIOUS
<1>1. [who |-> Nobody, mode |-> 0] \in [who : People \cup {Fallback, Nobody}, mode : Modes]
  BY DEF Modes
<1>2. sites \in [{"damage", "overlay"} -> {"original", "patched", "foreign"}]
  <2>1. sites \in [{"damage", "overlay"} -> {"original", "foreign"}]
    BY DEF HInit, Init
  <2>2. QED
    BY <2>1
<1>3. CTypeOK
  BY <1>1, <1>2, KeyAssumption DEF HInit, Init, CTypeOK, Modes
<1>4. QED
  BY <1>3 DEF HInit, Init, CompanionInv, OneMarker, SettledInv

(* A frame keeps the invariant. *)
LEMMA FrameStep ==
  ASSUME CompanionInv, NEW due \in BOOLEAN, Frame(due), Record
  PROVE  CompanionInv'
<1> USE DEF CompanionInv
<1>1. /\ toggleKey' \in Keys /\ prevToggle' \in BOOLEAN
      /\ sites' \in [{"damage", "overlay"} -> {"original", "patched", "foreign"}]
      /\ UNCHANGED <<initialized, worldVars>>
  BY PatchType DEF CTypeOK, Frame, RefreshConfig
<1>2. CASE OnToggleMultiplayerKey
  <2>1. settled' => console /\ character # Nobody /\ connected
    BY <1>2 DEF Record, Toggled, PluginStep, OnToggleMultiplayerKey
  <2>2. /\ mode' \in Modes /\ original' \in Names /\ original'.tail = <<>>
        /\ overlay' \in [who : People \cup {Fallback, Nobody}, mode : Modes]
        /\ character' \in Names \cup {Nobody} /\ encounters' \subseteq EncounterTypes
        /\ OneMarker' /\ SettledInv'
    BY <1>1, <1>2, <2>1, ToggleStep DEF worldVars
  <2>3. CTypeOK'
    BY <1>1, <2>2 DEF CTypeOK, worldVars
  <2>4. QED
    BY <2>2, <2>3
<1>3. CASE UNCHANGED modeVars
  <2>1. settled' => settled
    BY <1>3, NoToggle DEF modeVars
  <2>2. CTypeOK'
    BY <1>1, <1>3 DEF CTypeOK, worldVars, modeVars
  <2>3. OneMarker' /\ SettledInv'
    BY <1>1, <1>3, <2>1 DEF OneMarker, SettledInv, worldVars, modeVars
  <2>4. QED
    BY <2>2, <2>3
<1>4. QED
  BY <1>2, <1>3 DEF Frame

(* The first frame that finds client.dll keeps the invariant. *)
LEMMA InitializeStep ==
  ASSUME CompanionInv, FrameInitialize, Record
  PROVE  CompanionInv'
<1>1. settled' => settled
  BY NoToggle DEF FrameInitialize, modeVars
<1>2. CTypeOK'
  BY PatchType DEF CompanionInv, CTypeOK, FrameInitialize, modeVars, worldVars
<1>3. QED
  BY <1>1, <1>2 DEF CompanionInv, OneMarker, SettledInv, FrameInitialize, modeVars, worldVars

(* Loading, creating and restarting bring another character, with at most  *)
(* one marker, and end what was settled.                                   *)
LEMMA CharacterStep ==
  ASSUME CompanionInv, Record,
         Restart \/ LoadGame \/ \E p \in People : NewCharacter(p)
  PROVE  CompanionInv'
<1>1. CASE Restart
  <2>1. ~settled'
    BY <1>1, ModeTurns DEF Record, Toggled, PluginStep, FrameInitialize, Frame, Restart, Fresh,
         Disturbed, worldVars, CompanionInv, CTypeOK
  <2>2. CTypeOK'
    <3>1. overlay' \in [who : People \cup {Fallback, Nobody}, mode : Modes]
      BY <1>1 DEF Restart, Fresh, Modes
    <3>2. sites' \in [{"damage", "overlay"} -> {"original", "patched", "foreign"}]
      <4>1. sites' \in [{"damage", "overlay"} -> {"original", "foreign"}]
        BY <1>1 DEF Restart, Fresh
      <4>2. QED
        BY <4>1
    <3>3. QED
      BY <1>1, <3>1, <3>2, KeyAssumption DEF CompanionInv, CTypeOK, Restart, Fresh, Modes
  <2>3. QED
    BY <1>1, <2>1, <2>2 DEF CompanionInv, OneMarker, SettledInv, Restart, Fresh
<1>2. CASE LoadGame
  <2>1. ~settled'
    BY <1>2, NoToggle DEF LoadGame, Disturbed
  <2>2. CTypeOK'
    BY <1>2 DEF CompanionInv, CTypeOK, LoadGame, pluginVars, worldVars
  <2>3. QED
    BY <1>2, <2>1, <2>2 DEF CompanionInv, OneMarker, SettledInv, LoadGame, worldVars
<1>3. ASSUME NEW p \in People, NewCharacter(p)
      PROVE  CompanionInv'
  <2>1. ~settled'
    BY <1>3, NoToggle DEF NewCharacter, Disturbed
  <2>2. CTypeOK'
    <3>1. [who |-> p, tail |-> <<>>] \in Names
      BY DEF Names
    <3>2. QED
      BY <1>3, <3>1 DEF CompanionInv, CTypeOK, NewCharacter, pluginVars, worldVars
  <2>3. QED
    BY <1>3, <2>1, <2>2 DEF CompanionInv, OneMarker, SettledInv, NewCharacter, worldVars
<1>4. QED
  BY <1>1, <1>2, <1>3

(* The rest of the world touches neither the name nor, while connected,    *)
(* the encounter flags.                                                    *)
LEMMA WorldKeeps ==
  ASSUME CompanionInv, Record,
         \/ LoadClient \/ SaveGame \/ Connect \/ Disconnect \/ SwitchFocus
         \/ \E k \in Keys \cup {NoKey} : Remap(k)
         \/ \E k \in Keys : Press(k) \/ Release(k)
  PROVE  CompanionInv'
<1> USE DEF LoadClient, SaveGame, Connect, Disconnect, SwitchFocus, Remap, Press, Release,
            modeVars, pluginVars
<1>1. mode' = mode /\ original' = original /\ overlay' = overlay /\ character' = character
  OBVIOUS
<1>2. settled' => settled /\ ~Disconnect
  BY <1>1, NoToggle DEF Disturbed
<1>3. CTypeOK'
  BY DEF CompanionInv, CTypeOK, EncounterTypes
<1>4. OneMarker'
  BY <1>1 DEF CompanionInv, OneMarker
<1>5. SettledInv'
  BY <1>1, <1>2 DEF CompanionInv, SettledInv
<1>6. QED
  BY <1>1, <1>3, <1>4, <1>5 DEF CompanionInv

(* Every step keeps the invariant. *)
LEMMA CompanionInvStep == CompanionInv /\ [HNext]_hvars => CompanionInv'
<1> SUFFICES ASSUME CompanionInv, [HNext]_hvars
             PROVE  CompanionInv'
  OBVIOUS
<1>1. ASSUME HNext
      PROVE  CompanionInv'
  <2>1. Record
    BY <1>1 DEF HNext
  <2>2. CASE PluginStep
    BY <2>1, <2>2, FrameStep, InitializeStep DEF PluginStep
  <2>3. CASE Restart \/ LoadGame \/ \E p \in People : NewCharacter(p)
    BY <2>1, <2>3, CharacterStep
  <2>4. CASE \/ LoadClient \/ SaveGame \/ Connect \/ Disconnect \/ SwitchFocus
             \/ \E k \in Keys \cup {NoKey} : Remap(k)
             \/ \E k \in Keys : Press(k) \/ Release(k)
    BY <2>1, <2>4, WorldKeeps
  <2>5. QED
    BY <1>1, <2>2, <2>3, <2>4 DEF HNext, NextWithPerson
<1>2. CASE UNCHANGED hvars
  BY <1>2 DEF hvars, vars, modeVars, pluginVars, worldVars, histVars, CompanionInv, CTypeOK,
       OneMarker, SettledInv
<1>3. QED
  BY <1>1, <1>2

(* The inductive invariant holds in every reachable state. *)
THEOREM CompanionInvAlways == HSpec => []CompanionInv
<1>1. QED
  BY CompanionInvInit, CompanionInvStep, PTL DEF HSpec

----------------------------------------------------------------------------
(* What the runs check on a small instance.                                *)

(* The plugin's state, its configuration and the names stay of their type: *)
(* the key is always one the keyboard has (main.cpp 42-70).                *)
THEOREM CompanionTypeCorrect == HSpec => []CTypeOK
<1>1. CompanionInv => CTypeOK
  BY DEF CompanionInv
<1>2. QED
  BY <1>1, CompanionInvAlways, PTL

(* No displayed or saved name ever carries two markers, and the name the   *)
(* plugin remembers carries none (encounter_toggle.cpp 77-81, 95).         *)
THEOREM OneMarkerAlways == HSpec => []OneMarker
<1>1. CompanionInv => OneMarker
  BY DEF CompanionInv
<1>2. QED
  BY <1>1, CompanionInvAlways, PTL

(* Name, overlay and encounter flags say the same once settled             *)
(* (encounter_toggle.cpp 93-106).                                          *)
THEOREM SignalsAgreeAlways == HSpec => []SignalsAgree
<1>1. CompanionInv => SignalsAgree
  BY MarkedName DEF CompanionInv, CTypeOK, SettledInv, SignalsAgree
<1>2. QED
  BY <1>1, CompanionInvAlways, PTL

(* Back in MP the player has the character's own name                      *)
(* (encounter_toggle.cpp 54-96).                                           *)
THEOREM NameReturnsAlways == HSpec => []NameReturns
<1>1. ASSUME CompanionInv, settled, mode = 0, original.who = person
      PROVE  character = [who |-> person, tail |-> <<>>]
  <2>1. original \in Names /\ original.tail = <<>> /\ character = WithMarker(original, 0)
    BY <1>1 DEF CompanionInv, SettledInv
  <2>2. character \in Names /\ character.who = original.who /\ character.tail = <<>>
    BY <2>1, MarkedName DEF Modes, Marker
  <2>3. QED
    BY <1>1, <2>2, NameFields
<1>2. CompanionInv => NameReturns
  BY <1>1 DEF NameReturns
<1>3. QED
  BY <1>2, CompanionInvAlways, PTL

----------------------------------------------------------------------------
(* What names signal.                                                      *)

(* A name whose tail is a mode's marker signals that mode. *)
LEMMA SignalOfMarker ==
  ASSUME NEW n \in Names, NEW m \in Modes, n.tail = Marker(m)
  PROVE  Signal(n) = m /\ m # Nobody
<1>1. n # Nobody /\ m # Nobody
  BY NobodyAssumption DEF Modes
<1>2. <<"HB">> # <<>> /\ <<"SP">> # <<>> /\ <<"HB">> # <<"SP">>
  OBVIOUS
<1>3. CASE m = 0
  BY <1>1, <1>3 DEF Signal, Marker
<1>4. CASE m = 1
  <2>1. n.tail = <<"HB">>
    BY <1>4 DEF Marker
  <2>2. QED
    BY <1>1, <1>2, <1>4, <2>1 DEF Signal
<1>5. CASE m = 2
  <2>1. n.tail = <<"SP">>
    BY <1>5 DEF Marker
  <2>2. QED
    BY <1>1, <1>2, <1>5, <2>1 DEF Signal
<1>6. QED
  BY <1>1, <1>3, <1>4, <1>5 DEF Modes

(* A name with at most one marker signals nothing only if it is Nobody's. *)
LEMMA SignalAbsent ==
  ASSUME NEW n \in Names \cup {Nobody}
  PROVE  (Signal(n) = Nobody) <=> (n = Nobody)
BY NobodyAssumption DEF Signal

----------------------------------------------------------------------------
(* Initial states and steps.                                               *)

(* Before the first frame nobody is shown, nothing is saved. *)
LEMMA RefineInit == HInit => Signals!SignalsInit
BY DEF HInit, Init, Signals!SignalsInit, Signal

(* The handler of the key is a toggle. *)
LEMMA RefineToggle ==
  ASSUME CompanionInv, OnToggleMultiplayerKey, saved' = saved
  PROVE  Signals!SignalsStep
<1> DEFINE m == (mode + 1) % 3
           n == Captured
<1>1. m \in Modes /\ mode' = m
  BY ModeTurns DEF CompanionInv, CTypeOK, OnToggleMultiplayerKey
<1>2. WithMarker(n, m) \in Names /\ WithMarker(n, m).tail = Marker(m)
  BY <1>1, CapturedIsBare, MarkedName
<1>3. Signal(WithMarker(n, m)) = m
  BY <1>1, <1>2, SignalOfMarker
<1>4. character' = IF console /\ character # Nobody THEN WithMarker(n, m) ELSE character
  BY DEF OnToggleMultiplayerKey
<1>5. character \in Names \cup {Nobody}
  BY DEF CompanionInv, CTypeOK
<1> HIDE DEF n
<1>6. Signals!Toggle(Me)
  <2>1. CASE console /\ character # Nobody
    <3>1. Signal(character) # Nobody /\ Signal(character)' = m
      BY <1>3, <1>4, <1>5, <2>1, SignalAbsent
    <3>2. QED
      BY <1>1, <3>1 DEF Signals!Toggle
  <2>2. CASE ~(console /\ character # Nobody)
    <3>1. character' = character
      BY <1>4, <2>2
    <3>2. QED
      BY <1>1, <3>1 DEF Signals!Toggle
  <2>3. QED
    BY <2>1, <2>2
<1>7. QED
  BY <1>6 DEF Signals!SignalsStep

(* What a step of the world does to the names, a step of ClientSignals may *)
(* do, or it does nothing to them.                                         *)
LEMMA RefineWorld ==
  ASSUME CompanionInv, NextWithPerson, ~PluginStep
  PROVE  Signals!SignalsStep \/ UNCHANGED Signals!clientVars
<1>1. character \in Names \cup {Nobody} /\ saved \in Names \cup {Nobody}
  BY DEF CompanionInv, CTypeOK
<1>2. ASSUME NEW p \in People, NewCharacter(p)
      PROVE  Signals!NewCharacter(Me)
  <2>1. character' = [who |-> p, tail |-> <<>>] /\ character' \in Names
    BY <1>2 DEF NewCharacter, Names
  <2>2. Signal(character)' = 0
    BY <2>1, NobodyAssumption DEF Signal
  <2>3. QED
    BY <1>2, <2>2 DEF NewCharacter, worldVars, Signals!NewCharacter
<1>3. CASE LoadGame
  <2>1. Signals!LoadGame(Me)
    BY <1>1, <1>3, SignalAbsent DEF LoadGame, worldVars, Signals!LoadGame
  <2>2. QED
    BY <2>1 DEF Signals!SignalsStep
<1>4. CASE SaveGame
  <2>1. Signals!SaveGame(Me)
    BY <1>1, <1>4, SignalAbsent DEF SaveGame, modeVars, Signals!SaveGame
  <2>2. QED
    BY <2>1 DEF Signals!SignalsStep
<1>5. CASE Restart
  <2>1. character' = Nobody /\ mode' = 0 /\ saved' = saved
    BY <1>5 DEF Restart, Fresh
  <2>2. Signal(character)' = Nobody
    BY <2>1 DEF Signal
  <2>3. Signals!Restart(Me)
    BY <2>1, <2>2 DEF Signals!Restart
  <2>4. QED
    BY <2>3 DEF Signals!SignalsStep
<1>6. CASE \/ LoadClient \/ Connect \/ Disconnect \/ SwitchFocus
           \/ \E k \in Keys \cup {NoKey} : Remap(k)
           \/ \E k \in Keys : Press(k) \/ Release(k)
  <2>1. mode' = mode /\ character' = character /\ saved' = saved
    BY <1>6 DEF LoadClient, Connect, Disconnect, SwitchFocus, Remap, Press, Release, modeVars
  <2>2. QED
    BY <2>1 DEF Signals!clientVars
<1>7. QED
  BY <1>2, <1>3, <1>4, <1>5, <1>6 DEF NextWithPerson, Signals!SignalsStep

(* Every step of the game is a step of ClientSignals or leaves it alone. *)
LEMMA RefineStep ==
  CompanionInv /\ [HNext]_hvars => [Signals!SignalsStep]_(Signals!clientVars)
<1> SUFFICES ASSUME CompanionInv, [HNext]_hvars
             PROVE  Signals!SignalsStep \/ UNCHANGED Signals!clientVars
  OBVIOUS
<1>1. CASE FrameInitialize
  BY <1>1 DEF FrameInitialize, modeVars, worldVars, Signals!clientVars
<1>2. ASSUME NEW due \in BOOLEAN, Frame(due)
      PROVE  Signals!SignalsStep \/ UNCHANGED Signals!clientVars
  <2>1. saved' = saved
    BY <1>2 DEF Frame, worldVars
  <2>2. CASE UNCHANGED modeVars
    BY <2>1, <2>2 DEF modeVars, Signals!clientVars
  <2>3. CASE OnToggleMultiplayerKey
    BY <2>1, <2>3, RefineToggle
  <2>4. QED
    BY <1>2, <2>2, <2>3 DEF Frame
<1>3. CASE HNext /\ ~PluginStep
  BY <1>3, RefineWorld DEF HNext
<1>4. CASE UNCHANGED hvars
  BY <1>4 DEF hvars, vars, modeVars, worldVars, Signals!clientVars
<1>5. QED
  BY <1>1, <1>2, <1>3, <1>4 DEF HNext, PluginStep

(* The plugin and its game implement ClientSignals: a name only ever comes *)
(* to show the mode just chosen, the saved one, or none                    *)
(* (encounter_toggle.cpp 50-96).                                           *)
THEOREM CompanionImplementsSignals == HSpec => ImplementsSignals
<1>1. QED
  BY RefineInit, RefineStep, CompanionInvAlways, PTL DEF HSpec, ImplementsSignals, Signals!SignalsSpec

----------------------------------------------------------------------------
(* One press, one toggle.                                                  *)

\* A key that has been used up is the toggle key, is still held down, and the
\* last frame has seen it.
SpentInv == CTypeOK /\ spent \subseteq down /\ (spent # {} => spent = {toggleKey} /\ prevToggle)

(* At the start no key has been used. *)
LEMMA SpentInit == HInit => SpentInv
BY CompanionInvInit DEF HInit, SpentInv, CompanionInv

(* A toggle is a frame that sees the edge of the key. *)
LEMMA ToggledIsEdge ==
  ASSUME CTypeOK, Toggled
  PROVE  ~prevToggle /\ prevToggle' /\ toggleKey' \in down /\ down' = down
<1>1. mode' # mode
  BY ModeTurns DEF CTypeOK, Toggled
<1>2. PICK due \in BOOLEAN : Frame(due)
  BY <1>1 DEF Toggled, PluginStep, FrameInitialize, modeVars
<1>3. prevToggle' = (toggleKey' \in down) /\ down' = down
  BY <1>2 DEF Frame, worldVars
<1>4. prevToggle' /\ ~prevToggle
  BY <1>1, <1>2 DEF Frame, modeVars
<1>5. QED
  BY <1>3, <1>4

(* No step but a frame or a restart takes back what the frame has seen. *)
LEMMA SpentStep ==
  ASSUME SpentInv, HNext, CTypeOK'
  PROVE  SpentInv'
<1>1. CASE Toggled
  <2>1. prevToggle' /\ toggleKey' \in down /\ down' = down
    BY <1>1, ToggledIsEdge DEF SpentInv
  <2>2. spent' \subseteq {toggleKey'}
    BY <1>1 DEF HNext, Record, SpentInv
  <2>3. toggleKey' \in spent'
    BY <1>1 DEF HNext, Record
  <2>4. QED
    BY <2>1, <2>2, <2>3 DEF SpentInv
<1>2. CASE ~Toggled
  <2>1. spent' = IF toggleKey' # toggleKey \/ Restart THEN {} ELSE spent \cap down'
    BY <1>2 DEF HNext, Record
  <2>2. CASE spent' = {}
    BY <2>2 DEF SpentInv
  <2>3. CASE spent' # {}
    <3>1. toggleKey' = toggleKey /\ ~Restart /\ spent' = spent \cap down'
      BY <2>1, <2>3
    <3>2. spent = {toggleKey} /\ prevToggle /\ toggleKey \in down
      BY <2>3, <3>1 DEF SpentInv
    <3>3. spent' = {toggleKey'}
      BY <2>3, <3>1, <3>2
    <3>4. prevToggle'
      <4>1. ASSUME NEW due \in BOOLEAN, Frame(due)
            PROVE  prevToggle'
        <5>1. prevToggle' = (toggleKey' \in down)
          BY <4>1 DEF Frame
        <5>2. QED
          BY <3>1, <3>2, <5>1
      <4>2. CASE ~(\E due \in BOOLEAN : Frame(due))
        BY <3>1, <3>2, <4>2 DEF HNext, NextWithPerson, PluginStep, FrameInitialize, LoadClient,
           SaveGame, LoadGame, Connect, Disconnect, SwitchFocus, Remap, Press, Release,
           NewCharacter, pluginVars
      <4>3. QED
        BY <4>1, <4>2
    <3>5. spent' \subseteq down'
      BY <3>1
    <3>6. QED
      BY <3>3, <3>4, <3>5 DEF SpentInv
  <2>4. QED
    BY <2>2, <2>3
<1>3. QED
  BY <1>1, <1>2

(* One press is one toggle, whatever happens to the focus while the key is *)
(* held down (companion main.cpp 93-116).                                  *)
THEOREM OneTogglePerPressAlways == HSpec => OneTogglePerPress
<1>1. SpentInv /\ CTypeOK' /\ [HNext]_hvars => SpentInv'
  <2>1. CASE UNCHANGED hvars
    BY <2>1 DEF hvars, vars, pluginVars, worldVars, histVars, SpentInv
  <2>2. QED
    BY <2>1, SpentStep
<1>2. SpentInv => (Toggled => toggleKey' \notin spent \/ toggleKey' # toggleKey)
  BY ToggledIsEdge DEF SpentInv
<1>3. QED
  BY <1>1, <1>2, SpentInit, CompanionTypeCorrect, PTL DEF HSpec, OneTogglePerPress

=============================================================================
