----------------------------- MODULE Companion -----------------------------
(***************************************************************************)
(* The client plugin nvmp_companion.dll inside one player's game           *)
(* (nvmp_companion/src/main.cpp, encounter_toggle.cpp, nvmp_state.cpp,     *)
(* party_hud.cpp).  The plugin runs on the game's main loop, one           *)
(* UpdateCompanion per frame, so a frame is one step.  Between frames      *)
(* anything around it may change: the keyboard, the focus, the INI file,   *)
(* the character that is loaded, the session, the process itself.          *)
(*                                                                         *)
(* A name is who it names and the mode markers behind that, in order.      *)
(* The INI file and the saved game survive the process; nothing else does. *)
(* The 2000 ms between two reads of the INI file are left to chance, and   *)
(* log, console messages and beeps are left out.                           *)
(***************************************************************************)
EXTENDS Naturals, Sequences

CONSTANTS
  People,    \* the names characters are created with
  Readable,  \* those of them that ReadPlayerName or its fallback accepts
  Fallback,  \* the name "Player"
  Nobody,    \* no name, or no character loaded
  Keys,      \* virtual keys
  F9,        \* the default toggle key
  NoKey      \* a scan code out of range, or one MapVirtualKey does not know

Markers == {"SP", "HB"}

ASSUME NameAssumption ==
  /\ Readable \subseteq People
  /\ Fallback \notin People
  /\ Nobody \notin People \cup {Fallback}

ASSUME KeyAssumption == F9 \in Keys /\ NoKey \notin Keys

VARIABLES
  \* the plugin
  initialized,  \* g_stateInitialized and m_initialized
  mode,         \* s_mode: 0 = MP, 1 = HB, 2 = SP
  original,     \* s_originalName
  overlay,      \* s_overlayText
  sites,        \* the two places of client.dll the plugin patches
  toggleKey,    \* g_toggleKey
  prevToggle,   \* s_prevToggle
  \* the game around it
  clientDll,    \* client.dll is loaded
  console,      \* the console interface was found
  character,    \* the displayed name of the loaded character
  saved,        \* the displayed name in the saved game
  connected,    \* the manager global of client.dll is set
  encounters,   \* the encounter types whose flags are on
  ini,          \* the key behind iToggleKey in the INI file
  focused,      \* the game has the foreground window
  down          \* the keys that are held down

modeVars == <<mode, original, overlay, character, encounters>>
pluginVars == <<initialized, sites, toggleKey, prevToggle>>
worldVars == <<clientDll, console, saved, connected, ini, focused, down>>
vars == <<modeVars, pluginVars, worldVars>>

Modes == 0 .. 2
EncounterTypes == {"actors", "references", "doors"}
Names == [who : People \cup {Fallback}, tail : Seq(Markers)]

ASSUME NobodyAssumption == Nobody \notin Names \cup Nat

CTypeOK ==
  /\ initialized \in BOOLEAN /\ mode \in Modes
  /\ original \in Names \cup {Nobody}
  /\ overlay \in [who : People \cup {Fallback, Nobody}, mode : Modes]
  /\ sites \in [{"damage", "overlay"} -> {"original", "patched", "foreign"}]
  /\ toggleKey \in Keys /\ prevToggle \in BOOLEAN
  /\ clientDll \in BOOLEAN /\ console \in BOOLEAN
  /\ character \in Names \cup {Nobody} /\ saved \in Names \cup {Nobody}
  /\ connected \in BOOLEAN /\ encounters \subseteq EncounterTypes
  /\ ini \in Keys \cup {NoKey} /\ focused \in BOOLEAN /\ down \subseteq Keys

----------------------------------------------------------------------------
(* Names and texts.                                                        *)

Marker(m) == CASE m = 0 -> <<>> [] m = 1 -> <<"HB">> [] m = 2 -> <<"SP">>

\* `*strstr(name, marker) = '\0'`: the name ends where the marker first occurs.
CutAt(tail, marker) ==
  IF \E i \in DOMAIN tail : tail[i] = marker
    THEN SubSeq(tail, 1, (CHOOSE i \in DOMAIN tail :
                            tail[i] = marker /\ \A j \in 1 .. i - 1 : tail[j] # marker) - 1)
    ELSE tail

\* Mutant of Stripped: only the [SP] marker of a saved game is removed.
StrippedSPOnly(n) == [n EXCEPT !.tail = CutAt(n.tail, "SP")]

Stripped(n) == [n EXCEPT !.tail = CutAt(CutAt(n.tail, "SP"), "HB")]

\* Mutant of Captured: the markers of a saved game are not stripped.
CapturedUnstripped ==
  IF original # Nobody THEN original
  ELSE IF character # Nobody /\ character.who \in Readable \cup {Fallback}
    THEN character
    ELSE [who |-> Fallback, tail |-> <<>>]

\* The name every later SetName is built from.  It is read on the first toggle
\* only, and whatever was found then is kept for the life of the process.
Captured ==
  IF original # Nobody THEN original
  ELSE IF character # Nobody /\ character.who \in Readable \cup {Fallback}
    THEN Stripped(character)
    ELSE [who |-> Fallback, tail |-> <<>>]

WithMarker(n, m) == [n EXCEPT !.tail = n.tail \o Marker(m)]

\* s_overlayText is " | name | mode" after the one and " | mode" after the other.
SetOverlayText(text, n, m) == [text EXCEPT !.who = n.who, !.mode = m]
UpdateModeIndicator(text, m) == [text EXCEPT !.who = Nobody, !.mode = m]

----------------------------------------------------------------------------
(* The plugin.                                                             *)

\* NVSEPlugin_Load in a new process, before the first frame.
Fresh ==
  /\ initialized' = FALSE /\ mode' = 0 /\ original' = Nobody
  /\ overlay' = [who |-> Nobody, mode |-> 0]
  /\ sites' \in [{"damage", "overlay"} -> {"original", "foreign"}]
  /\ toggleKey' = IF ini # NoKey THEN ini ELSE F9
  /\ prevToggle' = FALSE
  /\ console' \in BOOLEAN

Patch(site) == [sites EXCEPT ![site] = IF @ = "original" THEN "patched" ELSE @]

(* NVMPState::Initialize, on the first frame that finds client.dll. *)
FrameInitialize ==
  /\ clientDll /\ ~initialized
  /\ initialized' = TRUE
  /\ sites' = Patch("damage")
  /\ UNCHANGED <<modeVars, toggleKey, prevToggle, worldVars>>

\* Mutant of OnToggleMultiplayerKey: the flags follow the mode that is left.
OnToggleStaleFlags ==
  LET m == (mode + 1) % 3
      n == Captured
  IN  /\ mode' = m
      /\ original' = n
      /\ character' = IF console /\ character # Nobody THEN WithMarker(n, m) ELSE character
      /\ encounters' = IF connected THEN (IF mode = 0 THEN EncounterTypes ELSE {}) ELSE encounters
      /\ overlay' = UpdateModeIndicator(SetOverlayText(overlay, n, m), m)

(* OnToggleMultiplayerKey: the whole handler of the key. *)
OnToggleMultiplayerKey ==
  LET m == (mode + 1) % 3
      n == Captured
  IN  /\ mode' = m
      /\ original' = n
      /\ character' = IF console /\ character # Nobody THEN WithMarker(n, m) ELSE character
      /\ encounters' = IF connected THEN (IF m = 0 THEN EncounterTypes ELSE {}) ELSE encounters
      /\ overlay' = UpdateModeIndicator(SetOverlayText(overlay, n, m), m)

\* Mutants of RefreshConfig: `vk > 0` is not asked; the INI file is never read again.
RefreshConfigUnchecked(due) == toggleKey' = IF due THEN ini ELSE toggleKey
RefreshConfigNever(due) == toggleKey' = toggleKey

\* RefreshConfig, at a frame at which two seconds have passed or not.
RefreshConfig(due) ==
  toggleKey' = IF due /\ ini # NoKey THEN ini ELSE toggleKey

\* Mutant of Frame: after a frame that saw the key down, the next one forgets it.
FrameForgetful(due) ==
  /\ initialized /\ focused
  /\ RefreshConfig(due)
  /\ sites' = Patch("overlay")
  /\ prevToggle' = (toggleKey' \in down /\ ~prevToggle)
  /\ IF prevToggle' THEN OnToggleMultiplayerKey ELSE UNCHANGED modeVars
  /\ UNCHANGED <<initialized, worldVars>>

(* A frame of the focused game: config, overlay hook, then the key's edge. *)
Frame(due) ==
  /\ initialized /\ focused
  /\ RefreshConfig(due)
  /\ sites' = Patch("overlay")
  /\ prevToggle' = (toggleKey' \in down)
  /\ IF prevToggle' /\ ~prevToggle THEN OnToggleMultiplayerKey ELSE UNCHANGED modeVars
  /\ UNCHANGED <<initialized, worldVars>>

----------------------------------------------------------------------------
(* The game, the session and the player.                                   *)

Init ==
  /\ initialized = FALSE /\ mode = 0 /\ original = Nobody
  /\ overlay = [who |-> Nobody, mode |-> 0]
  /\ sites \in [{"damage", "overlay"} -> {"original", "foreign"}]
  /\ toggleKey = F9 /\ prevToggle = FALSE
  /\ clientDll = FALSE /\ console \in BOOLEAN
  /\ character = Nobody /\ saved = Nobody
  /\ connected = FALSE /\ encounters = EncounterTypes
  /\ ini = F9 /\ focused = TRUE /\ down = {}

(* The process ends, or crashes, and the game is started again. *)
Restart ==
  /\ Fresh
  /\ clientDll' = FALSE /\ character' = Nobody
  /\ connected' = FALSE /\ encounters' = EncounterTypes
  /\ UNCHANGED <<saved, ini, focused, down>>

LoadClient ==
  /\ ~clientDll
  /\ clientDll' = TRUE
  /\ UNCHANGED <<modeVars, pluginVars, console, saved, connected, ini, focused, down>>

NewCharacter(p) ==
  /\ character' = [who |-> p, tail |-> <<>>]
  /\ UNCHANGED <<mode, original, overlay, encounters, pluginVars, worldVars>>

(* SetName changed the character, so the marker goes into the saved game. *)
SaveGame ==
  /\ character # Nobody
  /\ saved' = character
  /\ UNCHANGED <<modeVars, pluginVars, clientDll, console, connected, ini, focused, down>>

LoadGame ==
  /\ saved # Nobody
  /\ character' = saved
  /\ UNCHANGED <<mode, original, overlay, encounters, pluginVars, worldVars>>

(* A new session starts with every encounter type synchronised. *)
Connect ==
  /\ clientDll /\ ~connected
  /\ connected' = TRUE
  /\ encounters' = EncounterTypes
  /\ UNCHANGED <<mode, original, overlay, character, pluginVars,
                 clientDll, console, saved, ini, focused, down>>

Disconnect ==
  /\ connected
  /\ connected' = FALSE
  /\ UNCHANGED <<modeVars, pluginVars, clientDll, console, saved, ini, focused, down>>

Remap(k) ==
  /\ ini' = k
  /\ UNCHANGED <<modeVars, pluginVars, clientDll, console, saved, connected, focused, down>>

SwitchFocus ==
  /\ focused' = ~focused
  /\ UNCHANGED <<modeVars, pluginVars, clientDll, console, saved, connected, ini, down>>

Press(k) ==
  /\ down' = down \cup {k}
  /\ UNCHANGED <<modeVars, pluginVars, clientDll, console, saved, connected, ini, focused>>

Release(k) ==
  /\ down' = down \ {k}
  /\ UNCHANGED <<modeVars, pluginVars, clientDll, console, saved, connected, ini, focused>>

WorldStep ==
  \/ Restart \/ LoadClient \/ SaveGame \/ LoadGame \/ Connect \/ Disconnect \/ SwitchFocus
  \/ \E p \in People : NewCharacter(p)
  \/ \E k \in Keys \cup {NoKey} : Remap(k)
  \/ \E k \in Keys : Press(k) \/ Release(k)

PluginStep == FrameInitialize \/ \E due \in BOOLEAN : Frame(due)

Next == WorldStep \/ PluginStep

Spec == Init /\ [][Next]_vars

=============================================================================
