---------------------------- MODULE CoopSession ----------------------------
(***************************************************************************)
(* A session as a whole, from the key to the tables: players' clients      *)
(* (ClientSignals, which the plugin implements), the names on their way to *)
(* the server, the list of characters, and the scan thread.                *)
(*                                                                         *)
(* NV:MP, which is not part of this repository, replicates a name after it *)
(* has changed, at some later time; names in between may be skipped.  A    *)
(* client keeps its address in the server until it leaves or, if its game  *)
(* ended, is dropped.                                                      *)
(***************************************************************************)
EXTENDS ScanThread, ClientSignals

CONSTANT MaxMoves  \* bound: toggles and restarts of all clients

VARIABLES
  seat,    \* the address of each client's character in the server, or Null
  moves,   \* toggles and restarts so far
  chosen,  \* history: the markers of the modes each player has toggled to
  asked    \* history: the markers chosen by whoever has been at an address

sessionVars == <<seat, moves, chosen, asked>>
svars == <<listVars, scanVars, clientVars, sessionVars>>

Seated(c) == seat[c] # Null

\* The markers in a name that shows mode m.
MarkersOf(m) == IF m = 1 THEN {"HB"} ELSE IF m = 2 THEN {"SP"} ELSE {}

SessionTypeOK ==
  /\ ListTypeOK /\ ScanTypeOK /\ SignalsTypeOK
  /\ seat \in [Clients -> Players \cup {Null}]
  /\ linked = {seat[c] : c \in Clients} \ {Null}
  /\ \A c, d \in Clients : Seated(c) /\ seat[c] = seat[d] => c = d
  /\ chosen \in [Clients -> SUBSET Markers] /\ asked \in [Players -> SUBSET Markers]

SInit ==
  /\ ListInit /\ ScanInit /\ SignalsInit
  /\ seat = [c \in Clients |-> Null]
  /\ moves = 0
  /\ chosen = [c \in Clients |-> {}]
  /\ asked = [p \in Players |-> {}]

----------------------------------------------------------------------------
(* A client's own step. *)
Play(c) ==
  /\ \/ /\ Toggle(c) \/ Restart(c)
        /\ moves < MaxMoves /\ moves' = moves + 1
     \/ /\ NewCharacter(c) \/ SaveGame(c) \/ LoadGame(c)
        /\ UNCHANGED moves
  /\ chosen' = [chosen EXCEPT ![c] = @ \cup IF mode'[c] = mode[c] THEN {} ELSE MarkersOf(mode'[c])]
  /\ UNCHANGED <<seat, listVars, scanVars>>

(* A client joins with the name it has. *)
Join(c, p, before) ==
  /\ ~Seated(c) /\ shown[c] # Absent
  /\ Connect(p, before, MarkersOf(shown[c]))
  /\ seat' = [seat EXCEPT ![c] = p]
  /\ UNCHANGED <<moves, chosen, clientVars, scanVars>>

(* A client leaves, or is dropped after its game has ended. *)
Leave(c, before) ==
  /\ Disconnect(seat[c], before)
  /\ seat' = [seat EXCEPT ![c] = Null]
  /\ UNCHANGED <<moves, chosen, clientVars, scanVars>>

(* The present name of a client's character reaches the server. *)
Replicate(c) ==
  /\ Seated(c) /\ shown[c] # Absent
  /\ tags[seat[c]] # MarkersOf(shown[c])
  /\ tags' = [tags EXCEPT ![seat[c]] = MarkersOf(shown[c])]
  /\ UNCHANGED <<next, linked, events, seat, moves, chosen, clientVars, scanVars>>

Scan == ScanStep /\ UNCHANGED <<listVars, clientVars, seat, moves, chosen>>

Record ==
  asked' = [p \in Players |->
              asked[p] \cup UNION {chosen'[c] : c \in {d \in Clients : seat'[d] = p}}]

SNext ==
  /\ \/ Scan
     \/ \E c \in Clients :
          \/ Play(c) \/ Replicate(c)
          \/ \E before \in Players \cup {Sentinel} :
               Leave(c, before) \/ \E p \in Players : Join(c, p, before)
  /\ Record

SSpec == SInit /\ [][SNext]_svars

(* The scan thread is scheduled, and a name that stays is replicated. *)
SFairSpec ==
  SSpec /\ WF_svars(Scan /\ Record) /\ \A c \in Clients : WF_svars(Replicate(c) /\ Record)

----------------------------------------------------------------------------
(* The server restricts nobody in a mode that nobody there has chosen: an  *)
(* address is tracked as SP (HB) only if some player who was there toggled *)
(* to that mode, in this process or in one whose name a saved game kept.   *)
NoUnaskedMode ==
  /\ \A p \in Tracked(sp) : "SP" \in asked[p]
  /\ \A p \in Tracked(hb) : "HB" \in asked[p]

(* What a player's name shows comes into force: once the player stays and  *)
(* leaves the mode alone, the server tracks the character in that mode and *)
(* in no other for good - unless every later scan faults on freed memory   *)
(* or the table of the mode is full (main.cpp 171-236).                    *)
ModeTakesEffect ==
  \A c \in Clients, p \in Players :
    /\ <>[](seat[c] = p /\ shown[c] = 2) =>
         KeepsFaulting \/ []<>Crowded(newSP, p) \/ <>[](p \in Tracked(sp))
    /\ <>[](seat[c] = p /\ shown[c] = 1) =>
         KeepsFaulting \/ []<>Crowded(newHB, p) \/ <>[](p \in Tracked(hb) \ Tracked(sp))
    /\ <>[](seat[c] = p /\ shown[c] = 0) =>
         KeepsFaulting \/ <>[](p \notin Tracked(sp) \cup Tracked(hb))

=============================================================================
