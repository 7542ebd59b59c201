------------------------- MODULE CoopSessionProofs -------------------------
(***************************************************************************)
(* Theorems of SSpec, the session, for any number of clients and addresses *)
(* and any length.  A marker travels from the key to the tables over a     *)
(* name, a saved game, a replication, a reused address and a torn table;   *)
(* at each place it is one that somebody chose (AskedInv).                 *)
(***************************************************************************)
EXTENDS CoopSession, ScanThreadProofs

\* Seats are the connected addresses, one client each.
SeatInv ==
  /\ seat \in [Clients -> Players \cup {Null}]
  /\ linked = {seat[c] : c \in Clients} \ {Null}
  /\ \A c, d \in Clients : Seated(c) /\ seat[c] = seat[d] => c = d

HistoryTypeOK == chosen \in [Clients -> SUBSET Markers] /\ asked \in [Players -> SUBSET Markers]

\* What a client's name shows, or will after loading a game, was chosen; what was
\* chosen at an address is recorded there.
ChosenInv ==
  /\ \A c \in Clients : MarkersOf(shown[c]) \cup MarkersOf(stored[c]) \subseteq chosen[c]
  /\ \A c \in Clients : Seated(c) => chosen[c] \subseteq asked[seat[c]]

AskedInv == ChosenInv /\ Backed(asked)

SessionInv == SessionTypeOK /\ AskedInv

(* The type invariant is the conjunction of its parts.                     *)
LEMMA SessionTypeParts ==
  SessionTypeOK <=> ListTypeOK /\ ScanTypeOK /\ SignalsTypeOK /\ SeatInv /\ HistoryTypeOK
BY DEF SessionTypeOK, SeatInv, HistoryTypeOK

(* A name shows markers only.                                              *)
LEMMA MarkersOfType == \A m : MarkersOf(m) \in SUBSET Markers
BY DEF MarkersOf, Markers

(* Every first state is in the invariant.                                  *)
LEMMA SessionInit == SInit => SessionInv
<1> SUFFICES ASSUME SInit PROVE SessionInv
    OBVIOUS
<1> USE DEF SInit
<1>1. ListTypeOK /\ SignalsTypeOK /\ HistoryTypeOK
  BY DEF ListInit, ListTypeOK, SignalsInit, SignalsTypeOK, Modes, HistoryTypeOK
<1>2. ScanTypeOK
  BY EmptyIsTable, ScanAssumption DEF ScanInit, ScanTypeOK, ScanPcs
<1>3. SeatInv
  BY DEF SeatInv, Seated, ListInit
<1>4. ChosenInv
  BY AbsentAssumption DEF ChosenInv, SignalsInit, MarkersOf, Seated, Modes
<1>5. Backed(asked)
  BY AddressesAssumption DEF Backed, BackedTable, EmptyTable, ScanInit, ListInit
<1>6. QED
  BY <1>1, <1>2, <1>3, <1>4, <1>5, SessionTypeParts DEF SessionInv, AskedInv

(* What was asked for at an address stays asked for, and a client's choice *)
(* is recorded where the client is.                                        *)
LEMMA RecordGrows ==
  ASSUME SessionTypeOK, Record, seat' \in [Clients -> Players \cup {Null}],
         chosen' \in [Clients -> SUBSET Markers]
  PROVE  /\ asked' \in [Players -> SUBSET Markers]
         /\ \A p \in Players : asked[p] \subseteq asked'[p]
         /\ \A c \in Clients : seat'[c] \in Players => chosen'[c] \subseteq asked'[seat'[c]]
BY DEF Record, SessionTypeOK

(* A client's own step: a name shows the mode just chosen, one a saved     *)
(* game has kept, or none.                                                 *)
LEMMA PlayKeepsChosen ==
  ASSUME SessionInv, NEW c \in Clients, Play(c)
  PROVE  /\ SignalsTypeOK'
         /\ chosen' \in [Clients -> SUBSET Markers]
         /\ \A d \in Clients : MarkersOf(shown'[d]) \cup MarkersOf(stored'[d]) \subseteq chosen'[d]
<1> USE DEF SessionInv, SessionTypeOK, SignalsTypeOK, AskedInv, ChosenInv
<1>1. chosen' = [chosen EXCEPT ![c] = @ \cup IF mode'[c] = mode[c] THEN {} ELSE MarkersOf(mode'[c])]
  BY DEF Play
<1>2. chosen' \in [Clients -> SUBSET Markers]
  BY <1>1, MarkersOfType
<1>3. /\ \A d \in Clients : chosen[d] \subseteq chosen'[d]
      /\ mode'[c] # mode[c] => MarkersOf(mode'[c]) \subseteq chosen'[c]
  BY <1>1
<1>4. MarkersOf(0) = {} /\ MarkersOf(Absent) = {}
  BY AbsentAssumption DEF MarkersOf, Modes
<1>5. CASE Toggle(c)
  <2>1. mode'[c] \in Modes /\ mode'[c] # mode[c] /\ mode' \in [Clients -> Modes]
    BY <1>5 DEF Toggle, Modes
  <2>2. /\ stored' = stored
        /\ shown' = shown \/ shown' = [shown EXCEPT ![c] = mode'[c]]
    BY <1>5 DEF Toggle
  <2>3. QED
    BY <1>2, <1>3, <2>1, <2>2
<1>6. CASE NewCharacter(c)
  BY <1>2, <1>3, <1>4, <1>6 DEF NewCharacter, Modes
<1>7. CASE SaveGame(c)
  BY <1>2, <1>3, <1>7 DEF SaveGame
<1>8. CASE LoadGame(c)
  BY <1>2, <1>3, <1>8 DEF LoadGame
<1>9. CASE Restart(c)
  BY <1>2, <1>3, <1>4, <1>9 DEF Restart, Modes
<1>10. QED
  BY <1>5, <1>6, <1>7, <1>8, <1>9 DEF Play

(* Only the scan thread changes the tables; what the others do to names    *)
(* and records leaves them backed.                                         *)
LEMMA OthersKeepBacked ==
  ASSUME SessionInv, UNCHANGED scanVars,
         \A p \in Players : asked[p] \subseteq asked'[p],
         \A p \in Players : tags'[p] \subseteq asked'[p]
  PROVE  Backed(asked)'
BY DEF SessionInv, SessionTypeOK, AskedInv, Backed, BackedTable, scanVars, walkVars, ScanTypeOK

(* A client that joins takes an address nobody has: seats and connected    *)
(* addresses stay the same thing.                                          *)
LEMMA JoinKeepsTypes ==
  ASSUME SessionTypeOK, NEW c \in Clients, NEW p \in Players,
         NEW before \in Players \cup {Sentinel}, Join(c, p, before)
  PROVE  ListTypeOK' /\ SeatInv'
<1> USE AddressesAssumption DEF Join, Connect
<1>1. ListTypeOK /\ SeatInv
  BY SessionTypeParts
<1>2. MarkersOf(shown[c]) \in SUBSET Markers
  BY MarkersOfType
<1>3. ListTypeOK'
  BY <1>1, <1>2 DEF ListTypeOK
<1>4. /\ seat' = [seat EXCEPT ![c] = p] /\ seat[c] = Null /\ p \notin linked
      /\ linked' = linked \cup {p} /\ p # Null
  BY DEF Seated
<1>5. seat' \in [Clients -> Players \cup {Null}]
  BY <1>1, <1>4 DEF SeatInv
<1>6. linked' = {seat'[d] : d \in Clients} \ {Null}
  <2>1. \A d \in Clients : seat'[d] = IF d = c THEN p ELSE seat[d]
    BY <1>1, <1>4 DEF SeatInv
  <2>2. QED
    BY <1>1, <1>4, <2>1 DEF SeatInv
<1>7. \A d, e \in Clients : seat'[d] # Null /\ seat'[d] = seat'[e] => d = e
  BY <1>1, <1>4 DEF SeatInv, Seated
<1>8. QED
  BY <1>3, <1>5, <1>6, <1>7 DEF SeatInv, Seated

(* The same for a client that leaves.                                      *)
LEMMA LeaveKeepsTypes ==
  ASSUME SessionTypeOK, NEW c \in Clients,
         NEW before \in Players \cup {Sentinel}, Leave(c, before)
  PROVE  ListTypeOK' /\ SeatInv'
<1> USE AddressesAssumption DEF Leave, Disconnect
<1>1. ListTypeOK /\ SeatInv
  BY SessionTypeParts
<1>2. ListTypeOK'
  BY <1>1 DEF ListTypeOK
<1>3. /\ seat' = [seat EXCEPT ![c] = Null] /\ seat[c] \in linked
      /\ linked' = linked \ {seat[c]}
  OBVIOUS
<1>4. seat' \in [Clients -> Players \cup {Null}]
  BY <1>1, <1>3 DEF SeatInv
<1>5. linked' = {seat'[d] : d \in Clients} \ {Null}
  <2>1. \A d \in Clients : seat'[d] = IF d = c THEN Null ELSE seat[d]
    BY <1>1, <1>3 DEF SeatInv
  <2>2. \A d \in Clients : d # c => seat[d] # seat[c]
    BY <1>1, <1>3 DEF SeatInv, Seated, ListTypeOK
  <2>3. QED
    BY <1>1, <1>3, <2>1, <2>2 DEF SeatInv
<1>6. \A d, e \in Clients : seat'[d] # Null /\ seat'[d] = seat'[e] => d = e
  BY <1>1, <1>3 DEF SeatInv, Seated
<1>7. QED
  BY <1>2, <1>4, <1>5, <1>6 DEF SeatInv, Seated

(* Every step preserves the invariant.                                     *)
LEMMA SessionStep == SessionInv /\ [SNext]_svars => SessionInv'
<1> SUFFICES ASSUME SessionInv, [SNext]_svars PROVE SessionInv'
    OBVIOUS
<1>1. /\ ListTypeOK /\ ScanTypeOK /\ SignalsTypeOK /\ SeatInv /\ HistoryTypeOK
      /\ SessionTypeOK /\ ChosenInv /\ Backed(asked)
  BY SessionTypeParts DEF SessionInv, AskedInv
<1>2. CASE UNCHANGED svars
  <2>1. UNCHANGED <<listVars, scanVars, clientVars, sessionVars>>
    BY <1>2 DEF svars
  <2>2. ListTypeOK' /\ ScanTypeOK' /\ SignalsTypeOK' /\ SeatInv' /\ HistoryTypeOK'
    BY <1>1, <2>1 DEF listVars, scanVars, walkVars, clientVars, sessionVars, ListTypeOK, ScanTypeOK,
                      SignalsTypeOK, SeatInv, Seated, HistoryTypeOK
  <2>3. ChosenInv' /\ Backed(asked)'
    BY <1>1, <2>1 DEF listVars, scanVars, walkVars, clientVars, sessionVars, ChosenInv, Seated,
                      Backed, BackedTable
  <2>4. QED
    BY <2>2, <2>3 DEF SessionInv, AskedInv, SessionTypeOK, SeatInv, HistoryTypeOK
<1>3. ASSUME Record, ListTypeOK', ScanTypeOK', SignalsTypeOK', SeatInv',
             chosen' \in [Clients -> SUBSET Markers],
             \A c \in Clients : MarkersOf(shown'[c]) \cup MarkersOf(stored'[c]) \subseteq chosen'[c],
             Backed(asked)'
      PROVE  SessionInv'
  <2>1. HistoryTypeOK' /\ \A c \in Clients : seat'[c] \in Players => chosen'[c] \subseteq asked'[seat'[c]]
    BY <1>1, <1>3, RecordGrows DEF SeatInv, HistoryTypeOK
  <2>2. ChosenInv'
    BY <1>3, <2>1 DEF ChosenInv, SeatInv, Seated
  <2>3. QED
    BY <1>3, <2>1, <2>2 DEF SessionInv, AskedInv, SessionTypeOK, SeatInv, HistoryTypeOK
<1>4. ASSUME Record, seat' \in [Clients -> Players \cup {Null}],
             chosen' \in [Clients -> SUBSET Markers]
      PROVE  \A p \in Players : asked[p] \subseteq asked'[p]
  BY <1>1, <1>4, RecordGrows
<1>5. CASE Scan /\ Record
  <2>1. /\ ScanStep /\ UNCHANGED <<next, linked, tags, events>>
        /\ UNCHANGED <<mode, shown, stored, seat, chosen>> /\ Record
    BY <1>5 DEF Scan, listVars, clientVars
  <2>2. ListTypeOK' /\ SignalsTypeOK' /\ SeatInv' /\ chosen' \in [Clients -> SUBSET Markers]
    BY <1>1, <2>1 DEF ListTypeOK, SignalsTypeOK, SeatInv, Seated, HistoryTypeOK
  <2>3. ScanTypeOK'
    BY <1>1, <2>1, ScanTypeStep
  <2>4. \A p \in Players : asked[p] \subseteq asked'[p]
    BY <1>4, <2>1, <2>2 DEF SeatInv
  <2>5. ASSUME NEW T, T = asked' PROVE Backed(T)'
    BY <1>1, <2>1, <2>4, <2>5, ScanKeepsBacked DEF listVars
  <2>6. Backed(asked)'
    BY <2>5 DEF Backed, BackedTable
  <2>7. QED
    BY <1>1, <1>3, <2>1, <2>2, <2>3, <2>6 DEF ChosenInv
<1>6. ASSUME NEW c \in Clients, Play(c), Record PROVE SessionInv'
  <2>1. UNCHANGED <<seat, next, linked, tags, events, scanVars>>
    BY <1>6 DEF Play, listVars
  <2>2. /\ SignalsTypeOK' /\ chosen' \in [Clients -> SUBSET Markers]
        /\ \A d \in Clients : MarkersOf(shown'[d]) \cup MarkersOf(stored'[d]) \subseteq chosen'[d]
    BY <1>6, PlayKeepsChosen
  <2>3. ListTypeOK' /\ SeatInv' /\ ScanTypeOK'
    BY <1>1, <2>1 DEF ListTypeOK, SeatInv, Seated, ScanTypeOK, scanVars, walkVars
  <2>4. \A p \in Players : asked[p] \subseteq asked'[p]
    BY <1>4, <1>6, <2>2, <2>3 DEF SeatInv
  <2>5. Backed(asked)'
    BY <1>1, <2>1, <2>4, OthersKeepBacked DEF Backed
  <2>6. QED
    BY <1>3, <1>6, <2>2, <2>3, <2>5
<1>7. ASSUME NEW c \in Clients, NEW p \in Players, NEW before \in Players \cup {Sentinel},
             Join(c, p, before), Record
      PROVE  SessionInv'
  <2>1. /\ UNCHANGED <<mode, shown, stored, chosen, scanVars>>
        /\ tags' = [tags EXCEPT ![p] = MarkersOf(shown[c])] /\ seat' = [seat EXCEPT ![c] = p]
    BY <1>7 DEF Join, Connect, clientVars
  <2>2. ListTypeOK' /\ SeatInv'
    BY <1>1, <1>7, JoinKeepsTypes
  <2>3. SignalsTypeOK' /\ ScanTypeOK' /\ chosen' \in [Clients -> SUBSET Markers]
    BY <1>1, <2>1 DEF SignalsTypeOK, ScanTypeOK, scanVars, walkVars, HistoryTypeOK
  <2>4. /\ \A q \in Players : asked[q] \subseteq asked'[q]
        /\ \A d \in Clients : seat'[d] \in Players => chosen'[d] \subseteq asked'[seat'[d]]
    BY <1>1, <1>7, <2>2, <2>3, RecordGrows DEF SeatInv
  <2>5. MarkersOf(shown[c]) \subseteq asked'[p]
    BY <1>1, <2>1, <2>4 DEF ChosenInv, SeatInv
  <2>6. \A q \in Players : tags'[q] \subseteq asked'[q]
    BY <1>1, <2>1, <2>4, <2>5 DEF Backed, ListTypeOK
  <2>7. Backed(asked)'
    BY <2>1, <2>4, <2>6, OthersKeepBacked
  <2>8. QED
    BY <1>1, <1>3, <1>7, <2>1, <2>2, <2>3, <2>7 DEF ChosenInv
<1>8. ASSUME NEW c \in Clients, NEW before \in Players \cup {Sentinel}, Leave(c, before), Record
      PROVE  SessionInv'
  <2>1. UNCHANGED <<mode, shown, stored, chosen, scanVars, tags>>
    BY <1>8 DEF Leave, Disconnect, clientVars
  <2>2. ListTypeOK' /\ SeatInv'
    BY <1>1, <1>8, LeaveKeepsTypes
  <2>3. SignalsTypeOK' /\ ScanTypeOK' /\ chosen' \in [Clients -> SUBSET Markers]
    BY <1>1, <2>1 DEF SignalsTypeOK, ScanTypeOK, scanVars, walkVars, HistoryTypeOK
  <2>4. \A p \in Players : asked[p] \subseteq asked'[p]
    BY <1>4, <1>8, <2>2, <2>3 DEF SeatInv
  <2>5. Backed(asked)'
    BY <1>1, <2>1, <2>4, OthersKeepBacked DEF Backed
  <2>6. QED
    BY <1>1, <1>3, <1>8, <2>1, <2>2, <2>3, <2>5 DEF ChosenInv
<1>9. ASSUME NEW c \in Clients, Replicate(c), Record PROVE SessionInv'
  <2>1. /\ UNCHANGED <<next, linked, events, seat, mode, shown, stored, chosen, scanVars>>
        /\ tags' = [tags EXCEPT ![seat[c]] = MarkersOf(shown[c])] /\ Seated(c)
    BY <1>9 DEF Replicate, clientVars
  <2>2. ListTypeOK' /\ SeatInv'
    BY <1>1, <2>1, MarkersOfType DEF ListTypeOK, SeatInv, Seated
  <2>3. SignalsTypeOK' /\ ScanTypeOK' /\ chosen' \in [Clients -> SUBSET Markers]
    BY <1>1, <2>1 DEF SignalsTypeOK, ScanTypeOK, scanVars, walkVars, HistoryTypeOK
  <2>4. \A p \in Players : asked[p] \subseteq asked'[p]
    BY <1>4, <1>9, <2>2, <2>3 DEF SeatInv
  <2>5. seat[c] \in Players /\ MarkersOf(shown[c]) \subseteq asked[seat[c]]
    BY <1>1, <2>1 DEF ChosenInv, SeatInv, Seated
  <2>6. \A p \in Players : tags'[p] \subseteq asked'[p]
    BY <1>1, <2>1, <2>4, <2>5 DEF Backed, ListTypeOK
  <2>7. Backed(asked)'
    BY <2>1, <2>4, <2>6, OthersKeepBacked
  <2>8. QED
    BY <1>1, <1>3, <1>9, <2>1, <2>2, <2>3, <2>7 DEF ChosenInv
<1>10. QED
  BY <1>2, <1>5, <1>6, <1>7, <1>8, <1>9 DEF SNext

(* The invariant holds throughout.                                         *)
LEMMA SessionAlways == SSpec => []SessionInv
BY SessionInit, SessionStep, PTL DEF SSpec

(* Clients, seats, list, walk and tables keep their types together: no two *)
(* clients share an address (encounter_toggle.cpp 50-51, main.cpp 164-241).*)
THEOREM SessionTypeCorrect == SSpec => []SessionTypeOK
<1>1. SessionInv => SessionTypeOK
  BY DEF SessionInv
<1>2. QED
  BY <1>1, SessionAlways, PTL

(* Nobody is tracked in a mode that nobody at that address has toggled to, *)
(* through saved games, restarts, late names, freed nodes and torn tables  *)
(* (encounter_toggle.cpp 50-96, main.cpp 164-241).                         *)
THEOREM NoUnaskedModeAlways == SSpec => []NoUnaskedMode
<1>1. SessionInv => NoUnaskedMode
  <2> SUFFICES ASSUME SessionInv PROVE NoUnaskedMode
    OBVIOUS
  <2>1. ScanTypeOK /\ Backed(asked)
    BY DEF SessionInv, SessionTypeOK, AskedInv
  <2>2. \A T \in Table : \A p \in Tracked(T) : p \in Players /\ \E i \in Slots : T.entry[i] = p
    BY ScanAssumption DEF Table, Tracked, Slots
  <2>3. QED
    BY <2>1, <2>2 DEF NoUnaskedMode, ScanTypeOK, Backed, BackedTable
<1>2. QED
  BY <1>1, SessionAlways, PTL

=============================================================================
