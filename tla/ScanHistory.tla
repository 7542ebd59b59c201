---------------------------- MODULE ScanHistory ----------------------------
(***************************************************************************)
(* The scan thread on its own, with history variables that record what     *)
(* happened since the current scan began, and the properties of scanning.  *)
(* The history variables follow the steps of ScanThread and CharacterList  *)
(* and never constrain them.                                               *)
(***************************************************************************)
EXTENDS ScanThread

VARIABLES
  recent,     \* the markers each address showed, while on the list, in this scan
  present,    \* the addresses that were on the list at some time in this scan
  steadfast,  \* the players on the list, under one name, all through this scan
  unbroken    \* nobody has left the list during this scan

histVars == <<recent, present, steadfast, unbroken>>
hvars == <<listVars, scanVars, histVars>>

HInit ==
  /\ ListInit /\ ScanInit
  /\ recent = [p \in Players |-> {}]
  /\ present = {}
  /\ steadfast = {}
  /\ unbroken = TRUE

(* A scan begins when the thread leaves Sleep: until then everything that  *)
(* is recorded is forgotten again.                                         *)
Record ==
  /\ recent' = [p \in Players |->
                  (IF scanPc = "sleep" THEN {} ELSE recent[p])
                    \cup (IF p \in linked' THEN tags'[p] ELSE {})]
  /\ present' = (IF scanPc = "sleep" THEN {} ELSE present) \cup linked'
  /\ steadfast' = IF scanPc = "sleep"
                    THEN linked'
                    ELSE {p \in steadfast : p \in linked' /\ tags'[p] = tags[p]}
  /\ unbroken' = \/ scanPc = "sleep"
                 \/ unbroken /\ linked \subseteq linked'

HNext ==
  /\ \/ ServerStep /\ UNCHANGED scanVars
     \/ ScanStep /\ UNCHANGED listVars
  /\ Record

HSpec == HInit /\ [][HNext]_hvars

(* The scan thread is never starved, and Sleep(2000) returns.  Nothing is  *)
(* assumed of the server or of the players.                                *)
HFairSpec == HSpec /\ WF_hvars(ScanStep /\ UNCHANGED listVars /\ Record)

----------------------------------------------------------------------------
ScanTypeInv == ListTypeOK /\ ScanTypeOK

Scanning == scanPc \notin {"sleep", "except"}

\* The walk is over and its result has not been given up.
Collected == scanPc \in {"log", "copySP", "countSP", "copyHB", "countHB"}

(* Nobody is collected on old evidence: whatever the server does to the    *)
(* list meanwhile, and whatever freed nodes the walk stumbles through, a   *)
(* player collected as SP (HB) was connected and showed that marker at     *)
(* some moment of this very scan (main.cpp 183-213).                       *)
FreshEvidence ==
  Scanning =>
    /\ \A p \in Tracked(newSP) : "SP" \in recent[p]
    /\ \A p \in Tracked(newHB) : "HB" \in recent[p]

(* A scan overlooks nobody who holds still: if no node was freed under the *)
(* walk and it was not cut short, every player who was connected under the *)
(* same marked name all along is collected, unless the table is full -     *)
(* however many others joined or changed mode meanwhile.                   *)
SteadyCollected ==
  Collected /\ unbroken /\ safety < MaxSteps =>
    \A p \in steadfast :
      /\ "SP" \in tags[p] => p \in Tracked(newSP) \/ ~HasRoom(newSP)
      /\ tags[p] = {"HB"} => p \in Tracked(newHB) \/ ~HasRoom(newHB)
      /\ tags[p] = {} => p \notin Tracked(newSP) \cup Tracked(newHB)

(* The order of the list: the address at each position, and the sentinel   *)
(* at position 0.                                                          *)
ListOrder ==
  LET at[i \in 0 .. Cardinality(linked)] == IF i = 0 THEN Sentinel ELSE next[at[i - 1]]
  IN  at

\* How many positions of S there are up to i.
Rank(S, i) == Cardinality({j \in S : j <= i})

\* The first MaxTracked positions of S: the others find the table full.
Foremost(S) == {i \in S : Rank(S, i) <= MaxTracked}

\* The entries of T are the players at the positions in S, in the list's order.
Lists(T, S) == /\ T.count = Cardinality(S)
               /\ \A i \in S : T.entry[Rank(S, i)] = ListOrder[i]

\* The positions up to n whose player shows the marker m, and those of them that
\* are left to the second test because they are not taken as SP: a player with
\* both markers is, once the SP table is full.
Showing(m, n) == {i \in 1 .. n : m \in tags[ListOrder[i]]}
HybridOnly(n) == Showing("HB", n) \ Foremost(Showing("SP", n))

\* The positions a walk gets to: all of them, or as many as its bound allows.
Reach == IF Cardinality(linked) < MaxSteps THEN Cardinality(linked) ELSE MaxSteps

\* Nobody has joined, left or changed its name since the scan began.
Undisturbed == unbroken /\ steadfast = linked

(* What an undisturbed scan must yield: the first MaxTracked players that  *)
(* show [SP], and the first MaxTracked that show [HB] and were not taken   *)
(* as SP, each table in the order of the list (main.cpp 188-213).          *)
ScanExact ==
  Collected /\ Undisturbed =>
    /\ Lists(newSP, Foremost(Showing("SP", Reach)))
    /\ Lists(newHB, Foremost(HybridOnly(Reach)))

(* Once the server and the players rest (MaxEvents makes them), every      *)
(* connected player's marker is noticed: the tables hold exactly those     *)
(* whose names show it, for good, as far as there is room - unless every   *)
(* later scan faults on memory the server freed.                           *)
TrackingFollowsNames ==
  \A p \in Players :
    /\ <>[](p \in linked /\ "SP" \in tags[p]) =>
         \/ KeepsFaulting \/ []<>Crowded(newSP, p)
         \/ <>[](p \in Tracked(sp))
    /\ <>[](p \in linked /\ tags[p] = {"HB"}) =>
         \/ KeepsFaulting \/ []<>Crowded(newHB, p)
         \/ <>[](p \in Tracked(hb) \ Tracked(sp))
    /\ <>[](p \in linked /\ tags[p] = {}) =>
         KeepsFaulting \/ <>[](p \notin Tracked(sp) \cup Tracked(hb))

(* "Scans the GameNetCharacter linked list every 2 seconds to detect       *)
(* `[SP]`/`[HB]` markers in player names" (PATCHES.md 86): whoever stays   *)
(* connected under an [SP] name is in the end noticed, unless the table is *)
(* full.  But as long as a player who left is in a table, every scan reads *)
(* his name for the log before it publishes anything (main.cpp 220, 229);  *)
(* where that faults, the scan is given up and he stays in the table, so   *)
(* that one departure can end the detection of everybody else.             *)
MarkersDetected ==
  \A p \in Players :
    <>[](p \in linked /\ "SP" \in tags[p]) =>
      []<>Crowded(newSP, p) \/ <>[](p \in Tracked(sp))

(* "Maintains a set of singleplayer netref pointers" (main.cpp 10): a      *)
(* player who has left for good is eventually no longer in the set.  The   *)
(* `continue` on an empty list (main.cpp 181) leaves the last player in.   *)
DepartedForgotten ==
  \A p \in Players :
    <>[](p \notin linked) =>
      KeepsFaulting \/ <>[](p \notin Tracked(sp) \cup Tracked(hb))

=============================================================================
