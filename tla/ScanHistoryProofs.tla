------------------------- MODULE ScanHistoryProofs -------------------------
(***************************************************************************)
(* Theorems of HSpec, the scan thread with its history, for any number of  *)
(* players, any table and any walk.  Nobody is collected on old evidence   *)
(* because of what the walk can reach: a freed node keeps its words, so    *)
(* from a node that was on the list during this scan it leads only to      *)
(* others that were (EvidenceInv below).                                   *)
(***************************************************************************)
EXTENDS ScanHistory, ScanThreadProofs, FiniteSetTheorems

\* What the scan has met and collected comes from this scan.
EvidenceInv ==
  /\ linked \subseteq present
  /\ node \in Players => node \in present
  /\ \A a \in present \cup {Sentinel} : next[a] \in present \cup {Sentinel}
  /\ \A p \in present : tags[p] \subseteq recent[p]
  /\ scanPc \in {"testSP", "testHB"} => name \subseteq recent[node]
  /\ \A i \in Slots :
       /\ newSP.entry[i] \in Players => "SP" \in recent[newSP.entry[i]]
       /\ newHB.entry[i] \in Players => "HB" \in recent[newHB.entry[i]]

HistoryTypeOK == present \subseteq Players /\ recent \in [Players -> SUBSET Markers]

ScanInv ==
  /\ ListTypeOK /\ ScanTypeOK /\ HistoryTypeOK
  /\ ListClosed
  /\ Scanning => EvidenceInv

(* Every first state is in the invariant.                                  *)
LEMMA ScanInvInit == HInit => ScanInv
<1> SUFFICES ASSUME HInit PROVE ScanInv
    OBVIOUS
<1>1. ListTypeOK /\ HistoryTypeOK
  BY DEF HInit, ListInit, ListTypeOK, HistoryTypeOK
<1>2. ScanTypeOK
  BY EmptyIsTable, ScanAssumption DEF HInit, ScanInit, ScanTypeOK, ScanPcs
<1>3. ListClosed
  BY ListClosedInit DEF HInit
<1>4. ~Scanning
  BY DEF HInit, ScanInit, Scanning
<1>5. QED
  BY <1>1, <1>2, <1>3, <1>4 DEF ScanInv

(* While a scan is under way the history only grows.                       *)
LEMMA HistoryGrows ==
  ASSUME ScanInv, ListTypeOK', Record, scanPc # "sleep"
  PROVE  /\ present' = present \cup linked'
         /\ \A p \in Players : recent[p] \subseteq recent'[p]
         /\ \A p \in linked' : tags'[p] \subseteq recent'[p]
BY DEF Record, ScanInv, ListTypeOK

(* What is recorded keeps its type.                                        *)
LEMMA HistoryTypeStep == ASSUME ScanInv, ListTypeOK', Record PROVE HistoryTypeOK'
BY DEF ScanInv, HistoryTypeOK, Record, ListTypeOK

(* The server's steps preserve the evidence: a node freed under the walk   *)
(* keeps pointing to where the walk could have gone anyway.                *)
LEMMA ServerKeepsEvidence ==
  ASSUME ScanInv, ListTypeOK', ServerStep, UNCHANGED scanVars, Record, Scanning
  PROVE  EvidenceInv'
<1> USE AddressesAssumption
<1>0. /\ ListTypeOK /\ ScanTypeOK /\ HistoryTypeOK /\ EvidenceInv
      /\ UNCHANGED <<scanPc, node, name, newSP, newHB>>
      /\ present' = present \cup linked'
      /\ \A p \in Players : recent[p] \subseteq recent'[p]
      /\ \A p \in linked' : tags'[p] \subseteq recent'[p]
  BY HistoryGrows DEF ScanInv, Scanning, scanVars, walkVars
<1>1. /\ \A a \in present' \cup {Sentinel} : next'[a] \in present' \cup {Sentinel}
      /\ \A p \in present \ linked' : tags'[p] = tags[p]
  <2>1. ASSUME NEW p \in Players, NEW before \in Players \cup {Sentinel},
               NEW kind \in NameKinds, Connect(p, before, kind)
        PROVE  <1>1!1 /\ <1>1!2
    <3>1. /\ before \in Heads /\ linked' = linked \cup {p}
          /\ next'[p] = next[before] /\ next'[before] = p
          /\ \A a \in Players \cup {Sentinel} : a \notin {p, before} => next'[a] = next[a]
          /\ \A q \in Players : q # p => tags'[q] = tags[q]
      BY <1>0, <2>1 DEF Connect, ListTypeOK, Heads
    <3>2. QED
      BY <1>0, <3>1 DEF EvidenceInv, Heads, HistoryTypeOK
  <2>2. ASSUME NEW p \in Players, NEW before \in Players \cup {Sentinel}, Disconnect(p, before)
        PROVE  <1>1!1 /\ <1>1!2
    <3>1. /\ p \in linked /\ linked' = linked \ {p}
          /\ next'[before] = next[p]
          /\ \A a \in Players \cup {Sentinel} : a # before => next'[a] = next[a]
          /\ tags' = tags
      BY <1>0, <2>2 DEF Disconnect, ListTypeOK
    <3>2. QED
      BY <1>0, <3>1 DEF EvidenceInv, HistoryTypeOK
  <2>3. ASSUME NEW p \in Players, NEW kind \in NameKinds, Rename(p, kind)
        PROVE  <1>1!1 /\ <1>1!2
    <3>1. /\ p \in linked /\ linked' = linked /\ next' = next
          /\ \A q \in Players : q # p => tags'[q] = tags[q]
      BY <1>0, <2>3 DEF Rename, ListTypeOK
    <3>2. QED
      BY <1>0, <3>1 DEF EvidenceInv, HistoryTypeOK
  <2>4. QED
    BY <2>1, <2>2, <2>3 DEF ServerStep
<1>2. \A p \in present' : tags'[p] \subseteq recent'[p]
  BY <1>0, <1>1 DEF EvidenceInv, HistoryTypeOK
<1>3. \A i \in Slots :
        /\ newSP'.entry[i] \in Players => "SP" \in recent'[newSP'.entry[i]]
        /\ newHB'.entry[i] \in Players => "HB" \in recent'[newHB'.entry[i]]
  BY <1>0 DEF EvidenceInv
<1>4. scanPc' \in {"testSP", "testHB"} => name' \subseteq recent'[node']
  BY <1>0 DEF EvidenceInv, ScanTypeOK
<1>5. linked' \subseteq present' /\ (node' \in Players => node' \in present')
  BY <1>0 DEF EvidenceInv
<1>6. QED
  BY <1>1, <1>2, <1>3, <1>4, <1>5 DEF EvidenceInv

(* A scan starts with no evidence and on a list that is closed.            *)
LEMMA WakeStartsFresh ==
  ASSUME ScanInv, ListTypeOK', Wake, UNCHANGED listVars, Record
  PROVE  EvidenceInv'
<1> USE AddressesAssumption
<1>1. /\ present' = linked /\ linked' = linked /\ next' = next /\ tags' = tags
      /\ \A p \in linked : recent'[p] = tags[p]
  BY DEF ScanInv, ListTypeOK, Wake, Record, listVars
<1>2. \A a \in linked \cup {Sentinel} : next[a] \in linked \cup {Sentinel}
  BY DEF ScanInv, ListClosed, Heads
<1>3. node' = next[Sentinel] /\ scanPc' = "fetch" /\ newSP' = EmptyTable /\ newHB' = EmptyTable
  BY DEF Wake
<1>4. \A i \in Slots : newSP'.entry[i] = Null /\ newHB'.entry[i] = Null
  BY <1>3 DEF EmptyTable
<1>5. node' \in Players => node' \in present'
  BY <1>1, <1>2, <1>3
<1>6. QED
  BY <1>1, <1>2, <1>3, <1>4, <1>5 DEF EvidenceInv

(* Every other step of a scan adds only evidence it has just read.         *)
LEMMA ScanKeepsEvidence ==
  ASSUME ScanInv, ListTypeOK', ScanTypeOK', ScanStep, UNCHANGED listVars, Record,
         Scanning, Scanning'
  PROVE  EvidenceInv'
<1> USE AddressesAssumption
<1>0. /\ ListTypeOK /\ ScanTypeOK /\ HistoryTypeOK /\ EvidenceInv
      /\ linked' = linked /\ next' = next /\ tags' = tags
      /\ present' = present
      /\ recent' \in [Players -> SUBSET Markers]
      /\ \A p \in Players : recent[p] \subseteq recent'[p]
  BY HistoryGrows, HistoryTypeStep DEF ScanInv, Scanning, listVars, EvidenceInv, HistoryTypeOK
<1>1. /\ linked' \subseteq present'
      /\ \A a \in present' \cup {Sentinel} : next'[a] \in present' \cup {Sentinel}
      /\ \A p \in present' : tags'[p] \subseteq recent'[p]
  BY <1>0 DEF EvidenceInv, HistoryTypeOK
<1> DEFINE
      Walks == /\ node' \in Players => node' \in present'
               /\ scanPc' \in {"testSP", "testHB"} => name' \subseteq recent'[node']
      Holds == \A i \in Slots :
                 /\ newSP'.entry[i] \in Players => "SP" \in recent'[newSP'.entry[i]]
                 /\ newHB'.entry[i] \in Players => "HB" \in recent'[newHB'.entry[i]]
<1>2. newSP' = newSP /\ newHB' = newHB => Holds
  BY <1>0 DEF EvidenceInv
<1>3. node' = node /\ name' = name => (node' \in Players => node' \in present')
  BY <1>0 DEF EvidenceInv
<1>4. \A i \in Slots : newSP.entry[i] \in Players => "SP" \in recent'[newSP.entry[i]]
  BY <1>0 DEF EvidenceInv
<1>5. \A i \in Slots : newHB.entry[i] \in Players => "HB" \in recent'[newHB.entry[i]]
  BY <1>0 DEF EvidenceInv
<1>6. CASE FetchName
  <2>1. node \in Players /\ node \in present /\ tags[node] \subseteq recent'[node]
    BY <1>0, <1>1, <1>6 DEF FetchName, ScanTypeOK, EvidenceInv
  <2>2. Walks
    BY <1>0, <1>6, <2>1 DEF FetchName
  <2>3. QED
    BY <1>1, <1>2, <1>6, <2>2 DEF FetchName, EvidenceInv
<1>7. ASSUME scanPc \in {"testSP", "testHB"}
      PROVE  /\ node \in Players /\ node \in present
             /\ \A found \in ReadName : found \subseteq recent'[node]
  <2>1. /\ node \in Players /\ node \in present
        /\ name \subseteq recent'[node] /\ tags[node] \subseteq recent'[node]
    BY <1>0, <1>1, <1>7 DEF ScanTypeOK, EvidenceInv
  <2>2. QED
    BY <2>1 DEF ReadName
<1>8. CASE TestSP
  <2>1. PICK found \in ReadName :
          IF "SP" \in found /\ HasRoom(newSP)
            THEN newSP' = Add(newSP, node) /\ scanPc' = "advance"
            ELSE UNCHANGED newSP /\ scanPc' = "testHB"
    BY <1>8 DEF TestSP
  <2>2. /\ node \in Players /\ node \in present /\ found \subseteq recent'[node]
        /\ scanPc = "testSP" /\ node' = node /\ name' = name /\ newHB' = newHB
    BY <1>7, <1>8, <2>1 DEF TestSP
  <2>3. name' \subseteq recent'[node']
    BY <1>0, <2>2 DEF EvidenceInv
  <2>4. Holds
    <3>1. CASE "SP" \in found /\ HasRoom(newSP)
      <4>1. \A i \in Slots : newSP'.entry[i] = newSP.entry[i] \/ newSP'.entry[i] = node
        BY <1>0, <2>1, <3>1 DEF Add, ScanTypeOK, Table
      <4>2. QED
        BY <1>4, <1>5, <2>2, <3>1, <4>1
    <3>2. CASE ~("SP" \in found /\ HasRoom(newSP))
      BY <1>2, <2>1, <2>2, <3>2
    <3>3. QED
      BY <3>1, <3>2
  <2>5. QED
    BY <1>1, <2>2, <1>0, <2>3, <2>4 DEF EvidenceInv
<1>9. CASE TestHB
  <2>1. PICK found \in ReadName :
          newHB' = IF "HB" \in found /\ HasRoom(newHB) THEN Add(newHB, node) ELSE newHB
    BY <1>9 DEF TestHB
  <2>2. /\ node \in Players /\ node \in present /\ found \subseteq recent'[node]
        /\ scanPc' = "advance" /\ node' = node /\ newSP' = newSP
    BY <1>7, <1>9, <2>1 DEF TestHB
  <2>3. Holds
    <3>1. CASE "HB" \in found /\ HasRoom(newHB)
      <4>1. \A i \in Slots : newHB'.entry[i] = newHB.entry[i] \/ newHB'.entry[i] = node
        BY <1>0, <2>1, <3>1 DEF Add, ScanTypeOK, Table
      <4>2. QED
        BY <1>4, <1>5, <2>2, <3>1, <4>1
    <3>2. CASE ~("HB" \in found /\ HasRoom(newHB))
      BY <1>2, <2>1, <2>2, <3>2
    <3>3. QED
      BY <3>1, <3>2
  <2>4. QED
    BY <1>0, <1>1, <2>2, <2>3 DEF EvidenceInv
<1>10. CASE Advance
  <2>1. PICK n \in ReadNext(node) : GoTo(n)
    BY <1>10 DEF Advance
  <2>2. node \in present
    BY <1>0, <1>10 DEF Advance, ScanTypeOK, EvidenceInv
  <2>3. n \in present \cup {Sentinel, Null}
    BY <1>0, <2>1, <2>2 DEF ReadNext, EvidenceInv
  <2>4. Walks
    BY <1>0, <2>1, <2>3 DEF GoTo
  <2>5. QED
    BY <1>1, <1>2, <1>10, <2>4 DEF Advance, EvidenceInv
<1>11. CASE LogLeavers
  BY <1>1, <1>2, <1>3, <1>11 DEF LogLeavers, EvidenceInv
<1>12. ASSUME NEW i \in Slots, CopySP(i) \/ CopyHB(i) PROVE EvidenceInv'
  BY <1>1, <1>2, <1>3, <1>12 DEF CopySP, CopyHB, EvidenceInv
<1>13. CASE CountSP \/ CountHB
  BY <1>1, <1>2, <1>3, <1>13 DEF CountSP, CountHB, EvidenceInv
<1>14. ~Wake /\ ~Fault /\ ~Recover
  BY DEF Wake, Fault, Recover, Scanning
<1>15. QED
  BY <1>6, <1>8, <1>9, <1>10, <1>11, <1>12, <1>13, <1>14 DEF ScanStep

(* Every step, of the server or of the scan, keeps the invariant.          *)
LEMMA ScanInvStep == ScanInv /\ [HNext]_hvars => ScanInv'
<1> SUFFICES ASSUME ScanInv, [HNext]_hvars PROVE ScanInv'
    OBVIOUS
<1>1. CASE ServerStep /\ UNCHANGED scanVars /\ Record
  <2>1. ListTypeOK' /\ ListClosed'
    BY <1>1, ListTypeStep, ListClosedStep DEF ScanInv
  <2>2. ScanTypeOK' /\ (Scanning' <=> Scanning)
    BY <1>1 DEF ScanInv, ScanTypeOK, Scanning, scanVars, walkVars, Table
  <2>3. HistoryTypeOK'
    BY <1>1, <2>1, HistoryTypeStep
  <2>4. Scanning => EvidenceInv'
    BY <1>1, <2>1, ServerKeepsEvidence
  <2>5. QED
    BY <2>1, <2>2, <2>3, <2>4 DEF ScanInv
<1>2. CASE ScanStep /\ UNCHANGED listVars /\ Record
  <2>1. ListTypeOK' /\ ListClosed'
    BY <1>2 DEF ScanInv, listVars, ListTypeOK, ListClosed, Heads
  <2>2. ScanTypeOK'
    BY <1>2, ScanTypeStep DEF ScanInv
  <2>3. HistoryTypeOK'
    BY <1>2, <2>1, HistoryTypeStep
  <2>4. CASE Scanning
    BY <1>2, <2>1, <2>2, <2>3, <2>4, ScanKeepsEvidence DEF ScanInv
  <2>5. CASE ~Scanning
    <3>1. Wake \/ ~Scanning'
      BY <1>2, <2>5 DEF ScanStep, Scanning, FetchName, TestSP, TestHB, Advance, LogLeavers,
                        Fault, Recover, CopySP, CountSP, CopyHB, CountHB
    <3>2. QED
      BY <1>2, <2>1, <2>2, <2>3, <3>1, WakeStartsFresh DEF ScanInv
  <2>6. QED
    BY <2>4, <2>5
<1>3. CASE UNCHANGED hvars
  BY <1>3 DEF ScanInv, hvars, histVars, listVars, scanVars, walkVars, ListTypeOK, ScanTypeOK,
              HistoryTypeOK, ListClosed, Heads, Scanning, EvidenceInv, Table
<1>4. QED
  BY <1>1, <1>2, <1>3 DEF HNext

(* The inductive invariant holds in every reachable state: the words of    *)
(* the list and of the tables keep their type and the walk its evidence.   *)
THEOREM ScanInvAlways == HSpec => []ScanInv
BY ScanInvInit, ScanInvStep, PTL DEF HSpec

(* The scan thread's variables keep their types in every behaviour: its    *)
(* cursor never reads through the sentinel or a null address, its walk     *)
(* never exceeds its bound and its tables never overflow.                  *)
THEOREM ScanTypeCorrect == HSpec => []ScanTypeInv
<1>1. ScanInv => ScanTypeInv
  BY DEF ScanInv, ScanTypeInv
<1>2. QED
  BY <1>1, ScanInvAlways, PTL

(* Whoever a scan collects was connected and showed the marker during that *)
(* scan, for any number of players and whatever is freed under the walk.   *)
THEOREM FreshEvidenceAlways == HSpec => []FreshEvidence
<1>1. ScanInv => FreshEvidence
  <2> SUFFICES ASSUME ScanInv, Scanning PROVE FreshEvidence
      BY DEF FreshEvidence
  <2>1. \A T \in {newSP, newHB} : T \in Table
    BY DEF ScanInv, ScanTypeOK
  <2>2. \A T \in {newSP, newHB} : \A p \in Tracked(T) : \E i \in Slots : p = T.entry[i] /\ p \in Players
    BY <2>1, ScanAssumption DEF Tracked, Table, Slots
  <2>3. QED
    BY <2>2 DEF ScanInv, EvidenceInv, FreshEvidence
<1>2. QED
  BY <1>1, ScanInvAlways, PTL

----------------------------------------------------------------------------
(* Nobody who holds still is overlooked.  The argument needs a set, not a  *)
(* path: what is still ahead of the walk (Ahead) loses the node the walk   *)
(* leaves and gains who joins behind one of its members, and once the walk *)
(* is back at the sentinel nothing can be ahead, because the list has no   *)
(* second cycle (OneCycle).                                                *)

\* No nodes on the list lead to one another only.
OneCycle == \A C \in SUBSET linked : (\A a \in C : next[a] \in C) => C = {}

\* What the walk owes to a player, if its name stays.
Done(q) ==
  /\ "SP" \in tags[q] => q \in Tracked(newSP) \/ ~HasRoom(newSP)
  /\ tags[q] = {"HB"} => q \in Tracked(newHB) \/ ~HasRoom(newHB)

Ahead(A) ==
  /\ A \subseteq linked /\ node \in A
  /\ \A a \in A : next[a] \in A \cup {Sentinel} /\ next[a] # node
  /\ \A q \in steadfast \ A : Done(q)

\* How far the walk is with the node it stands on.
AtNode ==
  node \in steadfast =>
    /\ scanPc \in {"testSP", "testHB"} => name = tags[node]
    /\ scanPc = "testHB" /\ "SP" \in name => ~HasRoom(newSP)
    /\ scanPc = "advance" => Done(node)

Walking == scanPc \in {"fetch", "testSP", "testHB", "advance"}

SteadyInv ==
  /\ OneCycle
  /\ steadfast \subseteq linked
  /\ Scanning =>
       /\ \A q \in steadfast : recent[q] = tags[q]
       /\ unbroken => present = linked
       /\ unbroken /\ Walking => AtNode /\ \E A \in SUBSET Players : Ahead(A)
       /\ Collected /\ unbroken /\ safety < MaxSteps => \A q \in steadfast : Done(q)

(* The empty list has one cycle, and nobody has held still yet.            *)
LEMMA SteadyInit == HInit => SteadyInv
BY DEF HInit, ListInit, ScanInit, SteadyInv, OneCycle, Scanning

(* Linking and unlinking a node leaves the list one cycle.                 *)
LEMMA OneCycleStep ==
  ASSUME ListTypeOK, ListClosed, OneCycle, ServerStep PROVE OneCycle'
<1> USE AddressesAssumption DEF ListTypeOK, ListClosed, Heads
<1>1. ASSUME NEW p \in Players, NEW before \in Players \cup {Sentinel},
             NEW kind \in NameKinds, Connect(p, before, kind)
      PROVE  OneCycle'
  <2>1. /\ p \notin linked /\ before \in Heads /\ linked' = linked \cup {p}
        /\ next'[p] = next[before] /\ next'[before] = p
        /\ \A a \in Heads \ {before} : next'[a] = next[a]
    BY <1>1 DEF Connect
  <2>2. ASSUME NEW C \in SUBSET linked', \A a \in C : next'[a] \in C PROVE C = {}
    <3>1. \A a \in C \ {p} : next[a] \in C \ {p}
      BY <2>1, <2>2
    <3>2. C \ {p} = {}
      BY <2>1, <3>1 DEF OneCycle
    <3>3. p \notin C
      BY <2>1, <2>2, <3>2
    <3>4. QED
      BY <3>2, <3>3
  <2>3. QED
    BY <2>2 DEF OneCycle
<1>2. ASSUME NEW p \in Players, NEW before \in Players \cup {Sentinel}, Disconnect(p, before)
      PROVE  OneCycle'
  <2>1. /\ p \in linked /\ before \in Heads /\ next[before] = p
        /\ linked' = linked \ {p}
        /\ next'[before] = next[p]
        /\ \A a \in Heads \ {before} : next'[a] = next[a]
    BY <1>2 DEF Disconnect
  <2>2. ASSUME NEW C \in SUBSET linked', \A a \in C : next'[a] \in C PROVE C = {}
    <3>1. CASE before \notin C
      <4>1. \A a \in C : next[a] \in C
        BY <2>1, <2>2, <3>1
      <4>2. QED
        BY <2>1, <2>2, <4>1 DEF OneCycle
    <3>2. CASE before \in C
      <4>1. C \cup {p} \in SUBSET linked /\ \A a \in C \cup {p} : next[a] \in C \cup {p}
        BY <2>1, <2>2, <3>2
      <4>2. C \cup {p} = {}
        BY <4>1 DEF OneCycle
      <4>3. QED
        BY <4>2
    <3>3. QED
      BY <3>1, <3>2
  <2>3. QED
    BY <2>2 DEF OneCycle
<1>3. ASSUME NEW p \in Players, NEW kind \in NameKinds, Rename(p, kind)
      PROVE  OneCycle'
  BY <1>3 DEF Rename, OneCycle
<1>4. QED
  BY <1>1, <1>2, <1>3 DEF ServerStep

(* Adding a player to a table with room tracks that player too.            *)
LEMMA AddTracks ==
  ASSUME NEW T \in Table, HasRoom(T), NEW p \in Players
  PROVE  Tracked(Add(T, p)) = Tracked(T) \cup {p}
<1>1. /\ T.count \in Nat /\ T.count < MaxTracked
      /\ T.entry \in [Slots -> Players \cup {Null}]
  BY ScanAssumption DEF Table, HasRoom
<1>2. /\ Add(T, p).count = T.count + 1
      /\ Add(T, p).entry = [T.entry EXCEPT ![T.count + 1] = p]
  BY DEF Add
<1>3. T.count + 1 \in Slots /\ 1 .. T.count + 1 \subseteq Slots
  BY <1>1, ScanAssumption DEF Slots
<1>4. \A i \in 1 .. T.count + 1 :
        Add(T, p).entry[i] = IF i = T.count + 1 THEN p ELSE T.entry[i]
  BY <1>1, <1>2, <1>3
<1>5. 1 .. T.count + 1 = (1 .. T.count) \cup {T.count + 1} /\ T.count + 1 \notin 1 .. T.count
  BY <1>1
<1>6. p # Null
  BY AddressesAssumption
<1>7. QED
  BY <1>2, <1>4, <1>5, <1>6 DEF Tracked

(* Who is collected stays collected, and a full table stays as it is.      *)
LEMMA DoneGrows ==
  ASSUME NEW q \in steadfast, Done(q), tags'[q] = tags[q],
         \/ newSP' = newSP
         \/ HasRoom(newSP) /\ Tracked(newSP) \subseteq Tracked(newSP'),
         \/ newHB' = newHB
         \/ HasRoom(newHB) /\ Tracked(newHB) \subseteq Tracked(newHB')
  PROVE  Done(q)'
BY DEF Done, HasRoom, Tracked

(* A step of the server: who stays under one name is still one whose       *)
(* marker the walk has met or will meet.                                   *)
LEMMA ServerKeepsSteady ==
  ASSUME ScanInv, ScanInv', SteadyInv, ServerStep, UNCHANGED scanVars, Record
  PROVE  SteadyInv'
<1> USE AddressesAssumption
<1>0. /\ ListTypeOK /\ ListTypeOK' /\ ScanTypeOK /\ HistoryTypeOK /\ HistoryTypeOK' /\ ListClosed
      /\ UNCHANGED <<scanPc, node, name, safety, newSP, newHB>>
      /\ OneCycle
  BY DEF ScanInv, SteadyInv, scanVars, walkVars
<1>1. OneCycle'
  BY <1>0, OneCycleStep
<1>2. steadfast' \subseteq linked'
  BY <1>0 DEF Record
<1>3. ASSUME Scanning
      PROVE  /\ steadfast' \subseteq steadfast
             /\ \A q \in steadfast' : q \in Players /\ tags'[q] = tags[q]
             /\ \A q \in steadfast' : recent'[q] = tags'[q]
             /\ unbroken' => unbroken /\ linked \subseteq linked'
             /\ unbroken' => present' = linked'
  <2>1. /\ steadfast' = {p \in steadfast : p \in linked' /\ tags'[p] = tags[p]}
        /\ unbroken' <=> unbroken /\ linked \subseteq linked'
        /\ present' = present \cup linked'
        /\ \A q \in Players : recent'[q] = recent[q] \cup (IF q \in linked' THEN tags'[q] ELSE {})
    BY <1>3 DEF Record, Scanning
  <2>2. \A q \in steadfast : q \in Players /\ recent[q] = tags[q]
    BY <1>0, <1>3 DEF SteadyInv, ListTypeOK
  <2>3. unbroken => present = linked
    BY <1>3 DEF SteadyInv
  <2>4. QED
    BY <2>1, <2>2, <2>3
<1>4. ASSUME Scanning, NEW q \in steadfast', Done(q) PROVE Done(q)'
  BY <1>0, <1>3, <1>4 DEF Done, HasRoom, Tracked
<1>5. ASSUME Scanning, unbroken', Walking PROVE AtNode' /\ \E A \in SUBSET Players : Ahead(A)'
  <2>1. AtNode /\ unbroken
    BY <1>3, <1>5 DEF SteadyInv
  <2>2. PICK A \in SUBSET Players : Ahead(A)
    BY <1>3, <1>5 DEF SteadyInv
  <2>3. AtNode'
    BY <1>0, <1>3, <1>4, <1>5, <2>1 DEF AtNode, HasRoom
  <2>4. ASSUME NEW p \in Players, NEW before \in Players \cup {Sentinel},
               NEW kind \in NameKinds, Connect(p, before, kind)
        PROVE  \E B \in SUBSET Players : Ahead(B)'
    <3>1. /\ p \notin linked /\ before \in Heads /\ linked' = linked \cup {p}
          /\ next'[p] = next[before] /\ next'[before] = p
          /\ \A a \in Heads \ {before} : next'[a] = next[a]
      BY <1>0, <2>4 DEF Connect, ListTypeOK, Heads
    <3>2. A \subseteq linked /\ node \in A /\ node # p /\ Sentinel \notin A
      BY <1>0, <2>2, <3>1 DEF Ahead, ListTypeOK
    <3>3. CASE before \in A
      <4>1. \A a \in A \cup {p} : next'[a] \in A \cup {p, Sentinel} /\ next'[a] # node
        BY <2>2, <3>1, <3>2, <3>3 DEF Ahead, Heads
      <4>2. Ahead(A \cup {p})'
        BY <1>0, <1>3, <1>4, <1>5, <2>2, <3>1, <3>2, <4>1 DEF Ahead
      <4>3. QED
        BY <4>2
    <3>4. CASE before \notin A
      <4>1. \A a \in A : next'[a] = next[a]
        BY <3>1, <3>2, <3>4 DEF Heads
      <4>2. Ahead(A)'
        BY <1>0, <1>3, <1>4, <1>5, <2>2, <3>1, <3>2, <4>1 DEF Ahead
      <4>3. QED
        BY <4>2
    <3>5. QED
      BY <3>3, <3>4
  <2>5. ASSUME NEW p \in Players, NEW before \in Players \cup {Sentinel}, Disconnect(p, before)
        PROVE  FALSE
    BY <1>3, <1>5, <2>5 DEF Disconnect
  <2>6. ASSUME NEW p \in Players, NEW kind \in NameKinds, Rename(p, kind)
        PROVE  \E B \in SUBSET Players : Ahead(B)'
    <3>1. linked' = linked /\ next' = next
      BY <2>6 DEF Rename
    <3>2. Ahead(A)'
      BY <1>0, <1>3, <1>4, <1>5, <2>2, <3>1 DEF Ahead
    <3>3. QED
      BY <3>2
  <2>7. QED
    BY <2>3, <2>4, <2>5, <2>6 DEF ServerStep
<1>6. ASSUME Collected, unbroken', safety < MaxSteps PROVE \A q \in steadfast' : Done(q)'
  BY <1>3, <1>4, <1>6 DEF SteadyInv, Collected, Scanning
<1>7. (Scanning' <=> Scanning) /\ (Walking' <=> Walking) /\ (Collected' <=> Collected)
  BY <1>0 DEF Scanning, Walking, Collected
<1>8. QED
  BY <1>0, <1>1, <1>2, <1>3, <1>5, <1>6, <1>7 DEF SteadyInv

(* A step of the walk: the node it leaves owes nothing, and back at the    *)
(* sentinel it has left every node.                                        *)
LEMMA ScanKeepsSteady ==
  ASSUME ScanInv, ScanInv', SteadyInv, ScanStep, UNCHANGED listVars, Record
  PROVE  SteadyInv'
<1> USE AddressesAssumption
<1>0. /\ ListTypeOK /\ ScanTypeOK /\ ScanTypeOK' /\ ListClosed
      /\ linked' = linked /\ next' = next /\ tags' = tags
      /\ linked \subseteq Players
  BY DEF ScanInv, listVars, ListTypeOK
<1>1. OneCycle' /\ steadfast' \subseteq linked'
  BY <1>0 DEF SteadyInv, OneCycle, Record
<1>2. CASE Wake
  <2>1. /\ present' = linked /\ steadfast' = linked
        /\ \A q \in linked : recent'[q] = tags'[q]
        /\ scanPc' = "fetch" /\ node' = next[Sentinel] /\ next[Sentinel] # Sentinel
    BY <1>0, <1>2 DEF Wake, Record
  <2>2. node' \in linked /\ \A a \in linked : next[a] \in Heads /\ next[a] # node'
    BY <1>0, <2>1 DEF ListClosed, Heads
  <2>3. Ahead(linked)'
    BY <1>0, <2>1, <2>2 DEF Ahead, Heads
  <2>4. AtNode' /\ ~Collected' /\ Walking'
    BY <2>1 DEF AtNode, Collected, Walking
  <2>5. QED
    BY <1>0, <1>1, <2>1, <2>3, <2>4 DEF SteadyInv
<1>3. CASE Recover \/ Fault
  BY <1>1, <1>3 DEF Recover, Fault, SteadyInv, Scanning
<1>4. ASSUME Scanning
      PROVE  /\ steadfast' = steadfast /\ (unbroken' <=> unbroken)
             /\ steadfast \subseteq Players
             /\ \A q \in steadfast' : recent'[q] = tags'[q]
             /\ unbroken' => present' = linked'
  BY <1>0, <1>4 DEF Record, SteadyInv, Scanning
<1>5. CASE FetchName \/ TestSP \/ TestHB
  <2>1. /\ Scanning /\ Walking /\ node \in Players /\ node' = node
        /\ Walking' /\ ~Collected'
    BY <1>0, <1>5 DEF FetchName, TestSP, TestHB, Scanning, Walking, Collected, ScanTypeOK
  <2>2. ASSUME unbroken' PROVE AtNode' /\ \E A \in SUBSET Players : Ahead(A)'
    <3>1. AtNode
      BY <1>4, <2>1, <2>2 DEF SteadyInv
    <3>2. PICK A \in SUBSET Players : Ahead(A)
      BY <1>4, <2>1, <2>2 DEF SteadyInv
    <3>3. node \in linked
      BY <3>2 DEF Ahead
    <3>4. CASE FetchName
      <4>1. newSP' = newSP /\ newHB' = newHB /\ name' = tags[node] /\ scanPc' = "testSP"
        BY <3>3, <3>4 DEF FetchName
      <4>2. Ahead(A)'
        BY <1>0, <1>4, <2>1, <3>2, <4>1 DEF Ahead, Done, HasRoom, Tracked
      <4>3. AtNode'
        BY <1>0, <2>1, <4>1 DEF AtNode
      <4>4. QED
        BY <4>2, <4>3
    <3>5. CASE TestSP
      <4>1. PICK found \in ReadName :
              IF "SP" \in found /\ HasRoom(newSP)
                THEN newSP' = Add(newSP, node) /\ scanPc' = "advance"
                ELSE UNCHANGED newSP /\ scanPc' = "testHB"
        BY <3>5 DEF TestSP
      <4>2. name' = name /\ newHB' = newHB /\ scanPc = "testSP"
        BY <3>5 DEF TestSP
      <4>3. node \in steadfast => name = tags[node] /\ found = tags[node]
        BY <3>1, <3>3, <4>1, <4>2 DEF AtNode, ReadName
      <4>4. \/ newSP' = newSP
            \/ HasRoom(newSP) /\ Tracked(newSP') = Tracked(newSP) \cup {node}
        BY <1>0, <2>1, <4>1, AddTracks DEF ScanTypeOK
      <4>5. \A q \in steadfast : Done(q) => Done(q)'
        BY <1>0, <4>2, <4>4, DoneGrows
      <4>6. Ahead(A)'
        BY <1>0, <1>4, <2>1, <3>2, <4>5 DEF Ahead
      <4>7. ASSUME node \in steadfast, scanPc' = "advance" PROVE Done(node)'
        <5>1. "SP" \in tags[node] /\ Tracked(newSP') = Tracked(newSP) \cup {node}
          BY <1>0, <2>1, <4>1, <4>3, <4>7, AddTracks DEF ScanTypeOK
        <5>2. tags[node] # {"HB"}
          BY <5>1
        <5>3. QED
          BY <1>0, <2>1, <5>1, <5>2 DEF Done, Tracked
      <4>8. ASSUME node \in steadfast, scanPc' = "testHB", "SP" \in name PROVE ~HasRoom(newSP')
        BY <4>1, <4>3, <4>8
      <4>9. AtNode'
        BY <1>0, <1>4, <2>1, <4>1, <4>2, <4>3, <4>7, <4>8 DEF AtNode, HasRoom
      <4>10. QED
        BY <4>6, <4>9
    <3>6. CASE TestHB
      <4>1. PICK found \in ReadName :
              newHB' = IF "HB" \in found /\ HasRoom(newHB) THEN Add(newHB, node) ELSE newHB
        BY <3>6 DEF TestHB
      <4>2. name' = name /\ newSP' = newSP /\ scanPc = "testHB" /\ scanPc' = "advance"
        BY <3>6 DEF TestHB
      <4>3. node \in steadfast => /\ name = tags[node] /\ found = tags[node]
                                  /\ "SP" \in name => ~HasRoom(newSP)
        BY <3>1, <3>3, <4>1, <4>2 DEF AtNode, ReadName
      <4>4. \/ newHB' = newHB
            \/ HasRoom(newHB) /\ Tracked(newHB') = Tracked(newHB) \cup {node}
        BY <1>0, <2>1, <4>1, AddTracks DEF ScanTypeOK
      <4>5. \A q \in steadfast : Done(q) => Done(q)'
        BY <1>0, <4>2, <4>4, DoneGrows
      <4>6. Ahead(A)'
        BY <1>0, <1>4, <2>1, <3>2, <4>5 DEF Ahead
      <4>7. ASSUME node \in steadfast PROVE Done(node)'
        <5>1. "SP" \in tags[node] => ~HasRoom(newSP)'
          BY <4>2, <4>3, <4>7 DEF HasRoom
        <5>2. tags[node] = {"HB"} => node \in Tracked(newHB') \/ ~HasRoom(newHB')
          BY <1>0, <2>1, <4>1, <4>3, <4>7, AddTracks DEF ScanTypeOK
        <5>3. QED
          BY <1>0, <2>1, <5>1, <5>2 DEF Done, HasRoom, Tracked
      <4>8. AtNode'
        BY <1>4, <2>1, <4>2, <4>7 DEF AtNode
      <4>9. QED
        BY <4>6, <4>8
    <3>7. QED
      BY <1>5, <3>4, <3>5, <3>6
  <2>3. QED
    BY <1>1, <1>4, <2>1, <2>2 DEF SteadyInv
<1>6. CASE Advance
  <2>1. PICK n \in ReadNext(node) : GoTo(n)
    BY <1>6 DEF Advance
  <2>2. /\ Scanning /\ Walking /\ scanPc = "advance" /\ newSP' = newSP /\ newHB' = newHB
    BY <1>6 DEF Advance, Scanning, Walking
  <2>3. ASSUME NEW q \in steadfast, Done(q) PROVE Done(q)'
    BY <1>0, <2>2, <2>3 DEF Done, HasRoom, Tracked
  <2>4. ASSUME unbroken'
        PROVE  /\ Walking' => AtNode' /\ \E A \in SUBSET Players : Ahead(A)'
               /\ Collected' /\ safety' < MaxSteps => \A q \in steadfast' : Done(q)'
    <3>1. AtNode
      BY <1>4, <2>2, <2>4 DEF SteadyInv
    <3>2. PICK A \in SUBSET Players : Ahead(A)
      BY <1>4, <2>2, <2>4 DEF SteadyInv
    <3>3. n = next[node] /\ node \in linked /\ next[node] \in A \cup {Sentinel}
      BY <2>1, <3>2 DEF Ahead, ReadNext
    <3>4. \A q \in steadfast \ (A \ {node}) : Done(q)
      BY <2>2, <3>1, <3>2 DEF Ahead, AtNode
    <3>5. \A a \in A \ {node} : next[a] \in (A \ {node}) \cup {Sentinel}
      BY <3>2 DEF Ahead
    <3>6. CASE n \in Players /\ safety < MaxSteps
      <4>1. node' = n /\ scanPc' = "fetch" /\ n \in A \ {node}
        BY <1>0, <2>1, <3>2, <3>3, <3>6 DEF GoTo, Ahead
      <4>2. \A a \in A \ {node} : next[a] # n
        BY <1>0, <3>2, <3>3 DEF Ahead, ListClosed, Heads
      <4>3. PICK B \in SUBSET Players : B = A \ {node}
        BY <3>2
      <4>4. Ahead(B)'
        <5>1. \A q \in steadfast' \ B : Done(q)'
          BY <1>4, <2>2, <2>3, <3>4, <4>3
        <5>2. B \subseteq linked' /\ node' \in B
          BY <1>0, <3>2, <4>1, <4>3 DEF Ahead
        <5>3. \A a \in B : next'[a] \in B \cup {Sentinel} /\ next'[a] # node'
          BY <1>0, <3>5, <4>1, <4>2, <4>3
        <5>4. QED
          BY <5>1, <5>2, <5>3 DEF Ahead
      <4>5. AtNode' /\ ~Collected'
        BY <4>1 DEF AtNode, Collected
      <4>6. QED
        BY <4>4, <4>5
    <3>7. CASE ~(n \in Players /\ safety < MaxSteps)
      <4>1. scanPc' = "log" /\ safety' = safety
        BY <2>1, <3>7 DEF GoTo
      <4>2. ASSUME safety' < MaxSteps PROVE \A q \in steadfast' : Done(q)'
        <5>1. n = Sentinel
          BY <1>0, <3>2, <3>3, <3>7, <4>1, <4>2 DEF Ahead
        <5>2. \A a \in A \ {node} : next[a] \in A \ {node}
          BY <1>0, <3>2, <3>3, <3>5, <5>1 DEF Ahead, ListClosed, Heads
        <5>3. A \ {node} = {}
          BY <3>2, <5>2 DEF Ahead, SteadyInv, OneCycle
        <5>4. QED
          BY <1>4, <2>2, <2>3, <3>4, <5>3
      <4>3. ~Walking'
        BY <4>1 DEF Walking
      <4>4. QED
        BY <4>2, <4>3
    <3>8. QED
      BY <3>6, <3>7
  <2>5. QED
    BY <1>1, <1>4, <2>2, <2>4 DEF SteadyInv
<1>7. CASE LogLeavers \/ (\E i \in Slots : CopySP(i) \/ CopyHB(i)) \/ CountSP \/ CountHB
  <2>1. /\ Scanning /\ Collected /\ ~Walking'
        /\ newSP' = newSP /\ newHB' = newHB /\ safety' = safety
    BY <1>7 DEF LogLeavers, CopySP, CopyHB, CountSP, CountHB, Scanning, Collected, Walking
  <2>2. ASSUME NEW q \in steadfast, Done(q) PROVE Done(q)'
    BY <1>0, <2>1, <2>2 DEF Done, HasRoom, Tracked
  <2>3. QED
    BY <1>1, <1>4, <2>1, <2>2 DEF SteadyInv
<1>8. QED
  BY <1>2, <1>3, <1>5, <1>6, <1>7 DEF ScanStep

(* Every step keeps what is known of those who hold still.                 *)
LEMMA SteadyStep == ScanInv /\ ScanInv' /\ SteadyInv /\ [HNext]_hvars => SteadyInv'
<1> SUFFICES ASSUME ScanInv, ScanInv', SteadyInv, [HNext]_hvars PROVE SteadyInv'
    OBVIOUS
<1>1. CASE UNCHANGED hvars
  BY <1>1 DEF hvars, histVars, listVars, scanVars, walkVars, SteadyInv, OneCycle, Scanning,
              Walking, Collected, AtNode, Ahead, Done, HasRoom, Tracked
<1>2. QED
  BY <1>1, ServerKeepsSteady, ScanKeepsSteady DEF HNext

(* Whoever holds still is collected, for any number of players, whatever   *)
(* the others do meanwhile.                                                *)
THEOREM SteadyCollectedAlways == HSpec => []SteadyCollected
<1>1. ScanInv /\ SteadyInv => SteadyCollected
  <2> SUFFICES ASSUME ScanInv, SteadyInv, Collected, unbroken, safety < MaxSteps,
                      NEW p \in steadfast
               PROVE  /\ Done(p)
                      /\ tags[p] = {} => p \notin Tracked(newSP) \cup Tracked(newHB)
      BY DEF SteadyCollected, Done
  <2>1. Scanning
    BY DEF Collected, Scanning
  <2>2. Done(p) /\ recent[p] = tags[p]
    BY <2>1 DEF SteadyInv
  <2>3. /\ \A i \in Slots : newSP.entry[i] = p /\ p \in Players => "SP" \in recent[p]
        /\ \A i \in Slots : newHB.entry[i] = p /\ p \in Players => "HB" \in recent[p]
        /\ p \in Players
    BY <2>1 DEF ScanInv, EvidenceInv, SteadyInv, ListTypeOK
  <2>4. \A T \in {newSP, newHB} : 1 .. T.count \subseteq Slots
    BY ScanAssumption DEF ScanInv, ScanTypeOK, Table, Slots
  <2>5. QED
    BY <2>2, <2>3, <2>4 DEF Tracked
<1>2. HSpec => [](ScanInv /\ SteadyInv)
  BY ScanInvAlways, SteadyInit, SteadyStep, PTL DEF HSpec
<1>3. QED
  BY <1>1, <1>2, PTL

----------------------------------------------------------------------------
(***************************************************************************)
(* An undisturbed scan collects exactly whom it should, in the order of    *)
(* the list (ScanExact), for any number of players, any table and any      *)
(* walk.                                                                   *)
(*                                                                         *)
(* The order of the list is defined by recursion along `next`.  That it    *)
(* visits every player once is proved without following it: there always   *)
(* is an enumeration of the list that agrees with `next` (ListOrdered);    *)
(* the server's steps change it in one place; and an enumeration that      *)
(* agrees with `next` is the list's order, because there is no first       *)
(* position where the two could differ (OrderIsUnique).                    *)
(***************************************************************************)

Below == {ss \in Nat \X Nat : ss[1] < ss[2]}

(* Every nonempty set of naturals has a least member.                      *)
LEMMA LeastMember ==
  ASSUME NEW T \in SUBSET Nat, T # {}
  PROVE  \E x \in T : \A y \in T : x <= y
<1>1. Below = OpToRel(<, Nat)
  BY Zenon DEF Below, OpToRel
<1>2. \E x \in T : \A y \in T : <<y, x>> \notin Below
  BY <1>1, NatLessThanWellFounded, WFMin, Zenon
<1>3. ASSUME NEW x \in T, NEW y \in T, <<y, x>> \notin Below PROVE x <= y
  <2>1. x \in Nat /\ y \in Nat
    OBVIOUS
  <2>2. <<y, x>> \in Nat \X Nat /\ <<y, x>>[1] = y /\ <<y, x>>[2] = x
    BY <2>1
  <2>3. ~(y < x)
    BY <1>3, <2>2, Zenon DEF Below
  <2>4. QED
    BY <2>1, <2>3
<1>4. QED
  BY <1>2, <1>3

----------------------------------------------------------------------------
(* The order of the list.                                                  *)

\* f enumerates the sentinel and the list, beginning at the sentinel, along `next`.
Enumerates(f) ==
  /\ f[0] = Sentinel
  /\ f \in [0 .. Cardinality(linked) -> Heads]
  /\ \A i \in 1 .. Cardinality(linked) : f[i] = next[f[i - 1]]
  /\ next[f[Cardinality(linked)]] = Sentinel
  /\ \A i, j \in 0 .. Cardinality(linked) : f[i] = f[j] => i = j
  /\ \A a \in Heads : \E i \in 0 .. Cardinality(linked) : f[i] = a

ListOrdered == IsFiniteSet(linked) /\ \E f : Enumerates(f)

(* The number of players on the list is a number.                          *)
LEMMA LengthType == ASSUME IsFiniteSet(linked) PROVE Cardinality(linked) \in Nat
BY FS_CardinalityType

(* An enumeration of the list along `next` is the order of the list.       *)
LEMMA OrderIsUnique ==
  ASSUME NEW f, Enumerates(f), IsFiniteSet(linked) PROVE ListOrder = f
<1> DEFINE N == Cardinality(linked)
           Step(g) == [i \in 0 .. N |-> IF i = 0 THEN Sentinel ELSE next[g[i - 1]]]
<1>1. N \in Nat
  BY LengthType
<1>2. f = Step(f)
  <2>1. \A i \in 0 .. N : f[i] = IF i = 0 THEN Sentinel ELSE next[f[i - 1]]
    BY <1>1 DEF Enumerates
  <2>2. f = [i \in 0 .. N |-> f[i]]
    BY DEF Enumerates
  <2>3. QED
    BY <2>1, <2>2
<1>3. ListOrder = CHOOSE at : at = Step(at)
  BY DEF ListOrder
<1>4. ListOrder = Step(ListOrder)
  <2> HIDE DEF Step
  <2>1. QED
    BY <1>2, <1>3, Zenon
<1>5. \A i \in 0 .. N : ListOrder[i] = IF i = 0 THEN Sentinel ELSE next[ListOrder[i - 1]]
  <2>1. \A i \in 0 .. N : Step(ListOrder)[i] = IF i = 0 THEN Sentinel ELSE next[ListOrder[i - 1]]
    OBVIOUS
  <2>2. QED
    BY <1>4, <2>1
<1>6. \A i \in 0 .. N : f[i] = IF i = 0 THEN Sentinel ELSE next[f[i - 1]]
  BY <1>1 DEF Enumerates
<1>7. \A i \in 0 .. N : ListOrder[i] = f[i]
  <2> DEFINE Differ == {i \in 0 .. N : ListOrder[i] # f[i]}
  <2>1. SUFFICES ASSUME Differ # {} PROVE FALSE
    OBVIOUS
  <2>2. PICK x \in Differ : \A y \in Differ : x <= y
    <3>1. Differ \in SUBSET Nat
      BY <1>1
    <3>2. QED
      BY <2>1, <3>1, LeastMember
  <2>3. x \in 0 .. N /\ x # 0
    BY <1>5, <1>6, <2>2
  <2>4. x - 1 \in 0 .. N /\ x - 1 \notin Differ
    BY <1>1, <2>2, <2>3
  <2>5. QED
    BY <1>5, <1>6, <2>2, <2>3, <2>4
<1>8. ListOrder = [i \in 0 .. N |-> ListOrder[i]] /\ f = [i \in 0 .. N |-> f[i]]
  BY <1>4 DEF Enumerates
<1>9. QED
  BY <1>7, <1>8

(* So the list's order is itself an enumeration.                           *)
LEMMA OrderEnumerates ==
  ASSUME ListOrdered PROVE Enumerates(ListOrder) /\ Cardinality(linked) \in Nat
BY OrderIsUnique, LengthType DEF ListOrdered

(* The empty list is in order.                                             *)
LEMMA ListOrderedInit == ListInit => ListOrdered
<1> SUFFICES ASSUME ListInit PROVE ListOrdered
    OBVIOUS
<1>1. linked = {} /\ next[Sentinel] = Sentinel
  BY DEF ListInit
<1>2. IsFiniteSet(linked) /\ Cardinality(linked) = 0
  BY <1>1, FS_EmptySet
<1>3. Enumerates([i \in 0 .. 0 |-> Sentinel])
  BY <1>1, <1>2 DEF Enumerates, Heads
<1>4. QED
  BY <1>2, <1>3 DEF ListOrdered

(* A node that is linked in takes the position after its predecessor; a    *)
(* node that is unlinked leaves its position to the next one (main.cpp     *)
(* 176-213 relies on the server to do so).                                 *)
LEMMA ListOrderedStep ==
  ASSUME ListTypeOK, ListOrdered, ServerStep PROVE ListOrdered'
<1> USE AddressesAssumption
<1> DEFINE N == Cardinality(linked)
<1>0. IsFiniteSet(linked) /\ N \in Nat
  BY LengthType DEF ListOrdered
<1>1. PICK f : Enumerates(f)
  BY DEF ListOrdered
<1>2. /\ f[0] = Sentinel /\ f \in [0 .. N -> Heads]
      /\ \A i \in 1 .. N : f[i] = next[f[i - 1]]
      /\ next[f[N]] = Sentinel
      /\ \A i, j \in 0 .. N : f[i] = f[j] => i = j
      /\ \A a \in Heads : \E i \in 0 .. N : f[i] = a
  BY <1>1 DEF Enumerates
<1>3. ASSUME NEW p \in Players, NEW before \in Players \cup {Sentinel},
             NEW kind \in NameKinds, Connect(p, before, kind)
      PROVE  ListOrdered'
  <2>1. /\ p \notin linked /\ before \in Heads /\ linked' = linked \cup {p}
        /\ next'[p] = next[before] /\ next'[before] = p
        /\ \A a \in Heads \ {before} : next'[a] = next[a]
    BY <1>3 DEF Connect, ListTypeOK, Heads
  <2>2. IsFiniteSet(linked') /\ Cardinality(linked') = N + 1
    BY <1>0, <2>1, FS_AddElement
  <2>3. PICK k \in 0 .. N : f[k] = before
    BY <1>2, <2>1
  <2> DEFINE g == [i \in 0 .. N + 1 |-> IF i <= k THEN f[i] ELSE IF i = k + 1 THEN p ELSE f[i - 1]]
  <2>4. p \notin Heads /\ Heads' = Heads \cup {p}
    BY <2>1 DEF Heads
  <2>5. g \in [0 .. N + 1 -> Heads'] /\ g[0] = Sentinel
    BY <1>0, <1>2, <2>3, <2>4
  <2>6. \A i \in 1 .. N + 1 : g[i] = next'[g[i - 1]]
    <3>1. \A i \in 0 .. N : f[i] = before <=> i = k
      BY <1>2, <2>3
    <3>2. ASSUME NEW i \in 1 .. N + 1 PROVE g[i] = next'[g[i - 1]]
      <4>1. CASE i <= k
        <5>1. g[i] = f[i] /\ g[i - 1] = f[i - 1] /\ i - 1 \in 0 .. N /\ i - 1 # k /\ i \in 1 .. N
          BY <1>0, <2>3, <4>1
        <5>2. next'[f[i - 1]] = next[f[i - 1]]
          BY <1>2, <2>1, <3>1, <5>1
        <5>3. QED
          BY <1>2, <5>1, <5>2
      <4>2. CASE i = k + 1
        <5>1. g[i] = p /\ g[i - 1] = f[k]
          BY <1>0, <2>3, <4>2
        <5>2. QED
          BY <2>1, <2>3, <5>1
      <4>3. CASE i = k + 2
        <5>1. g[i] = f[k + 1] /\ g[i - 1] = p /\ k + 1 \in 1 .. N /\ k + 1 - 1 = k
          BY <1>0, <2>3, <4>3
        <5>2. f[k + 1] = next[f[k]]
          BY <1>2, <5>1
        <5>3. QED
          BY <2>1, <2>3, <5>1, <5>2
      <4>4. CASE i > k + 2
        <5>1. g[i] = f[i - 1] /\ g[i - 1] = f[i - 1 - 1] /\ i - 1 \in 1 .. N
              /\ i - 1 - 1 \in 0 .. N /\ i - 1 - 1 # k
          BY <1>0, <2>3, <4>4
        <5>2. next'[f[i - 1 - 1]] = next[f[i - 1 - 1]]
          BY <1>2, <2>1, <3>1, <5>1
        <5>3. f[i - 1] = next[f[i - 1 - 1]]
          BY <1>2, <5>1
        <5>4. QED
          BY <5>1, <5>2, <5>3
      <4>5. QED
        BY <1>0, <2>3, <4>1, <4>2, <4>3, <4>4
    <3>3. QED
      BY <3>2
  <2>7. next'[g[N + 1]] = Sentinel
    <3>1. CASE k = N
      BY <1>0, <1>2, <2>1, <2>3, <3>1
    <3>2. CASE k # N
      <4>1. g[N + 1] = f[N] /\ f[N] # before /\ f[N] \in Heads
        BY <1>0, <1>2, <2>3, <3>2
      <4>2. QED
        BY <1>2, <2>1, <4>1
    <3>3. QED
      BY <3>1, <3>2
  <2>8. \A i, j \in 0 .. N + 1 : g[i] = g[j] => i = j
    <3> DEFINE back(i) == IF i <= k THEN i ELSE i - 1
    <3>1. ASSUME NEW i \in 0 .. N + 1, i # k + 1
          PROVE  g[i] = f[back(i)] /\ back(i) \in 0 .. N /\ g[i] # p
      <4>1. g[i] = f[back(i)] /\ back(i) \in 0 .. N
        BY <1>0, <2>3, <3>1
      <4>2. f[back(i)] \in Heads
        BY <1>2, <4>1
      <4>3. QED
        BY <2>4, <4>1, <4>2
    <3>2. ASSUME NEW i \in 0 .. N + 1, NEW j \in 0 .. N + 1, g[i] = g[j], i # k + 1, j # k + 1
          PROVE  i = j
      <4>1. back(i) = back(j)
        <5> HIDE DEF g, back
        <5>1. QED
          BY <1>2, <3>1, <3>2
      <4>2. QED
        BY <2>3, <3>2, <4>1
    <3>3. g[k + 1] = p
      BY <1>0, <2>3
    <3>4. QED
      <4> HIDE DEF g
      <4>1. QED
        BY <3>1, <3>2, <3>3
  <2>9. \A a \in Heads' : \E i \in 0 .. N + 1 : g[i] = a
    <3>1. g[k + 1] = p /\ k + 1 \in 0 .. N + 1
      BY <1>0, <2>3
    <3>2. ASSUME NEW a \in Heads PROVE \E i \in 0 .. N + 1 : g[i] = a
      <4>1. PICK i \in 0 .. N : f[i] = a
        BY <1>2
      <4>2. CASE i <= k
        BY <1>0, <4>1, <4>2
      <4>3. CASE i > k
        <5>1. i + 1 \in 0 .. N + 1 /\ g[i + 1] = f[i]
          BY <1>0, <2>3, <4>1, <4>3
        <5>2. QED
          BY <4>1, <5>1
      <4>4. QED
        BY <1>0, <2>3, <4>2, <4>3
    <3>3. QED
      BY <2>4, <3>1, <3>2
  <2>10. PICK h : h = g
    OBVIOUS
  <2>11. Enumerates(h)'
    <3> HIDE DEF g
    <3>1. QED
      BY <2>2, <2>5, <2>6, <2>7, <2>8, <2>9, <2>10 DEF Enumerates
  <2>12. QED
    BY <2>2, <2>11 DEF ListOrdered
<1>4. ASSUME NEW p \in Players, NEW before \in Players \cup {Sentinel}, Disconnect(p, before)
      PROVE  ListOrdered'
  <2>1. /\ p \in linked /\ before \in Heads /\ next[before] = p
        /\ linked' = linked \ {p}
        /\ next'[before] = next[p]
        /\ \A a \in Heads \ {before} : next'[a] = next[a]
    BY <1>4 DEF Disconnect, ListTypeOK, Heads
  <2>2. IsFiniteSet(linked') /\ Cardinality(linked') = N - 1
    BY <1>0, <2>1, FS_RemoveElement
  <2>3. PICK k \in 0 .. N : f[k] = before
    BY <1>2, <2>1
  <2>4. k < N /\ f[k + 1] = p
    <3>1. k # N
      BY <1>2, <2>1, <2>3
    <3>2. k + 1 \in 1 .. N /\ k + 1 - 1 = k
      BY <1>0, <2>3, <3>1
    <3>3. QED
      <4>1. f[k + 1] = next[f[k + 1 - 1]]
        BY <1>2, <3>2
      <4>2. QED
        BY <1>0, <2>1, <2>3, <3>1, <3>2, <4>1
  <2> DEFINE g == [i \in 0 .. N - 1 |-> IF i <= k THEN f[i] ELSE f[i + 1]]
  <2>5. N - 1 \in Nat /\ Heads' = Heads \ {p}
    BY <1>0, <2>1, <2>4 DEF Heads
  <2>6. g \in [0 .. N - 1 -> Heads'] /\ g[0] = Sentinel
    <3>1. ASSUME NEW i \in 0 .. N - 1 PROVE g[i] \in Heads'
      <4>1. CASE i <= k
        <5>1. i \in 0 .. N /\ k + 1 \in 0 .. N /\ i # k + 1 /\ g[i] = f[i]
          BY <1>0, <2>4, <4>1
        <5>2. QED
          BY <1>2, <2>4, <2>5, <5>1
      <4>2. CASE i > k
        <5>1. i + 1 \in 0 .. N /\ k + 1 \in 0 .. N /\ i + 1 # k + 1 /\ g[i] = f[i + 1]
          BY <1>0, <2>3, <2>4, <4>2
        <5>2. QED
          BY <1>2, <2>4, <2>5, <5>1
      <4>3. QED
        BY <1>0, <2>3, <4>1, <4>2
    <3>2. g[0] = Sentinel
      BY <1>0, <1>2, <2>3, <2>4, <2>5
    <3>3. QED
      BY <3>1, <3>2
  <2>7. \A i \in 1 .. N - 1 : g[i] = next'[g[i - 1]]
    <3>1. \A i \in 0 .. N : f[i] = before <=> i = k
      BY <1>2, <2>3
    <3>2. ASSUME NEW i \in 1 .. N - 1 PROVE g[i] = next'[g[i - 1]]
      <4>1. CASE i <= k
        <5>1. g[i] = f[i] /\ g[i - 1] = f[i - 1] /\ i - 1 \in 0 .. N /\ i - 1 # k /\ i \in 1 .. N
          BY <1>0, <2>3, <4>1
        <5>2. next'[f[i - 1]] = next[f[i - 1]]
          BY <1>2, <2>1, <3>1, <5>1
        <5>3. QED
          BY <1>2, <5>1, <5>2
      <4>2. CASE i = k + 1
        <5>1. g[i] = f[k + 2] /\ g[i - 1] = f[k] /\ k + 2 \in 1 .. N /\ k + 2 - 1 = k + 1
          BY <1>0, <2>3, <4>2
        <5>2. f[k + 2] = next[p]
          BY <1>2, <2>4, <5>1
        <5>3. QED
          BY <2>1, <2>3, <5>1, <5>2
      <4>3. CASE i > k + 1
        <5>1. g[i] = f[i + 1] /\ g[i - 1] = f[i] /\ i \in 0 .. N /\ i # k /\ i + 1 \in 1 .. N
              /\ i + 1 - 1 = i
          BY <1>0, <2>3, <4>3
        <5>2. next'[f[i]] = next[f[i]] /\ f[i + 1] = next[f[i]]
          BY <1>2, <2>1, <3>1, <5>1
        <5>3. QED
          BY <5>1, <5>2
      <4>4. QED
        BY <1>0, <2>3, <4>1, <4>2, <4>3
    <3>3. QED
      BY <3>2
  <2>8. next'[g[N - 1]] = Sentinel
    <3>1. CASE k = N - 1
      <4>1. g[N - 1] = before /\ k + 1 = N
        BY <1>0, <2>3, <2>5, <3>1
      <4>2. QED
        BY <1>2, <2>1, <2>4, <4>1
    <3>2. CASE k # N - 1
      <4>1. N - 1 \in 0 .. N - 1 /\ N - 1 > k /\ N - 1 + 1 = N /\ N \in 0 .. N /\ N # k
        BY <1>0, <2>3, <2>4, <2>5, <3>2
      <4>2. g[N - 1] = f[N] /\ f[N] # before /\ f[N] \in Heads
        BY <1>2, <2>3, <4>1
      <4>3. QED
        BY <1>2, <2>1, <4>2
    <3>3. QED
      BY <3>1, <3>2
  <2>9. \A i, j \in 0 .. N - 1 : g[i] = g[j] => i = j
    BY <1>0, <1>2, <2>3, <2>4
  <2>10. \A a \in Heads' : \E i \in 0 .. N - 1 : g[i] = a
    <3>1. ASSUME NEW a \in Heads, a # p PROVE \E i \in 0 .. N - 1 : g[i] = a
      <4>1. PICK i \in 0 .. N : f[i] = a
        BY <1>2
      <4>2. i # k + 1
        BY <2>4, <3>1, <4>1
      <4>3. CASE i <= k
        <5>1. i \in 0 .. N - 1 /\ g[i] = f[i]
          BY <1>0, <2>3, <2>4, <4>1, <4>3
        <5>2. QED
          BY <4>1, <5>1
      <4>4. CASE i > k
        <5>1. i - 1 \in 0 .. N - 1 /\ i - 1 > k /\ i - 1 + 1 = i
          BY <1>0, <2>3, <2>4, <4>1, <4>2, <4>4
        <5>2. g[i - 1] = f[i]
          BY <2>3, <5>1
        <5>3. QED
          BY <4>1, <5>1, <5>2
      <4>5. QED
        BY <1>0, <2>3, <4>3, <4>4
    <3>2. QED
      BY <2>5, <3>1
  <2>11. PICK h : h = g
    OBVIOUS
  <2>12. Enumerates(h)'
    <3> HIDE DEF g
    <3>1. QED
      BY <2>2, <2>6, <2>7, <2>8, <2>9, <2>10, <2>11 DEF Enumerates
  <2>13. QED
    BY <2>2, <2>12 DEF ListOrdered
<1>5. ASSUME NEW p \in Players, NEW kind \in NameKinds, Rename(p, kind) PROVE ListOrdered'
  <2>1. linked' = linked /\ next' = next
    BY <1>5 DEF Rename
  <2>2. QED
    BY <1>0, <1>1, <2>1 DEF ListOrdered, Enumerates, Heads
<1>6. QED
  BY <1>3, <1>4, <1>5 DEF ServerStep

----------------------------------------------------------------------------
(* Tables and positions.                                                   *)

\* T holds the foremost positions of S, and has room if S has no more of them.
Collects(T, S) ==
  /\ Lists(T, Foremost(S))
  /\ HasRoom(T) <=> Cardinality(S) < MaxTracked

(* Up to n, ranks among positions are numbers that grow with the position. *)
LEMMA RankType ==
  ASSUME NEW n \in Nat, NEW S \in SUBSET (1 .. n), NEW i \in Nat
  PROVE  /\ IsFiniteSet(S) /\ Cardinality(S) \in Nat
         /\ Rank(S, i) \in Nat /\ Rank(S, i) <= Cardinality(S)
         /\ i >= n => Rank(S, i) = Cardinality(S)
<1>1. IsFiniteSet(S)
  <2>1. IsFiniteSet(1 .. n)
    BY FS_Interval
  <2>2. QED
    BY <2>1, FS_Subset
<1>2. {j \in S : j <= i} \in SUBSET S
  OBVIOUS
<1>3. Cardinality(S) \in Nat /\ Rank(S, i) \in Nat /\ Rank(S, i) <= Cardinality(S)
  BY <1>1, <1>2, FS_Subset, FS_CardinalityType DEF Rank
<1>4. ASSUME i >= n PROVE Rank(S, i) = Cardinality(S)
  <2>1. \A j \in S : j <= i
    BY <1>4
  <2>2. {j \in S : j <= i} = S
    BY <2>1
  <2>3. QED
    BY <2>2 DEF Rank
<1>5. QED
  BY <1>1, <1>3, <1>4

(* The next position changes no earlier rank, and is the last of its set.  *)
LEMMA RankNext ==
  ASSUME NEW n \in Nat, NEW S \in SUBSET (1 .. n)
  PROVE  /\ Cardinality(S \cup {n + 1}) = Cardinality(S) + 1
         /\ Rank(S \cup {n + 1}, n + 1) = Cardinality(S) + 1
         /\ \A i \in S : Rank(S \cup {n + 1}, i) = Rank(S, i)
<1>1. IsFiniteSet(S) /\ n + 1 \notin S
  BY RankType
<1>2. Cardinality(S \cup {n + 1}) = Cardinality(S) + 1
  BY <1>1, FS_AddElement
<1>3. {j \in S \cup {n + 1} : j <= n + 1} = S \cup {n + 1}
  <2>1. \A j \in S \cup {n + 1} : j <= n + 1
    OBVIOUS
  <2>2. QED
    BY <2>1
<1>4. ASSUME NEW i \in S PROVE {j \in S \cup {n + 1} : j <= i} = {j \in S : j <= i}
  <2>1. ~(n + 1 <= i)
    OBVIOUS
  <2>2. QED
    BY <2>1
<1>5. QED
  BY <1>2, <1>3, <1>4 DEF Rank

(* While there is room every position is a foremost one; afterwards the    *)
(* foremost ones stay what they are.                                       *)
LEMMA ForemostNext ==
  ASSUME NEW n \in Nat, NEW S \in SUBSET (1 .. n)
  PROVE  /\ Foremost(S) \in SUBSET (1 .. n)
         /\ Cardinality(S) < MaxTracked => Foremost(S) = S
         /\ Foremost(S \cup {n + 1}) =
              IF Cardinality(S) < MaxTracked THEN Foremost(S) \cup {n + 1} ELSE Foremost(S)
<1>1. Cardinality(S) \in Nat /\ \A i \in S : Rank(S, i) \in Nat /\ Rank(S, i) <= Cardinality(S)
  BY RankType
<1>2. /\ Rank(S \cup {n + 1}, n + 1) = Cardinality(S) + 1
      /\ \A i \in S : Rank(S \cup {n + 1}, i) = Rank(S, i)
  BY RankNext
<1>3. Foremost(S) \in SUBSET (1 .. n)
  BY DEF Foremost
<1>4. ASSUME Cardinality(S) < MaxTracked PROVE \A i \in S : Rank(S, i) <= MaxTracked
  BY <1>1, <1>4, ScanAssumption
<1>5. Cardinality(S) < MaxTracked => Foremost(S) = S
  BY <1>4 DEF Foremost
<1>6. \A i \in S : i \in Foremost(S \cup {n + 1}) <=> i \in Foremost(S)
  BY <1>2 DEF Foremost
<1>7. n + 1 \in Foremost(S \cup {n + 1}) <=> Cardinality(S) < MaxTracked
  BY <1>1, <1>2, ScanAssumption DEF Foremost
<1>8. Foremost(S) \subseteq S /\ Foremost(S \cup {n + 1}) \subseteq S \cup {n + 1}
  BY DEF Foremost
<1>9. CASE Cardinality(S) < MaxTracked
  <2>1. Foremost(S \cup {n + 1}) = Foremost(S) \cup {n + 1}
    BY <1>5, <1>6, <1>7, <1>8, <1>9
  <2>2. QED
    BY <1>3, <1>5, <1>9, <2>1
<1>10. CASE ~(Cardinality(S) < MaxTracked)
  <2>1. Foremost(S \cup {n + 1}) = Foremost(S)
    BY <1>6, <1>7, <1>8, <1>10
  <2>2. QED
    BY <1>3, <1>10, <2>1
<1>11. QED
  BY <1>9, <1>10

(* Nobody is collected from no positions.                                  *)
LEMMA CollectsNone == Collects(EmptyTable, {})
<1>1. Cardinality({}) = 0 /\ Foremost({}) = {}
  BY FS_EmptySet DEF Foremost
<1>2. QED
  BY <1>1, ScanAssumption DEF Collects, Lists, HasRoom, EmptyTable

(* The player at the next position is added behind the others if there is  *)
(* room (newSP[newSPCount++], main.cpp 196-207).                           *)
LEMMA CollectsNext ==
  ASSUME NEW n \in Nat, NEW S \in SUBSET (1 .. n), NEW T \in Table, Collects(T, S),
         ListOrder[n + 1] \in Players
  PROVE  Collects(IF HasRoom(T) THEN Add(T, ListOrder[n + 1]) ELSE T, S \cup {n + 1})
<1> DEFINE p == ListOrder[n + 1]
           S1 == S \cup {n + 1}
<1>1. Cardinality(S) \in Nat /\ Cardinality(S1) = Cardinality(S) + 1
  BY RankType, RankNext
<1>2. T.count = Cardinality(Foremost(S)) /\ T.count \in Nat
      /\ \A i \in Foremost(S) : T.entry[Rank(Foremost(S), i)] = ListOrder[i]
  BY ScanAssumption DEF Collects, Lists, Table
<1>3. CASE HasRoom(T)
  <2>1. Cardinality(S) < MaxTracked /\ Foremost(S) = S /\ Foremost(S1) = S1
    BY <1>3, ForemostNext DEF Collects
  <2>2. /\ T.count = Cardinality(S) /\ T.count + 1 \in Slots
        /\ T.entry \in [Slots -> Players \cup {Null}]
    BY <1>1, <1>2, <2>1, ScanAssumption DEF Slots, Table
  <2>3. /\ Add(T, p).count = Cardinality(S1)
        /\ Add(T, p).entry = [T.entry EXCEPT ![Cardinality(S1)] = p]
    BY <1>1, <2>2 DEF Add
  <2>4. ASSUME NEW i \in S1 PROVE Add(T, p).entry[Rank(S1, i)] = ListOrder[i]
    <3>1. CASE i = n + 1
      BY <1>1, <2>2, <2>3, <3>1, RankNext
    <3>2. CASE i # n + 1
      <4>1. i \in S /\ Rank(S1, i) = Rank(S, i)
        BY <2>4, <3>2, RankNext
      <4>2. Rank(S, i) \in Nat /\ Rank(S, i) <= Cardinality(S)
        BY <4>1, RankType
      <4>3. T.entry[Rank(S, i)] = ListOrder[i]
        BY <1>2, <2>1, <4>1
      <4>4. Rank(S, i) # Cardinality(S1)
        BY <1>1, <4>2
      <4>5. Add(T, p).entry[Rank(S, i)] = T.entry[Rank(S, i)]
        BY <2>2, <2>3, <4>4
      <4>6. QED
        BY <4>1, <4>3, <4>5
    <3>3. QED
      BY <3>1, <3>2
  <2>5. Lists(Add(T, p), Foremost(S1))
    BY <2>1, <2>3, <2>4 DEF Lists
  <2>6. HasRoom(Add(T, p)) <=> Cardinality(S1) < MaxTracked
    BY <2>3 DEF HasRoom
  <2>7. QED
    BY <1>3, <2>5, <2>6 DEF Collects
<1>4. CASE ~HasRoom(T)
  <2>1. ~(Cardinality(S) < MaxTracked) /\ Foremost(S1) = Foremost(S)
    BY <1>4, ForemostNext DEF Collects
  <2>2. ~(Cardinality(S1) < MaxTracked)
    BY <1>1, <2>1, ScanAssumption
  <2>3. QED
    BY <1>4, <2>1, <2>2 DEF Collects
<1>5. QED
  BY <1>3, <1>4

(* One position more.                                                      *)
LEMMA ShowingNext ==
  ASSUME NEW m, NEW n \in Nat
  PROVE  /\ Showing(m, n) \in SUBSET (1 .. n)
         /\ Showing(m, n + 1) = IF m \in tags[ListOrder[n + 1]]
                                  THEN Showing(m, n) \cup {n + 1} ELSE Showing(m, n)
<1>1. 1 .. n + 1 = (1 .. n) \cup {n + 1}
  OBVIOUS
<1>2. QED
  BY <1>1 DEF Showing

(* Whether a player with both markers is taken as SP is decided at its own *)
(* position: those behind it change nothing (main.cpp 196-202).            *)
LEMMA HybridNext ==
  ASSUME NEW n \in Nat
  PROVE  /\ HybridOnly(n) \in SUBSET (1 .. n)
         /\ n + 1 \in Foremost(Showing("SP", n + 1)) <=>
              "SP" \in tags[ListOrder[n + 1]] /\ Cardinality(Showing("SP", n)) < MaxTracked
         /\ HybridOnly(n + 1) =
              IF "HB" \in tags[ListOrder[n + 1]] /\ n + 1 \notin Foremost(Showing("SP", n + 1))
                THEN HybridOnly(n) \cup {n + 1} ELSE HybridOnly(n)
<1> DEFINE S == Showing("SP", n)
           S1 == Showing("SP", n + 1)
<1>1. /\ S \in SUBSET (1 .. n) /\ Showing("HB", n) \in SUBSET (1 .. n)
      /\ S1 = IF "SP" \in tags[ListOrder[n + 1]] THEN S \cup {n + 1} ELSE S
      /\ Showing("HB", n + 1) = IF "HB" \in tags[ListOrder[n + 1]]
                                  THEN Showing("HB", n) \cup {n + 1} ELSE Showing("HB", n)
  BY ShowingNext
<1>2. n + 1 \notin 1 .. n
  OBVIOUS
<1> HIDE DEF S, S1
<1>3. /\ Foremost(S) \in SUBSET (1 .. n)
      /\ Foremost(S \cup {n + 1}) =
           IF Cardinality(S) < MaxTracked THEN Foremost(S) \cup {n + 1} ELSE Foremost(S)
  BY <1>1, ForemostNext
<1>4. /\ n + 1 \in Foremost(S1) <=>
           "SP" \in tags[ListOrder[n + 1]] /\ Cardinality(S) < MaxTracked
      /\ \A i \in 1 .. n : i \in Foremost(S1) <=> i \in Foremost(S)
  BY <1>1, <1>2, <1>3
<1>5. HybridOnly(n) = Showing("HB", n) \ Foremost(S) /\ HybridOnly(n + 1) = Showing("HB", n + 1) \ Foremost(S1)
  BY DEF HybridOnly, S, S1
<1>6. HybridOnly(n + 1) =
        IF "HB" \in tags[ListOrder[n + 1]] /\ n + 1 \notin Foremost(S1)
          THEN HybridOnly(n) \cup {n + 1} ELSE HybridOnly(n)
  BY <1>1, <1>2, <1>4, <1>5
<1>7. QED
  BY <1>1, <1>4, <1>5, <1>6 DEF S, S1

----------------------------------------------------------------------------
(* The undisturbed walk.                                                   *)

\* The tables hold what the first n positions have to give.
SPDone(n) == Collects(newSP, Showing("SP", n))
HBDone(n) == Collects(newHB, HybridOnly(n))

\* The walk stands at position `safety`, and has done with those before it.
WalkExact ==
  /\ Walking => safety \in 1 .. Reach /\ node = ListOrder[safety]
  /\ scanPc \in {"testSP", "testHB"} => name = tags[node]
  /\ scanPc \in {"fetch", "testSP"} => SPDone(safety - 1) /\ HBDone(safety - 1)
  /\ scanPc = "testHB" => /\ SPDone(safety) /\ HBDone(safety - 1)
                          /\ safety \notin Foremost(Showing("SP", safety))
  /\ scanPc = "advance" => SPDone(safety) /\ HBDone(safety)
  /\ Collected => SPDone(Reach) /\ HBDone(Reach)

ExactInv == ListOrdered /\ (Scanning /\ Undisturbed => WalkExact)

(* What the list says of its positions changes with the list only.         *)
LEMMA SameList ==
  ASSUME UNCHANGED <<next, linked, tags>>
  PROVE  /\ ListOrder' = ListOrder /\ Reach' = Reach
         /\ \A m, n : Showing(m, n)' = Showing(m, n)
         /\ \A n : HybridOnly(n)' = HybridOnly(n)
<1>1. ListOrder' = ListOrder
  BY Zenon DEF ListOrder
<1>2. \A m, n : Showing(m, n)' = Showing(m, n)
  BY <1>1, Zenon DEF Showing
<1>3. \A n : HybridOnly(n)' = HybridOnly(n)
  BY <1>2, Zenon DEF HybridOnly, Foremost, Rank
<1>4. Reach' = Reach
  BY Zenon DEF Reach
<1>5. QED
  BY <1>1, <1>2, <1>3, <1>4

(* What is done stays done while neither the list nor the tables change.   *)
LEMMA DonePrimed ==
  ASSUME UNCHANGED <<next, linked, tags>>, NEW n
  PROVE  /\ SPDone(n)' <=> Collects(newSP', Showing("SP", n))
         /\ HBDone(n)' <=> Collects(newHB', HybridOnly(n))
<1>1. ListOrder' = ListOrder /\ Showing("SP", n)' = Showing("SP", n) /\ HybridOnly(n)' = HybridOnly(n)
  BY SameList
<1>2. QED
  BY <1>1 DEF SPDone, HBDone, Collects, Lists, HasRoom, Foremost, Rank

(* A walk stays among the positions of the list, and finds each node where *)
(* the one before it points.                                               *)
LEMMA AtPosition ==
  ASSUME ListTypeOK, ListOrdered
  PROVE  /\ Reach \in Nat /\ Reach <= MaxSteps /\ Reach <= Cardinality(linked)
         /\ Cardinality(linked) \in Nat
         /\ \A n \in 1 .. Cardinality(linked) : ListOrder[n] \in linked
         /\ \A n \in 0 .. Cardinality(linked) :
              next[ListOrder[n]] = IF n < Cardinality(linked) THEN ListOrder[n + 1] ELSE Sentinel
<1> DEFINE N == Cardinality(linked)
<1>1. /\ N \in Nat
      /\ ListOrder[0] = Sentinel /\ ListOrder \in [0 .. N -> Heads]
      /\ \A i \in 1 .. N : ListOrder[i] = next[ListOrder[i - 1]]
      /\ next[ListOrder[N]] = Sentinel
      /\ \A i, j \in 0 .. N : ListOrder[i] = ListOrder[j] => i = j
  BY OrderEnumerates DEF Enumerates
<1>2. Reach \in Nat /\ Reach <= MaxSteps /\ Reach <= N
  BY <1>1, ScanAssumption DEF Reach
<1>3. ASSUME NEW n \in 1 .. N PROVE ListOrder[n] \in linked
  <2>1. n \in 0 .. N /\ 0 \in 0 .. N /\ n # 0
    BY <1>1
  <2>2. QED
    BY <1>1, <2>1 DEF Heads
<1>4. ASSUME NEW n \in 0 .. N
      PROVE  next[ListOrder[n]] = IF n < N THEN ListOrder[n + 1] ELSE Sentinel
  <2>1. CASE n < N
    <3>1. n + 1 \in 1 .. N /\ n + 1 - 1 = n
      BY <1>1, <2>1
    <3>2. ListOrder[n + 1] = next[ListOrder[n + 1 - 1]]
      BY <1>1, <3>1
    <3>3. QED
      BY <2>1, <3>1, <3>2
  <2>2. CASE ~(n < N)
    <3>1. n = N
      BY <1>1, <2>2
    <3>2. QED
      BY <1>1, <2>2, <3>1
  <2>3. QED
    BY <2>1, <2>2
<1>5. QED
  BY <1>1, <1>2, <1>3, <1>4

(* Whatever the server does during a scan disturbs it.                     *)
LEMMA ServerDisturbs ==
  ASSUME ScanInv, SteadyInv, ServerStep, Record, Scanning PROVE ~Undisturbed'
<1>1. /\ ListTypeOK /\ steadfast \subseteq linked
      /\ steadfast' = {p \in steadfast : p \in linked' /\ tags'[p] = tags[p]}
      /\ unbroken' <=> unbroken /\ linked \subseteq linked'
  BY DEF ScanInv, SteadyInv, Record, Scanning
<1>2. ASSUME NEW p \in Players, NEW before \in Players \cup {Sentinel},
             NEW kind \in NameKinds, Connect(p, before, kind)
      PROVE  ~Undisturbed'
  BY <1>1, <1>2 DEF Connect, Undisturbed
<1>3. ASSUME NEW p \in Players, NEW before \in Players \cup {Sentinel}, Disconnect(p, before)
      PROVE  ~Undisturbed'
  BY <1>1, <1>3 DEF Disconnect, Undisturbed
<1>4. ASSUME NEW p \in Players, NEW kind \in NameKinds, Rename(p, kind) PROVE ~Undisturbed'
  <2>1. p \in linked' /\ tags'[p] # tags[p]
    BY <1>1, <1>4 DEF Rename, ListTypeOK
  <2>2. QED
    BY <1>1, <2>1 DEF Undisturbed
<1>5. QED
  BY <1>2, <1>3, <1>4 DEF ServerStep

(* A step of the walk: it tests the node at its position, and moves on by  *)
(* one (main.cpp 188-213).                                                 *)
LEMMA WalkKeepsExact ==
  ASSUME ScanInv, ScanInv', ExactInv, Scanning, Undisturbed,
         FetchName \/ TestSP \/ TestHB \/ Advance, UNCHANGED listVars
  PROVE  WalkExact'
<1> USE AddressesAssumption
<1>0. /\ ListTypeOK /\ ScanTypeOK /\ ListOrdered /\ WalkExact
      /\ next' = next /\ linked' = linked /\ tags' = tags
  BY DEF ScanInv, ExactInv, listVars
<1>1. /\ safety \in 1 .. Reach /\ node = ListOrder[safety] /\ Walking
  BY <1>0 DEF WalkExact, Walking, FetchName, TestSP, TestHB, Advance
<1>2. /\ Reach \in Nat /\ Reach <= MaxSteps /\ Reach <= Cardinality(linked)
      /\ Cardinality(linked) \in Nat /\ safety \in 1 .. Cardinality(linked)
      /\ node \in linked /\ node \in Players
  BY <1>0, <1>1, AtPosition DEF ListTypeOK
<1>3. /\ ListOrder' = ListOrder /\ Reach' = Reach
      /\ \A m, n : Showing(m, n)' = Showing(m, n)
  BY <1>0, SameList
<1>4. PICK n \in Nat : n + 1 = safety /\ n = safety - 1
  BY <1>1, <1>2
<1>5. /\ Showing("SP", n) \in SUBSET (1 .. n)
      /\ Showing("SP", n + 1) = IF "SP" \in tags[node]
                                  THEN Showing("SP", n) \cup {n + 1} ELSE Showing("SP", n)
      /\ ListOrder[n + 1] \in Players
  BY <1>1, <1>2, <1>4, ShowingNext
<1>6. /\ HybridOnly(n) \in SUBSET (1 .. n)
      /\ n + 1 \in Foremost(Showing("SP", n + 1)) <=>
           "SP" \in tags[node] /\ Cardinality(Showing("SP", n)) < MaxTracked
      /\ HybridOnly(n + 1) =
           IF "HB" \in tags[node] /\ n + 1 \notin Foremost(Showing("SP", n + 1))
             THEN HybridOnly(n) \cup {n + 1} ELSE HybridOnly(n)
  BY <1>1, <1>4, HybridNext
<1>7. CASE FetchName
  <2>1. /\ scanPc = "fetch" /\ scanPc' = "testSP" /\ name' = tags[node]
        /\ UNCHANGED <<node, safety, newSP, newHB>>
    BY <1>2, <1>7 DEF FetchName
  <2>2. SPDone(n) /\ HBDone(n)
    BY <1>0, <1>4, <2>1 DEF WalkExact
  <2>3. SPDone(n)' /\ HBDone(n)'
    BY <1>0, <2>1, <2>2, DonePrimed DEF SPDone, HBDone
  <2>4. QED
    BY <1>0, <1>1, <1>3, <1>4, <2>1, <2>3 DEF WalkExact, Walking, Collected
<1>8. CASE TestSP
  <2>1. /\ scanPc = "testSP" /\ name = tags[node]
        /\ SPDone(n) /\ HBDone(n)
    BY <1>0, <1>4, <1>8 DEF TestSP, WalkExact
  <2>2. ReadName = {tags[node]}
    BY <1>2, <2>1 DEF ReadName
  <2>3. /\ IF "SP" \in tags[node] /\ HasRoom(newSP)
             THEN newSP' = Add(newSP, node) /\ scanPc' = "advance"
             ELSE newSP' = newSP /\ scanPc' = "testHB"
        /\ UNCHANGED <<node, name, safety, newHB>>
    BY <1>8, <2>2 DEF TestSP
  <2>4. HasRoom(newSP) <=> Cardinality(Showing("SP", n)) < MaxTracked
    BY <2>1 DEF SPDone, Collects
  <2>5. Collects(newSP', Showing("SP", n + 1))
    <3>1. Collects(newSP, Showing("SP", n)) /\ newSP \in Table
      BY <1>0, <2>1 DEF SPDone, ScanTypeOK
    <3>2. Collects(IF HasRoom(newSP) THEN Add(newSP, node) ELSE newSP, Showing("SP", n) \cup {n + 1})
      BY <1>1, <1>4, <1>5, <3>1, CollectsNext
    <3>3. QED
      BY <1>5, <2>3, <3>1, <3>2
  <2>6. CASE "SP" \in tags[node] /\ HasRoom(newSP)
    <3>1. HybridOnly(n + 1) = HybridOnly(n)
      BY <1>6, <2>4, <2>6
    <3>2. Collects(newHB', HybridOnly(n + 1))
      BY <2>1, <2>3, <3>1 DEF HBDone
    <3>3. SPDone(n + 1)' /\ HBDone(n + 1)'
      BY <1>0, <2>5, <3>2, DonePrimed
    <3>4. QED
      BY <1>0, <1>1, <1>3, <1>4, <2>3, <2>6, <3>3 DEF WalkExact, Walking, Collected
  <2>7. CASE ~("SP" \in tags[node] /\ HasRoom(newSP))
    <3>1. n + 1 \notin Foremost(Showing("SP", n + 1))
      BY <1>6, <2>4, <2>7
    <3>2. Collects(newHB', HybridOnly(n))
      BY <2>1, <2>3 DEF HBDone
    <3>3. SPDone(n + 1)' /\ HBDone(n)'
      BY <1>0, <2>5, <3>2, DonePrimed
    <3>4. safety' \notin Foremost(Showing("SP", safety))'
      BY <1>3, <1>4, <2>3, <3>1 DEF Foremost, Rank
    <3>5. QED
      BY <1>0, <1>1, <1>3, <1>4, <2>1, <2>3, <2>7, <3>3, <3>4 DEF WalkExact, Walking, Collected
  <2>8. QED
    BY <2>6, <2>7
<1>9. CASE TestHB
  <2>1. /\ scanPc = "testHB" /\ name = tags[node]
        /\ SPDone(n + 1) /\ HBDone(n) /\ n + 1 \notin Foremost(Showing("SP", n + 1))
    BY <1>0, <1>4, <1>9 DEF TestHB, WalkExact
  <2>2. ReadName = {tags[node]}
    BY <1>2, <2>1 DEF ReadName
  <2>3. /\ newHB' = IF "HB" \in tags[node] /\ HasRoom(newHB) THEN Add(newHB, node) ELSE newHB
        /\ scanPc' = "advance" /\ UNCHANGED <<node, name, safety, newSP>>
    BY <1>9, <2>2 DEF TestHB
  <2>4. Collects(newHB', HybridOnly(n + 1))
    <3>1. Collects(newHB, HybridOnly(n)) /\ newHB \in Table
      BY <1>0, <2>1 DEF HBDone, ScanTypeOK
    <3>2. Collects(IF HasRoom(newHB) THEN Add(newHB, node) ELSE newHB, HybridOnly(n) \cup {n + 1})
      BY <1>1, <1>4, <1>5, <1>6, <3>1, CollectsNext
    <3>3. HybridOnly(n + 1) = IF "HB" \in tags[node] THEN HybridOnly(n) \cup {n + 1} ELSE HybridOnly(n)
      BY <1>6, <2>1
    <3>4. QED
      BY <2>3, <3>1, <3>2, <3>3
  <2>5. Collects(newSP', Showing("SP", n + 1))
    BY <2>1, <2>3 DEF SPDone
  <2>6. SPDone(n + 1)' /\ HBDone(n + 1)'
    BY <1>0, <2>4, <2>5, DonePrimed
  <2>7. QED
    BY <1>0, <1>1, <1>3, <1>4, <2>3, <2>6 DEF WalkExact, Walking, Collected
<1>10. CASE Advance
  <2>1. scanPc = "advance" /\ SPDone(safety) /\ HBDone(safety)
    BY <1>0, <1>10 DEF Advance, WalkExact
  <2>2. ReadNext(node) = {next[node]}
    BY <1>2 DEF ReadNext
  <2>3. GoTo(next[node]) /\ newSP' = newSP /\ newHB' = newHB
    BY <1>10, <2>2 DEF Advance
  <2>4. next[node] = IF safety < Cardinality(linked) THEN ListOrder[safety + 1] ELSE Sentinel
    BY <1>0, <1>1, <1>2, AtPosition
  <2>5. SPDone(safety) /\ HBDone(safety) => SPDone(n + 1)' /\ HBDone(n + 1)'
    BY <1>0, <1>4, <2>3, DonePrimed DEF SPDone, HBDone
  <2>6. CASE safety < Reach
    <3>1. /\ safety < Cardinality(linked) /\ safety < MaxSteps /\ safety + 1 \in 1 .. Cardinality(linked)
          /\ safety + 1 \in 1 .. Reach
      BY <1>1, <1>2, <2>6, ScanAssumption
    <3>2. next[node] = ListOrder[safety + 1] /\ ListOrder[safety + 1] \in Players
      BY <1>0, <2>4, <3>1, AtPosition DEF ListTypeOK
    <3>3. node' = ListOrder[safety + 1] /\ scanPc' = "fetch" /\ safety' = safety + 1
      BY <2>3, <3>1, <3>2 DEF GoTo
    <3>4. safety' - 1 = n + 1
      BY <1>1, <1>2, <1>4, <3>3
    <3>5. SPDone(safety - 1)' /\ HBDone(safety - 1)'
      BY <2>1, <2>5, <3>4
    <3>6. QED
      BY <1>3, <3>1, <3>3, <3>5 DEF WalkExact, Walking, Collected
  <2>7. CASE ~(safety < Reach)
    <3>1. safety = Reach
      BY <1>1, <1>2, <2>7
    <3>2. ~(next[node] \in Players /\ safety < MaxSteps)
      <4>1. CASE Reach = Cardinality(linked)
        BY <1>2, <2>4, <3>1, <4>1
      <4>2. CASE Reach # Cardinality(linked)
        BY <3>1, <4>2, ScanAssumption DEF Reach
      <4>3. QED
        BY <4>1, <4>2
    <3>3. scanPc' = "log"
      BY <2>3, <3>2 DEF GoTo
    <3>4. SPDone(Reach)' /\ HBDone(Reach)'
      BY <1>3, <1>4, <2>1, <2>5, <3>1
    <3>5. QED
      BY <3>3, <3>4 DEF WalkExact, Walking, Collected
  <2>8. QED
    BY <2>6, <2>7
<1>11. QED
  BY <1>7, <1>8, <1>9, <1>10

(* A step of the scan thread: it sets out with nothing collected, and what *)
(* it has collected when the walk ends it keeps until it is published.     *)
LEMMA ScanKeepsExact ==
  ASSUME ScanInv, ScanInv', SteadyInv, ExactInv, ScanStep, UNCHANGED listVars, Record,
         Scanning', Undisturbed'
  PROVE  WalkExact'
<1> USE AddressesAssumption
<1>0. /\ ListTypeOK /\ ScanTypeOK /\ ListOrdered
      /\ next' = next /\ linked' = linked /\ tags' = tags
  BY DEF ScanInv, ExactInv, listVars
<1>1. ASSUME Scanning PROVE Undisturbed /\ WalkExact
  <2>1. /\ steadfast' = {p \in steadfast : p \in linked' /\ tags'[p] = tags[p]}
        /\ unbroken' <=> unbroken /\ linked \subseteq linked'
        /\ steadfast \subseteq linked
    BY <1>1 DEF Record, SteadyInv, Scanning
  <2>2. Undisturbed
    BY <1>0, <2>1 DEF Undisturbed
  <2>3. QED
    BY <1>1, <2>2 DEF ExactInv
<1>2. CASE Wake
  <2>1. /\ next[Sentinel] # Sentinel /\ node' = next[Sentinel] /\ safety' = 1
        /\ scanPc' = "fetch" /\ newSP' = EmptyTable /\ newHB' = EmptyTable
    BY <1>2 DEF Wake
  <2>2. ListOrder[0] = Sentinel /\ Cardinality(linked) \in Nat
    BY <1>0, OrderEnumerates DEF Enumerates
  <2>3. next[Sentinel] = IF 0 < Cardinality(linked) THEN ListOrder[1] ELSE Sentinel
    <3>1. 0 \in 0 .. Cardinality(linked) /\ 0 + 1 = 1
      BY <2>2
    <3>2. QED
      BY <1>0, <2>2, <3>1, AtPosition
  <2>4. 1 \in 1 .. Reach /\ node' = ListOrder[1]
    BY <2>1, <2>2, <2>3, ScanAssumption DEF Reach
  <2>5. Showing("SP", 0) = {} /\ HybridOnly(0) = {}
    BY DEF Showing, HybridOnly
  <2>6. SPDone(0)' /\ HBDone(0)'
    BY <1>0, <2>1, <2>5, CollectsNone, DonePrimed
  <2>7. SPDone(safety - 1)' /\ HBDone(safety - 1)'
    BY <2>1, <2>6
  <2>8. QED
    BY <1>0, <2>1, <2>4, <2>7, SameList DEF WalkExact, Walking, Collected
<1>3. CASE FetchName \/ TestSP \/ TestHB \/ Advance
  <2>1. Scanning
    BY <1>3 DEF FetchName, TestSP, TestHB, Advance, Scanning
  <2>2. QED
    BY <1>1, <1>3, <2>1, WalkKeepsExact
<1>4. CASE Recover \/ Fault
  BY <1>4 DEF Recover, Fault, Scanning
<1>5. CASE LogLeavers \/ (\E i \in Slots : CopySP(i) \/ CopyHB(i)) \/ CountSP \/ CountHB
  <2>1. /\ Scanning /\ Collected /\ Collected' /\ ~Walking'
        /\ newSP' = newSP /\ newHB' = newHB
    BY <1>5 DEF LogLeavers, CopySP, CopyHB, CountSP, CountHB, Scanning, Collected, Walking
  <2>2. SPDone(Reach) /\ HBDone(Reach) /\ Reach' = Reach
    BY <1>0, <1>1, <2>1, SameList DEF WalkExact
  <2>3. SPDone(Reach)' /\ HBDone(Reach)'
    BY <1>0, <2>1, <2>2, DonePrimed DEF SPDone, HBDone
  <2>4. QED
    BY <2>1, <2>3 DEF WalkExact, Walking, Collected
<1>6. QED
  BY <1>2, <1>3, <1>4, <1>5 DEF ScanStep

(* Every step keeps the list in order and the walk exact.                  *)
LEMMA ExactStep ==
  ScanInv /\ ScanInv' /\ SteadyInv /\ ExactInv /\ [HNext]_hvars => ExactInv'
<1> SUFFICES ASSUME ScanInv, ScanInv', SteadyInv, ExactInv, [HNext]_hvars PROVE ExactInv'
    OBVIOUS
<1>1. ListTypeOK /\ ListOrdered
  BY DEF ScanInv, ExactInv
<1>2. ASSUME UNCHANGED listVars PROVE ListOrdered'
  <2>1. next' = next /\ linked' = linked
    BY <1>2 DEF listVars
  <2>2. PICK f : Enumerates(f)
    BY <1>1 DEF ListOrdered
  <2>3. Enumerates(f)'
    BY <2>1, <2>2 DEF Enumerates, Heads
  <2>4. QED
    BY <1>1, <2>1, <2>3 DEF ListOrdered
<1>3. CASE UNCHANGED hvars
  <2>1. /\ UNCHANGED <<listVars, scanPc, node, name, safety, newSP, newHB, steadfast, unbroken>>
        /\ next' = next /\ linked' = linked /\ tags' = tags
    BY <1>3 DEF hvars, histVars, listVars, scanVars, walkVars
  <2>2. /\ \A n : (SPDone(n)' <=> SPDone(n)) /\ (HBDone(n)' <=> HBDone(n))
        /\ ListOrder' = ListOrder /\ Reach' = Reach
        /\ \A m, n : Showing(m, n)' = Showing(m, n)
    BY <2>1, DonePrimed, SameList DEF SPDone, HBDone
  <2>3. (Scanning' <=> Scanning) /\ (Undisturbed' <=> Undisturbed)
    BY <2>1 DEF Scanning, Undisturbed
  <2>4. WalkExact => WalkExact'
    BY <2>1, <2>2 DEF WalkExact, Walking, Collected, Foremost, Rank
  <2>5. QED
    BY <1>2, <2>1, <2>3, <2>4 DEF ExactInv
<1>4. CASE ServerStep /\ UNCHANGED scanVars /\ Record
  <2>1. Scanning' <=> Scanning
    BY <1>4 DEF Scanning, scanVars, walkVars
  <2>2. QED
    BY <1>1, <1>4, <2>1, ListOrderedStep, ServerDisturbs DEF ExactInv
<1>5. CASE ScanStep /\ UNCHANGED listVars /\ Record
  BY <1>2, <1>5, ScanKeepsExact DEF ExactInv
<1>6. QED
  BY <1>3, <1>4, <1>5 DEF HNext

(* A scan during which nobody joins, leaves or changes its name collects   *)
(* the first MaxTracked players that show [SP], and the first MaxTracked   *)
(* that show [HB] and were not taken as SP, each in the order of the list, *)
(* for any number of players and wherever the walk's bound cuts it short   *)
(* (main.cpp 188-213).                                                     *)
THEOREM ScanExactAlways == HSpec => []ScanExact
<1>1. HInit => ExactInv
  BY ListOrderedInit DEF HInit, ScanInit, ExactInv, Scanning
<1>2. ExactInv => ScanExact
  BY DEF ExactInv, ScanExact, WalkExact, Collected, Scanning, SPDone, HBDone, Collects
<1>3. HSpec => [](ScanInv /\ SteadyInv)
  BY ScanInvAlways, SteadyInit, SteadyStep, PTL DEF HSpec
<1>4. HSpec => []ExactInv
  BY <1>1, <1>3, ExactStep, PTL DEF HSpec
<1>5. QED
  BY <1>2, <1>4, PTL

=============================================================================
