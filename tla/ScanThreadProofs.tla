-------------------------- MODULE ScanThreadProofs --------------------------
(***************************************************************************)
(* Facts about the character list and the scan thread that hold of every   *)
(* step, whatever else the specification that takes the step records.      *)
(***************************************************************************)
EXTENDS ScanThread, TLAPS

(* A table with room stays a table when a player is added: newSPCount and  *)
(* newHBCount never run past the arrays (main.cpp 196-207).                *)
LEMMA AddStaysTable ==
  ASSUME NEW T \in Table, HasRoom(T), NEW p \in Players
  PROVE  Add(T, p) \in Table
BY ScanAssumption DEF Table, HasRoom, Add, Slots

(* The empty lists a scan starts from are tables (main.cpp 184-185).       *)
LEMMA EmptyIsTable == EmptyTable \in Table
BY ScanAssumption DEF Table, EmptyTable, Slots

(* Every step of the server keeps the list's words well typed.             *)
LEMMA ListTypeStep == ListTypeOK /\ ServerStep => ListTypeOK'
<1> SUFFICES ASSUME ListTypeOK, ServerStep PROVE ListTypeOK'
    OBVIOUS
<1>1. ASSUME NEW p \in Players, NEW before \in Players \cup {Sentinel},
             NEW kind \in NameKinds, Connect(p, before, kind)
      PROVE  ListTypeOK'
  BY <1>1, NamesAssumption DEF Connect, ListTypeOK
<1>2. ASSUME NEW p \in Players, NEW before \in Players \cup {Sentinel}, Disconnect(p, before)
      PROVE  ListTypeOK'
  BY <1>2 DEF Disconnect, ListTypeOK
<1>3. ASSUME NEW p \in Players, NEW kind \in NameKinds, Rename(p, kind)
      PROVE  ListTypeOK'
  BY <1>3, NamesAssumption DEF Rename, ListTypeOK
<1>4. QED
  BY <1>1, <1>2, <1>3 DEF ServerStep

(* The list is closed and nothing on it has two predecessors: no node on   *)
(* the list points to a freed one (main.cpp 179-212 relies on it).         *)
ListClosed ==
  /\ \A a \in Heads : next[a] \in Heads
  /\ \A a, b \in Heads : next[a] = next[b] => a = b

(* The empty list is closed.                                               *)
LEMMA ListClosedInit == ListInit => ListClosed
BY DEF ListInit, ListClosed, Heads

(* The server links and unlinks nodes so that the list stays closed.       *)
LEMMA ListClosedStep == ListTypeOK /\ ListClosed /\ ServerStep => ListClosed'
<1> SUFFICES ASSUME ListTypeOK, ListClosed, ServerStep PROVE ListClosed'
    OBVIOUS
<1> USE AddressesAssumption DEF ListTypeOK, ListClosed, Heads
<1>1. ASSUME NEW p \in Players, NEW before \in Players \cup {Sentinel},
             NEW kind \in NameKinds, Connect(p, before, kind)
      PROVE  ListClosed'
  <2>1. /\ p \notin linked /\ before \in Heads /\ linked' = linked \cup {p}
        /\ next'[p] = next[before] /\ next'[before] = p
        /\ \A a \in Heads \ {before} : next'[a] = next[a]
    BY <1>1 DEF Connect
  <2>2. QED
    BY <2>1
<1>2. ASSUME NEW p \in Players, NEW before \in Players \cup {Sentinel}, Disconnect(p, before)
      PROVE  ListClosed'
  <2>1. /\ p \in linked /\ before \in Heads /\ next[before] = p
        /\ linked' = linked \ {p}
        /\ next'[before] = next[p]
        /\ \A a \in Heads \ {before} : next'[a] = next[a]
    BY <1>2 DEF Disconnect
  <2>2. QED
    BY <2>1
<1>3. ASSUME NEW p \in Players, NEW kind \in NameKinds, Rename(p, kind)
      PROVE  ListClosed'
  BY <1>3 DEF Rename
<1>4. QED
  BY <1>1, <1>2, <1>3 DEF ServerStep

(* Every step of the scan thread keeps its variables well typed: the walk  *)
(* stands on a node whenever it reads one, stays within its 500 steps, and *)
(* no table holds more than it has slots (main.cpp 165-241).               *)
LEMMA ScanTypeStep == ListTypeOK /\ ScanTypeOK /\ ScanStep => ScanTypeOK'
<1> SUFFICES ASSUME ListTypeOK, ScanTypeOK, ScanStep PROVE ScanTypeOK'
    OBVIOUS
<1> USE AddressesAssumption, ScanAssumption DEF ScanTypeOK, ScanPcs
<1>1. CASE Wake
  BY <1>1, EmptyIsTable DEF Wake, ListTypeOK
<1>2. CASE FetchName
  BY <1>2 DEF FetchName, ListTypeOK
<1>3. CASE TestSP
  BY <1>3, AddStaysTable DEF TestSP
<1>4. CASE TestHB
  BY <1>4, AddStaysTable DEF TestHB
<1>5. CASE Advance
  <2>1. PICK n \in ReadNext(node) : GoTo(n)
    BY <1>5 DEF Advance
  <2>2. n \in Players \cup {Sentinel, Null}
    BY <1>5, <2>1 DEF Advance, ReadNext, ListTypeOK
  <2>3. safety' \in 0 .. MaxSteps /\ node' = n /\ scanPc' \in {"fetch", "log"}
        /\ (scanPc' = "fetch" => n \in Players)
    BY <2>1 DEF GoTo
  <2>4. QED
    BY <1>5, <2>2, <2>3 DEF Advance
<1>6. CASE LogLeavers
  BY <1>6 DEF LogLeavers
<1>7. CASE Fault
  BY <1>7 DEF Fault
<1>8. CASE Recover
  BY <1>8 DEF Recover
<1>9. ASSUME NEW i \in Slots, CopySP(i) PROVE ScanTypeOK'
  BY <1>9 DEF CopySP, Table
<1>10. ASSUME NEW i \in Slots, CopyHB(i) PROVE ScanTypeOK'
  BY <1>10 DEF CopyHB, Table
<1>11. CASE CountSP
  BY <1>11 DEF CountSP, Table
<1>12. CASE CountHB
  BY <1>12 DEF CountHB, Table
<1>13. QED
  BY <1>1, <1>2, <1>3, <1>4, <1>5, <1>6, <1>7, <1>8, <1>9, <1>10, <1>11, <1>12 DEF ScanStep

\* Whoever a table names in any slot, in use or not, is known for that marker.
\* K[p] are the markers that address p is known for.
BackedTable(X, marker, K) == \A i \in Slots : X.entry[i] \in Players => marker \in K[X.entry[i]]

Backed(K) ==
  /\ \A p \in Players : tags[p] \subseteq K[p]
  /\ scanPc \in {"testSP", "testHB"} => name \subseteq K[node]
  /\ BackedTable(newSP, "SP", K) /\ BackedTable(sp, "SP", K)
  /\ BackedTable(newHB, "HB", K) /\ BackedTable(hb, "HB", K)

(* What is added to a table, or copied from one to the other, is backed by *)
(* what was known of the addresses before, or is known by now (main.cpp    *)
(* 191-236).                                                               *)
LEMMA ScanKeepsBacked ==
  ASSUME NEW S, NEW T, \A p \in Players : S[p] \subseteq T[p],
         ListTypeOK, ScanTypeOK, Backed(S), ScanStep, UNCHANGED listVars
  PROVE  Backed(T)'
<1> USE AddressesAssumption
<1>0. /\ ListTypeOK /\ ScanTypeOK
      /\ linked' = linked /\ tags' = tags
      /\ \A p \in Players : S[p] \subseteq T[p]
  BY DEF listVars
<1>1. \A p \in Players : tags'[p] \subseteq T[p]
  BY <1>0 DEF Backed
<1>2. ASSUME NEW X, NEW marker, BackedTable(X, marker, S)
      PROVE  \A i \in Slots : X.entry[i] \in Players => marker \in T[X.entry[i]]
  BY <1>0, <1>2 DEF BackedTable
<1>3. /\ newSP' = newSP => BackedTable(newSP, "SP", T)'
      /\ newHB' = newHB => BackedTable(newHB, "HB", T)'
      /\ sp' = sp => BackedTable(sp, "SP", T)'
      /\ hb' = hb => BackedTable(hb, "HB", T)'
  BY <1>2 DEF Backed, BackedTable
<1>4. CASE Wake
  <2>1. BackedTable(newSP, "SP", T)' /\ BackedTable(newHB, "HB", T)'
    BY <1>4 DEF Wake, EmptyTable, BackedTable
  <2>2. QED
    BY <1>1, <1>3, <1>4, <2>1 DEF Wake, Backed
<1>5. CASE FetchName
  <2>1. node \in Players
    BY <1>0, <1>5 DEF FetchName, ScanTypeOK
  <2>2. scanPc' \in {"testSP", "testHB"} => name' \subseteq T[node']
    BY <1>0, <1>1, <1>5, <2>1 DEF FetchName
  <2>3. QED
    BY <1>1, <1>3, <1>5, <2>2 DEF FetchName, Backed
<1>6. ASSUME scanPc \in {"testSP", "testHB"}
      PROVE  node \in Players /\ \A found \in ReadName : found \subseteq T[node]
  <2>1. node \in Players /\ name \subseteq T[node] /\ tags[node] \subseteq T[node]
    BY <1>0, <1>1, <1>6 DEF ScanTypeOK, Backed
  <2>2. QED
    BY <2>1 DEF ReadName
<1>7. CASE TestSP
  <2>1. PICK found \in ReadName :
          IF "SP" \in found /\ HasRoom(newSP)
            THEN newSP' = Add(newSP, node) /\ scanPc' = "advance"
            ELSE UNCHANGED newSP /\ scanPc' = "testHB"
    BY <1>7 DEF TestSP
  <2>2. node \in Players /\ found \subseteq T[node] /\ scanPc = "testSP"
    BY <1>6, <1>7, <2>1 DEF TestSP
  <2>3. BackedTable(newSP, "SP", T)'
    <3>1. CASE "SP" \in found /\ HasRoom(newSP)
      <4>1. \A i \in Slots : newSP'.entry[i] = newSP.entry[i] \/ newSP'.entry[i] = node
        BY <1>0, <2>1, <3>1 DEF Add, ScanTypeOK, Table
      <4>2. QED
        BY <1>2, <2>2, <3>1, <4>1 DEF Backed, BackedTable
    <3>2. CASE ~("SP" \in found /\ HasRoom(newSP))
      BY <1>3, <2>1, <3>2
    <3>3. QED
      BY <3>1, <3>2
  <2>4. name' \subseteq T[node']
    BY <1>0, <1>7, <2>2 DEF TestSP, Backed
  <2>5. QED
    BY <1>1, <1>3, <1>7, <2>3, <2>4 DEF TestSP, Backed
<1>8. CASE TestHB
  <2>1. PICK found \in ReadName :
          newHB' = IF "HB" \in found /\ HasRoom(newHB) THEN Add(newHB, node) ELSE newHB
    BY <1>8 DEF TestHB
  <2>2. node \in Players /\ found \subseteq T[node]
    BY <1>6, <1>8, <2>1 DEF TestHB
  <2>3. BackedTable(newHB, "HB", T)'
    <3>1. CASE "HB" \in found /\ HasRoom(newHB)
      <4>1. \A i \in Slots : newHB'.entry[i] = newHB.entry[i] \/ newHB'.entry[i] = node
        BY <1>0, <2>1, <3>1 DEF Add, ScanTypeOK, Table
      <4>2. \A i \in Slots : newHB.entry[i] \in Players => "HB" \in T[newHB.entry[i]]
        BY <1>2 DEF Backed
      <4>3. QED
        BY <2>2, <3>1, <4>1, <4>2 DEF BackedTable
    <3>2. CASE ~("HB" \in found /\ HasRoom(newHB))
      BY <1>3, <2>1, <3>2
    <3>3. QED
      BY <3>1, <3>2
  <2>4. QED
    BY <1>1, <1>3, <1>8, <2>3 DEF TestHB, Backed
<1>9. CASE Advance
  BY <1>1, <1>3, <1>9 DEF Advance, GoTo, Backed
<1>10. CASE LogLeavers \/ Fault \/ Recover
  BY <1>1, <1>3, <1>10 DEF LogLeavers, Fault, Recover, Backed
<1>11. ASSUME NEW i \in Slots, CopySP(i) PROVE Backed(T)'
  <2>1. \A k \in Slots : sp'.entry[k] = sp.entry[k] \/ (k = i /\ sp'.entry[k] = newSP.entry[k])
    BY <1>0, <1>11 DEF CopySP, ScanTypeOK, Table
  <2>2. BackedTable(sp, "SP", T)'
    BY <1>2, <2>1 DEF Backed, BackedTable
  <2>3. QED
    BY <1>1, <1>3, <1>11, <2>2 DEF CopySP, Backed
<1>12. ASSUME NEW i \in Slots, CopyHB(i) PROVE Backed(T)'
  <2>1. \A k \in Slots : hb'.entry[k] = hb.entry[k] \/ (k = i /\ hb'.entry[k] = newHB.entry[k])
    BY <1>0, <1>12 DEF CopyHB, ScanTypeOK, Table
  <2>2. BackedTable(hb, "HB", T)'
    BY <1>2, <2>1 DEF Backed, BackedTable
  <2>3. QED
    BY <1>1, <1>3, <1>12, <2>2 DEF CopyHB, Backed
<1>13. CASE CountSP
  <2>1. sp'.entry = sp.entry
    BY <1>0, <1>13 DEF CountSP, ScanTypeOK, Table
  <2>2. BackedTable(sp, "SP", T)'
    BY <1>2, <2>1 DEF Backed, BackedTable
  <2>3. QED
    BY <1>1, <1>3, <1>13, <2>2 DEF CountSP, Backed
<1>14. CASE CountHB
  <2>1. hb'.entry = hb.entry
    BY <1>0, <1>14 DEF CountHB, ScanTypeOK, Table
  <2>2. BackedTable(hb, "HB", T)'
    BY <1>2, <2>1 DEF Backed, BackedTable
  <2>3. QED
    BY <1>1, <1>3, <1>14, <2>2 DEF CountHB, Backed
<1>15. QED
  BY <1>4, <1>5, <1>7, <1>8, <1>9, <1>10, <1>11, <1>12, <1>13, <1>14 DEF ScanStep

=============================================================================
