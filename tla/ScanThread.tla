----------------------------- MODULE ScanThread -----------------------------
(***************************************************************************)
(* The background thread of nvmp_server_hook.dll                           *)
(* (nvmp_server_hook/src/main.cpp, ScanThread): every two seconds it walks *)
(* the character list, collects the players whose names carry [SP] or      *)
(* [HB], and publishes both collections for the ShouldSynchronise hook.    *)
(*                                                                         *)
(* Every read of the list and every write of a published word is a step.   *)
(* The walk holds no lock, so it may stand on a node the server has freed: *)
(* a read of freed memory gives the old contents, gives nothing usable, or *)
(* faults into one of the two SEH handlers.                                *)
(*                                                                         *)
(* PlayerEntry.ownerID is left out: no code that runs reads it.            *)
(***************************************************************************)
EXTENDS CharacterList

CONSTANTS
  MaxTracked,  \* entries of g_spPlayers and of g_hbPlayers (8)
  MaxSteps     \* the walk's `safety` bound (500)

ASSUME ScanAssumption == MaxTracked \in Nat \ {0} /\ MaxSteps \in Nat \ {0}

VARIABLES
  scanPc,   \* where the scan thread is
  node,     \* the walk's cursor
  name,     \* the markers in the buffer `name` pointed to when it was fetched
  safety,   \* nodes visited by this walk
  newSP,    \* newSP and newSPCount
  newHB,    \* newHB and newHBCount
  todo,     \* the slots a memcpy has yet to write
  sp,       \* g_spPlayers and g_spCount
  hb        \* g_hbPlayers and g_hbCount

walkVars == <<scanPc, node, name, safety, newSP, newHB, todo>>
scanVars == <<walkVars, sp, hb>>

Slots == 1 .. MaxTracked

\* A PlayerEntry array of length MaxTracked and the number of entries in use.
Table == [entry: [Slots -> Players \cup {Null}], count: 0 .. MaxTracked]

EmptyTable == [entry |-> [i \in Slots |-> Null], count |-> 0]

\* Mutant of HasRoom: the `< 8` of main.cpp 196 and 202 is left out.
HasRoomUnchecked(T) == TRUE

HasRoom(T) == T.count < MaxTracked

\* Mutant of Add: newSPCount++ is left out, so the next player overwrites the slot.
AddInPlace(T, p) == [T EXCEPT !.entry[T.count + 1] = p]

Add(T, p) == [entry |-> [T.entry EXCEPT ![T.count + 1] = p], count |-> T.count + 1]

\* The players a table names to a reader that looks at it all at once.
Tracked(T) == {T.entry[i] : i \in 1 .. T.count} \ {Null}

ScanPcs == {"sleep", "fetch", "testSP", "testHB", "advance", "log",
            "copySP", "countSP", "copyHB", "countHB", "except"}

ScanTypeOK ==
  /\ scanPc \in ScanPcs
  /\ node \in Players \cup {Sentinel, Null}
  /\ scanPc \in {"fetch", "testSP", "testHB", "advance"} => node \in Players
  /\ name \subseteq Markers
  /\ safety \in 0 .. MaxSteps
  /\ newSP \in Table /\ newHB \in Table
  /\ todo \subseteq Slots
  /\ sp \in Table /\ hb \in Table

ScanInit ==
  /\ scanPc = "sleep"
  /\ node = Null
  /\ name = {}
  /\ safety = 0
  /\ newSP = EmptyTable /\ newHB = EmptyTable
  /\ todo = {}
  /\ sp = EmptyTable /\ hb = EmptyTable

----------------------------------------------------------------------------
(* What reads of the server's memory may return. *)

\* The bytes strstr finds behind the pointer fetched for node: the name, unless
\* it has been replaced or freed since; then the old bytes, the new ones, or
\* nothing (a fault, or memory put to another use).
ReadName ==
  IF node \in linked /\ tags[node] = name THEN {name} ELSE {name, tags[node], {}}

\* The `next` word of node p.
ReadNext(p) == IF p \in linked THEN {next[p]} ELSE {next[p], Null}

\* The loop condition `node != sentinel && node > 0x10000 && safety < 500`,
\* with the increment of `safety` that the loop body starts with.
GoTo(n) ==
  /\ node' = n
  /\ IF n \in Players /\ safety < MaxSteps
       THEN scanPc' = "fetch" /\ safety' = safety + 1
       ELSE scanPc' = "log" /\ safety' = safety

----------------------------------------------------------------------------
\* Mutant of Wake: the new lists outlive the iteration instead of starting empty.
WakeKeeping ==
  /\ scanPc = "sleep"
  /\ next[Sentinel] # Sentinel
  /\ node' = next[Sentinel]
  /\ safety' = 1
  /\ scanPc' = "fetch"
  /\ UNCHANGED <<name, newSP, newHB, todo, sp, hb>>

(* Sleep(2000) returns.  With no manager or no players the iteration ends  *)
(* at one of the two `continue`s, which leave everything as it was.        *)
Wake ==
  /\ scanPc = "sleep"
  /\ next[Sentinel] # Sentinel
  /\ newSP' = EmptyTable /\ newHB' = EmptyTable
  /\ node' = next[Sentinel]
  /\ safety' = 1
  /\ scanPc' = "fetch"
  /\ UNCHANGED <<name, todo, sp, hb>>

(* netref = [node + 0x0C]; name = GetObjectName(netref).  On a freed node *)
(* this may fault, or give no netref or no name: the node is passed over.  *)
FetchName ==
  /\ scanPc = "fetch"
  /\ \/ name' = tags[node] /\ scanPc' = "testSP"
     \/ node \notin linked /\ UNCHANGED name /\ scanPc' = "advance"
  /\ UNCHANGED <<node, safety, newSP, newHB, todo, sp, hb>>

\* Mutant of TestSP: a full SP table ends the test instead of leading on to [HB].
TestSPOnly ==
  /\ scanPc = "testSP"
  /\ \E found \in ReadName :
       IF "SP" \in found
         THEN /\ newSP' = IF HasRoom(newSP) THEN Add(newSP, node) ELSE newSP
              /\ scanPc' = "advance"
         ELSE UNCHANGED newSP /\ scanPc' = "testHB"
  /\ UNCHANGED <<node, name, safety, newHB, todo, sp, hb>>

\* Mutant of TestSP: any marker is taken for [SP].
TestSPAny ==
  /\ scanPc = "testSP"
  /\ \E found \in ReadName :
       IF found # {} /\ HasRoom(newSP)
         THEN newSP' = Add(newSP, node) /\ scanPc' = "advance"
         ELSE UNCHANGED newSP /\ scanPc' = "testHB"
  /\ UNCHANGED <<node, name, safety, newHB, todo, sp, hb>>

(* strstr(name, "[SP]") && newSPCount < 8 *)
TestSP ==
  /\ scanPc = "testSP"
  /\ \E found \in ReadName :
       IF "SP" \in found /\ HasRoom(newSP)
         THEN newSP' = Add(newSP, node) /\ scanPc' = "advance"
         ELSE UNCHANGED newSP /\ scanPc' = "testHB"
  /\ UNCHANGED <<node, name, safety, newHB, todo, sp, hb>>

(* else if (strstr(name, "[HB]") && newHBCount < 8): a second read. *)
TestHB ==
  /\ scanPc = "testHB"
  /\ \E found \in ReadName :
       newHB' = IF "HB" \in found /\ HasRoom(newHB) THEN Add(newHB, node) ELSE newHB
  /\ scanPc' = "advance"
  /\ UNCHANGED <<node, name, safety, newSP, todo, sp, hb>>

(* The cursor moves to the node's `next` word; then the loop condition. *)
Advance ==
  /\ scanPc = "advance"
  /\ \E n \in ReadNext(node) : GoTo(n)
  /\ UNCHANGED <<name, newSP, newHB, todo, sp, hb>>

\* The players the two "Log players leaving modes" loops report.
Leavers == (Tracked(sp) \ Tracked(newSP)) \cup (Tracked(hb) \ Tracked(newHB))

(* The log of players leaving modes writes nothing the hook reads. *)
LogLeavers ==
  /\ scanPc = "log"
  /\ scanPc' = "copySP"
  /\ todo' = Slots
  /\ UNCHANGED <<node, name, safety, newSP, newHB, sp, hb>>

(* A fault that reaches the outer handler: `next` of a freed node, or the  *)
(* name of a player who left.  The iteration is abandoned, unpublished.    *)
Fault ==
  /\ \/ scanPc = "advance" /\ node \notin linked
     \/ scanPc = "log" /\ ~(Leavers \subseteq linked)
  /\ scanPc' = "except"
  /\ UNCHANGED <<node, name, safety, newSP, newHB, todo, sp, hb>>

Recover ==
  /\ scanPc = "except"
  /\ scanPc' = "sleep"
  /\ UNCHANGED <<node, name, safety, newSP, newHB, todo, sp, hb>>

(* memcpy of newSP over g_spPlayers, word by word in no promised order;    *)
(* then g_spCount = newSPCount.                                            *)
CopySP(i) ==
  /\ scanPc = "copySP"
  /\ i \in todo
  /\ sp' = [sp EXCEPT !.entry[i] = newSP.entry[i]]
  /\ todo' = todo \ {i}
  /\ scanPc' = IF todo = {i} THEN "countSP" ELSE "copySP"
  /\ UNCHANGED <<node, name, safety, newSP, newHB, hb>>

\* Mutant of CountSP: the assignment to g_spCount is left out.
CountSPForgotten ==
  /\ scanPc = "countSP"
  /\ scanPc' = "copyHB"
  /\ todo' = Slots
  /\ UNCHANGED <<node, name, safety, newSP, newHB, sp, hb>>

CountSP ==
  /\ scanPc = "countSP"
  /\ sp' = [sp EXCEPT !.count = newSP.count]
  /\ scanPc' = "copyHB"
  /\ todo' = Slots
  /\ UNCHANGED <<node, name, safety, newSP, newHB, hb>>

(* The same for g_hbPlayers and g_hbCount, which ends the iteration. *)
CopyHB(i) ==
  /\ scanPc = "copyHB"
  /\ i \in todo
  /\ hb' = [hb EXCEPT !.entry[i] = newHB.entry[i]]
  /\ todo' = todo \ {i}
  /\ scanPc' = IF todo = {i} THEN "countHB" ELSE "copyHB"
  /\ UNCHANGED <<node, name, safety, newSP, newHB, sp>>

CountHB ==
  /\ scanPc = "countHB"
  /\ hb' = [hb EXCEPT !.count = newHB.count]
  /\ scanPc' = "sleep"
  /\ UNCHANGED <<node, name, safety, newSP, newHB, todo, sp>>

ScanStep ==
  \/ Wake \/ FetchName \/ TestSP \/ TestHB \/ Advance \/ LogLeavers \/ Fault \/ Recover
  \/ \E i \in Slots : CopySP(i) \/ CopyHB(i)
  \/ CountSP \/ CountHB

----------------------------------------------------------------------------
(* What can keep a player untracked however long the scans go on.          *)

\* Scans are given up to a fault again and again.
KeepsFaulting == []<>(scanPc = "except")

\* A scan fills a table and leaves p out of it.
Crowded(T, p) == ~HasRoom(T) /\ p \notin Tracked(T)

=============================================================================
