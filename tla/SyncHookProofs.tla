--------------------------- MODULE SyncHookProofs ---------------------------
(***************************************************************************)
(* Theorems of HSpec, the hook and the scan thread with their history, for *)
(* any number of players, objects and threads and tables of any length.    *)
(*                                                                         *)
(* That nobody is isolated without cause follows from what the tables can  *)
(* ever hold (CauseInv): an address enters one only with a marker it has   *)
(* shown, so a torn table is a mixture of justified entries; and what is   *)
(* collected of an occupant who stays is his own, so that a finished       *)
(* publication has replaced all that was known of those before him         *)
(* (OwnInv).  That a kept slot protects follows from where the reader's    *)
(* loop stands (LoopInv): a kept slot that holds the key is not behind it. *)
(***************************************************************************)
EXTENDS SyncHookHistory, ScanThreadProofs

HistoryTypeOK ==
  /\ shown \in [Players -> SUBSET Markers]
  /\ keptSP \in [Threads -> SUBSET Slots]
  /\ keptHB \in [Threads -> SUBSET Slots]
  /\ stayed \in [Threads -> SUBSET Players]
  /\ named \in [Threads -> SUBSET Players]
  /\ own \in [Players -> SUBSET Markers]
  /\ settled \subseteq Players /\ vetted \subseteq Players
  /\ sure \in [Threads -> SUBSET Players]

\* The actions of a single thread, without what they leave alone.
CallAction(t) ==
  \/ \E o \in Players \cup Objects, p \in Players \cup {Null} : Enter(t, o, p)
  \/ CheckCount(t) \/ CheckEntry(t) \/ Resolve(t)
  \/ FetchType(t) \/ TestType(t) \/ Return(t)

(* A call whose lookup failed is still a call.                             *)
LEMMA MissedIsActivation ==
  ASSUME NEW c \in Activation PROVE Missed(c) \in Activation
<1>1. CASE c.phase = "srcSP"
  BY <1>1 DEF Missed, Activation, Phases
<1>2. CASE c.phase = "tgtSP"
  BY <1>2 DEF Missed, Activation, Phases
<1>3. CASE c.phase = "tgtHB"
  BY <1>3 DEF Missed, Answer, Activation, Phases
<1>4. QED
  BY <1>1, <1>2, <1>3 DEF Activation, Phases

(* An answered call is still a call.                                       *)
LEMMA AnswerIsActivation ==
  ASSUME NEW c \in Activation, NEW v \in {"block", "pass"}
  PROVE  /\ Answer(c, v) \in Activation
         /\ Answer(c, v).pc = "done" /\ Answer(c, v).verdict = v
         /\ Answer(c, v).phase = c.phase
         /\ Answer(c, v).obj = c.obj /\ Answer(c, v).tgt = c.tgt
BY DEF Answer, Activation

(* A call whose lookup succeeded is still a call.                          *)
LEMMA FoundIsActivation ==
  ASSUME NEW c \in Activation PROVE Found(c) \in Activation /\ Found(c).pc \in {"name", "done"}
<1>1. CASE c.phase = "tgtHB"
  BY <1>1 DEF Found, Activation
<1>2. CASE c.phase # "tgtHB"
  BY <1>2, AnswerIsActivation DEF Found
<1>3. QED
  BY <1>1, <1>2

(* A thread outside the hook has the values of no call.                    *)
LEMMA IdleIsActivation == Idle \in Activation
BY ScanAssumption DEF Idle, Activation, Phases

(* No step of a call reads past the arrays or leaves its type.             *)
LEMMA CallTypeStep ==
  ASSUME ListTypeOK, ScanTypeOK, CallTypeOK, NEW t \in Threads, CallAction(t)
  PROVE  CallTypeOK'
<1> USE ScanAssumption DEF Slots
<1> DEFINE Good(c) == c \in Activation /\ (c.pc = "entry" => c.i \in Slots)
<1>0. call[t] \in Activation
  BY DEF CallTypeOK
<1>1. ASSUME NEW c, Good(c), Set(t, c) PROVE CallTypeOK'
  BY <1>1 DEF CallTypeOK, Set
<1>2. ASSUME NEW o \in Players \cup Objects, NEW p \in Players \cup {Null}, Enter(t, o, p)
      PROVE  CallTypeOK'
  <2> DEFINE c == [pc |-> "count", phase |-> "srcSP", obj |-> o, tgt |-> p,
                   key |-> o, i |-> 1, name |-> {}, verdict |-> "none"]
  <2>1. Good(c)
    BY DEF Activation, Phases
  <2>2. Set(t, c)
    BY <1>2 DEF Enter
  <2>3. QED
    BY <1>1, <2>1, <2>2
<1>3. CASE CheckCount(t)
  <2>1. CASE call[t].i <= TableOf(call[t].phase).count
    <3> DEFINE c == [call[t] EXCEPT !.pc = "entry"]
    <3>1. TableOf(call[t].phase).count \in 0 .. MaxTracked
      BY DEF TableOf, ScanTypeOK, Table
    <3>2. Good(c)
      BY <1>0, <2>1, <3>1 DEF Activation
    <3>3. Set(t, c)
      BY <1>3, <2>1 DEF CheckCount
    <3>4. QED
      BY <1>1, <3>2, <3>3
  <2>2. CASE ~(call[t].i <= TableOf(call[t].phase).count)
    <3>1. Missed(call[t]) \in Activation /\ Missed(call[t]).pc \in {"resolve", "done"}
      BY <1>0, MissedIsActivation DEF Missed, Answer, Activation, Phases
    <3>2. QED
      BY <1>1, <1>3, <2>2, <3>1 DEF CheckCount
  <2>3. QED
    BY <2>1, <2>2
<1>4. CASE CheckEntry(t)
  <2>1. CASE TableOf(call[t].phase).entry[call[t].i] = call[t].key
    <3>1. Good(Found(call[t]))
      BY <1>0, FoundIsActivation
    <3>2. Set(t, Found(call[t]))
      BY <1>4, <2>1 DEF CheckEntry
    <3>3. QED
      BY <1>1, <3>1, <3>2
  <2>2. CASE TableOf(call[t].phase).entry[call[t].i] # call[t].key
    <3> DEFINE c == [call[t] EXCEPT !.pc = "count", !.i = call[t].i + 1]
    <3>1. call[t].i + 1 \in 1 .. MaxTracked + 1
      BY <1>4 DEF CheckEntry, CallTypeOK
    <3>2. Good(c)
      <4> HIDE DEF Slots
      <4> QED BY <1>0, <3>1 DEF Activation
    <3>3. Set(t, c)
      BY <1>4, <2>2 DEF CheckEntry
    <3>4. QED
      BY <1>1, <3>2, <3>3
  <2>3. QED
    BY <2>1, <2>2
<1>5. CASE Resolve(t)
  <2>1. PICK p \in Resolved(call[t].tgt) :
          Set(t, IF p = Null THEN Missed(call[t])
                             ELSE [call[t] EXCEPT !.pc = "count", !.key = p, !.i = 1])
    BY <1>5 DEF Resolve
  <2>2. CASE p = Null
    <3>1. Missed(call[t]) \in Activation /\ Missed(call[t]).pc \in {"resolve", "done"}
      BY <1>0, MissedIsActivation DEF Missed, Answer, Activation, Phases
    <3>2. QED
      BY <1>1, <2>1, <2>2, <3>1
  <2>3. CASE p # Null
    <3> DEFINE c == [call[t] EXCEPT !.pc = "count", !.key = p, !.i = 1]
    <3>1. p \in Players
      BY <1>0, <2>3 DEF Resolved, Activation
    <3>2. 1 \in 1 .. MaxTracked + 1
      OBVIOUS
    <3>3. Good(c)
      BY <1>0, <3>1, <3>2 DEF Activation
    <3>4. QED
      BY <1>1, <2>1, <2>3, <3>3
  <2>4. QED
    BY <2>2, <2>3
<1>6. CASE FetchType(t)
  <2> DEFINE c == [call[t] EXCEPT !.pc = "type", !.name = tags[call[t].obj]]
  <2>1. CASE call[t].obj \in Players /\ Set(t, c)
    <3>1. tags[call[t].obj] \in SUBSET Markers
      BY <2>1 DEF ListTypeOK
    <3>2. Good(c)
      BY <1>0, <3>1 DEF Activation
    <3>3. QED
      BY <1>1, <2>1, <3>2
  <2>2. CASE Set(t, Answer(call[t], "block"))
    BY <1>0, <1>1, <2>2, AnswerIsActivation
  <2>3. QED
    BY <1>6, <2>1, <2>2 DEF FetchType
<1>7. CASE TestType(t)
  <2>1. PICK v \in {"block", "pass"} : Set(t, Answer(call[t], v))
    BY <1>7 DEF TestType
  <2>2. QED
    BY <1>0, <1>1, <2>1, AnswerIsActivation
<1>8. CASE Return(t)
  <2>1. Good(Idle)
    BY IdleIsActivation DEF Idle
  <2>2. QED
    BY <1>1, <1>8, <2>1 DEF Return
<1>9. QED
  BY <1>2, <1>3, <1>4, <1>5, <1>6, <1>7, <1>8 DEF CallAction

----------------------------------------------------------------------------
(* How the history changes.                                                *)

(* A step of thread t replaces its call and no other thread's.             *)
LEMMA SetEffect ==
  ASSUME CallTypeOK, NEW t \in Threads, NEW c, Set(t, c)
  PROVE  call'[t] = c /\ \A s \in Threads : s # t => call'[s] = call[s]
BY DEF CallTypeOK, Set

\* What a step leaves of thread s when it is in a call before and after.
LEMMA RecordInside ==
  ASSUME Record, NEW s \in Threads, call[s].pc # "idle", call'[s].pc # "idle"
  PROVE  /\ keptSP'[s] = keptSP[s] \cap Unmoved(sp, sp')
         /\ keptHB'[s] = keptHB[s] \cap Unmoved(hb, hb')
         /\ stayed'[s] = stayed[s] \cap linked'
         /\ named'[s] = {p \in named[s] \cap linked' : tags'[p] = tags[p]}
         /\ sure'[s] = sure[s] \cap linked'
BY DEF Record, Inside, StillNamed

\* What is recorded of thread s when it enters the hook.
LEMMA RecordEntering ==
  ASSUME Record, NEW s \in Threads, call[s].pc = "idle", call'[s].pc # "idle"
  PROVE  /\ keptSP'[s] = Unmoved(sp, sp)
         /\ keptHB'[s] = Unmoved(hb, hb)
         /\ stayed'[s] \subseteq linked /\ named'[s] \subseteq linked
         /\ sure'[s] \subseteq vetted
BY DEF Record, Inside

\* Nothing is recorded of a thread outside the hook.
LEMMA RecordOutside ==
  ASSUME Record, NEW s \in Threads, call'[s].pc = "idle"
  PROVE  /\ keptSP'[s] = {} /\ keptHB'[s] = {} /\ stayed'[s] = {} /\ named'[s] = {}
         /\ sure'[s] = {}
BY DEF Record, Inside

(* The markers an address has shown are only ever added to.                *)
LEMMA RecordShown ==
  ASSUME HistoryTypeOK, ListTypeOK', Record
  PROVE  /\ \A p \in Players : shown[p] \subseteq shown'[p]
         /\ \A p \in linked' : tags'[p] \subseteq shown'[p]
BY DEF HistoryTypeOK, ListTypeOK, Record, RecordOccupants

(* The markers an occupant has shown are only ever added to while he stays,*)
(* and are among those of his address.                                     *)
LEMMA RecordOwn ==
  ASSUME HistoryTypeOK, ListTypeOK', Record
  PROVE  /\ \A p \in linked' : tags'[p] \subseteq own'[p]
         /\ \A p \in linked \cap linked' : own'[p] = own[p] \cup tags'[p]
         /\ \A p \in Players : own[p] \subseteq shown[p] => own'[p] \subseteq shown'[p]
<1>1. \A p \in Players :
        /\ own'[p] = IF p \in linked' THEN (IF p \in linked THEN own[p] ELSE {}) \cup tags'[p] ELSE {}
        /\ shown'[p] = IF p \in linked' THEN shown[p] \cup tags'[p] ELSE shown[p]
  BY DEF Record, RecordOccupants
<1>2. linked' \subseteq Players
  BY DEF ListTypeOK
<1>3. QED
  BY <1>1, <1>2

\* A slot that a table has in use is a slot.
LEMMA UnmovedSlots ==
  ASSUME NEW T \in Table, NEW U \in Table
  PROVE  Unmoved(T, U) \subseteq Slots /\ Unmoved(T, U) \subseteq 1 .. U.count
BY ScanAssumption DEF Unmoved, Table, Slots

(* What is recorded keeps its type.                                        *)
LEMMA HistoryTypeStep ==
  ASSUME TypeOK, TypeOK', HistoryTypeOK, Record
  PROVE  HistoryTypeOK'
<1>1. shown' \in [Players -> SUBSET Markers]
  BY DEF HistoryTypeOK, Record, RecordOccupants, TypeOK, ListTypeOK
<1>2. /\ Unmoved(sp, sp') \subseteq Slots /\ Unmoved(sp, sp) \subseteq Slots
      /\ Unmoved(hb, hb') \subseteq Slots /\ Unmoved(hb, hb) \subseteq Slots
  BY UnmovedSlots DEF TypeOK, ScanTypeOK
<1>3. keptSP' \in [Threads -> SUBSET Slots]
  BY <1>2 DEF HistoryTypeOK, Record
<1>4. keptHB' \in [Threads -> SUBSET Slots]
  BY <1>2 DEF HistoryTypeOK, Record
<1>5. stayed' \in [Threads -> SUBSET Players]
  BY DEF HistoryTypeOK, Record, TypeOK, ListTypeOK
<1>6. named' \in [Threads -> SUBSET Players]
  BY DEF HistoryTypeOK, Record, StillNamed, TypeOK, ListTypeOK
<1>7. own' \in [Players -> SUBSET Markers]
  BY DEF HistoryTypeOK, Record, RecordOccupants, TypeOK, ListTypeOK
<1>8. settled' \subseteq Players /\ vetted' \subseteq Players
  BY DEF HistoryTypeOK, Record, RecordOccupants, TypeOK, ListTypeOK
<1>9. sure' \in [Threads -> SUBSET Players]
  BY DEF HistoryTypeOK, Record
<1>10. QED
  BY <1>1, <1>3, <1>4, <1>5, <1>6, <1>7, <1>8, <1>9 DEF HistoryTypeOK

(* Every step keeps every word in its type.                                *)
LEMMA TypeStep == TypeOK /\ [Next]_vars => TypeOK'
<1> SUFFICES ASSUME TypeOK, [Next]_vars PROVE TypeOK'
    OBVIOUS
<1> USE DEF TypeOK
<1>1. CASE ServerStep /\ UNCHANGED <<scanVars, call>>
  <2>1. ListTypeOK'
    BY <1>1, ListTypeStep
  <2>2. ScanTypeOK' /\ CallTypeOK'
    BY <1>1 DEF scanVars, walkVars, ScanTypeOK, CallTypeOK, Table
  <2>3. QED
    BY <2>1, <2>2
<1>2. CASE ScanStep /\ UNCHANGED <<listVars, call>>
  <2>1. ScanTypeOK'
    BY <1>2, ScanTypeStep
  <2>2. ListTypeOK' /\ CallTypeOK'
    BY <1>2 DEF listVars, ListTypeOK, CallTypeOK
  <2>3. QED
    BY <2>1, <2>2
<1>3. ASSUME NEW t \in Threads, Asked(t) \/ CallStep(t) PROVE TypeOK'
  <2>1. CallAction(t) /\ UNCHANGED <<listVars, scanVars>>
    BY <1>3 DEF Asked, CallStep, CallAction
  <2>2. CallTypeOK'
    BY <2>1, CallTypeStep
  <2>3. ListTypeOK' /\ ScanTypeOK'
    BY <2>1 DEF listVars, scanVars, walkVars, ListTypeOK, ScanTypeOK, Table
  <2>4. QED
    BY <2>2, <2>3
<1>4. CASE UNCHANGED vars
  BY <1>4 DEF vars, listVars, scanVars, walkVars, ListTypeOK, ScanTypeOK, CallTypeOK, Table
<1>5. QED
  BY <1>1, <1>2, <1>3, <1>4 DEF Next

(* Every first state is well typed.                                        *)
LEMMA TypeInit == HInit => TypeOK /\ HistoryTypeOK
<1> SUFFICES ASSUME HInit PROVE TypeOK /\ HistoryTypeOK
    OBVIOUS
<1>1. ListTypeOK /\ HistoryTypeOK
  BY DEF HInit, Init, ListInit, ListTypeOK, HistoryTypeOK
<1>2. ScanTypeOK
  BY EmptyIsTable, ScanAssumption DEF HInit, Init, ScanInit, ScanTypeOK, ScanPcs
<1>3. CallTypeOK
  BY IdleIsActivation DEF HInit, Init, CallTypeOK, Idle
<1>4. QED
  BY <1>1, <1>2, <1>3 DEF TypeOK

TypeInv == TypeOK /\ HistoryTypeOK

(* Every reachable state is well typed.                                    *)
LEMMA TypeInvAlways == HSpec => []TypeInv
<1>1. HInit => TypeInv
  BY TypeInit DEF TypeInv
<1>2. TypeInv /\ [HNext]_hvars => TypeInv'
  <2>1. ASSUME TypeInv, HNext PROVE TypeInv'
    BY <2>1, TypeStep, HistoryTypeStep DEF TypeInv, HNext
  <2>2. ASSUME TypeInv, UNCHANGED hvars PROVE TypeInv'
    <3>1. UNCHANGED vars /\ UNCHANGED histVars
      BY <2>2 DEF hvars
    <3>2. TypeOK'
      BY <2>2, <3>1, TypeStep DEF TypeInv
    <3>3. QED
      BY <2>2, <3>1, <3>2 DEF TypeInv, histVars, tableVars, callVars, HistoryTypeOK
  <2>3. QED
    BY <2>1, <2>2
<1>3. QED
  BY <1>1, <1>2, PTL DEF HSpec

(* The hook and the scan thread keep their types in every behaviour: no    *)
(* call reads an entry past the end of a table, whatever count the scan    *)
(* thread stores meanwhile (main.cpp 73-78, 90-95).                        *)
THEOREM HookTypeCorrect == HSpec => []HTypeOK
<1>1. TypeInv => HTypeOK
  BY DEF TypeInv, HTypeOK, HistoryTypeOK
<1>2. QED
  BY <1>1, TypeInvAlways, PTL

----------------------------------------------------------------------------
(* Nobody is isolated without cause.                                       *)

\* Whoever a table names in any slot, in use or not, has shown that marker.
Justified(T, marker) == \A i \in Slots : T.entry[i] \in Players => marker \in shown[T.entry[i]]

TablesCause ==
  /\ \A p \in Players : tags[p] \subseteq shown[p]
  /\ scanPc \in {"testSP", "testHB"} => name \subseteq shown[node]
  /\ Justified(newSP, "SP") /\ Justified(sp, "SP")
  /\ Justified(newHB, "HB") /\ Justified(hb, "HB")

\* Whoever of S a table names, in use or not, has shown that marker himself.
OwnTable(T, marker, S) == \A i \in Slots : T.entry[i] \in S => marker \in own[T.entry[i]]

\* The slots the present publication has already written.
Copied ==
  /\ scanPc \in {"copySP", "countSP", "copyHB", "countHB"} =>
       \A i \in Slots : sp.entry[i] = newSP.entry[i] \/ (scanPc = "copySP" /\ i \in todo)
  /\ scanPc \in {"copyHB", "countHB"} =>
       \A i \in Slots : hb.entry[i] = newHB.entry[i] \/ (scanPc = "copyHB" /\ i \in todo)

OwnInv ==
  /\ settled \subseteq linked /\ vetted \subseteq linked
  /\ scanPc # "sleep" => vetted \subseteq settled
  /\ \A p \in linked : tags[p] \subseteq own[p]
  /\ \A p \in Players : own[p] \subseteq shown[p]
  /\ scanPc \in {"testSP", "testHB"} /\ node \in settled => name \subseteq own[node]
  /\ OwnTable(newSP, "SP", settled) /\ OwnTable(sp, "SP", vetted)
  /\ OwnTable(newHB, "HB", settled) /\ OwnTable(hb, "HB", vetted)
  /\ Copied

BlockCause(t) ==
  LET c == call[t] IN
  Says(t, "block") =>
    \/ c.obj \in Players /\ "SP" \in Blamed(t, c.obj)
    \/ c.tgt \in Players /\ "SP" \in Blamed(t, c.tgt)
    \/ c.tgt \in Players /\ "HB" \in Blamed(t, c.tgt) /\ c.obj \notin named[t]

\* The key a call compares with is the object or the target it was made for;
\* the class of the object is only asked for the sake of a hybrid target.
KeyInv(t) ==
  LET c == call[t] IN
  /\ c.pc # "idle" => c.obj \in Players \cup Objects
  /\ c.pc \in {"count", "entry"} =>
       /\ c.phase = "srcSP" => c.key = c.obj
       /\ c.phase # "srcSP" => c.key = c.tgt /\ c.tgt \in Players
  /\ c.pc = "resolve" => c.phase # "srcSP"
  /\ c.pc \in {"name", "type"} =>
       c.phase = "tgtHB" /\ c.tgt \in Players /\ "HB" \in Blamed(t, c.tgt)
  /\ c.pc = "type" => c.obj \in Players /\ (c.obj \in named[t] => tags[c.obj] = c.name)
  /\ stayed[t] \subseteq linked /\ named[t] \subseteq linked
  /\ sure[t] \subseteq vetted

CauseInv == TablesCause /\ OwnInv /\ \A t \in Threads : KeyInv(t) /\ BlockCause(t)

(* Every first state is in the invariant of causes.                        *)
LEMMA CauseInit == HInit => CauseInv
<1> SUFFICES ASSUME HInit PROVE CauseInv
    OBVIOUS
<1>1. \A T \in {newSP, newHB, sp, hb}, marker \in Markers : Justified(T, marker)
  BY AddressesAssumption DEF HInit, Init, ScanInit, EmptyTable, Justified
<1>2. TablesCause
  BY <1>1 DEF HInit, Init, ListInit, ScanInit, TablesCause, Markers
<1>3. \A t \in Threads : call[t] = Idle /\ stayed[t] = {} /\ named[t] = {} /\ sure[t] = {}
  BY DEF HInit, Init
<1>4. \A t \in Threads : KeyInv(t) /\ BlockCause(t)
  BY <1>3 DEF Idle, KeyInv, BlockCause, Says
<1>5. OwnInv
  BY DEF HInit, Init, ListInit, ScanInit, OwnInv, OwnTable, Copied
<1>6. QED
  BY <1>2, <1>4, <1>5 DEF CauseInv

(* What the scan thread adds or copies is justified, as what it had before *)
(* was (ScanKeepsBacked): the known markers are the shown ones.            *)
LEMMA ScanKeepsCause ==
  ASSUME TypeInv, TypeInv', TablesCause, ScanStep, UNCHANGED <<listVars, call>>, Record
  PROVE  TablesCause'
<1>1. /\ ListTypeOK /\ ScanTypeOK /\ UNCHANGED listVars
      /\ \A p \in Players : shown[p] \subseteq shown'[p]
  BY RecordShown DEF TypeInv, TypeOK
<1>2. Backed(shown)
  BY DEF TablesCause, Justified, Backed, BackedTable
<1>3. ASSUME NEW T, T = shown' PROVE Backed(T)'
  BY <1>1, <1>2, <1>3, ScanKeepsBacked
<1>4. QED
  BY <1>3 DEF TablesCause, Justified, Backed, BackedTable

(* The server changes a name only while its player is on the list, where   *)
(* it is seen: a freed address keeps a name it has shown.                  *)
LEMMA ServerKeepsCause ==
  ASSUME TypeInv, TypeInv', TablesCause, ServerStep, UNCHANGED <<scanVars, call>>, Record
  PROVE  TablesCause'
<1>0. /\ ListTypeOK /\ ScanTypeOK /\ HistoryTypeOK
      /\ UNCHANGED <<scanPc, node, name, newSP, newHB, sp, hb>>
      /\ \A p \in Players : shown[p] \subseteq shown'[p]
      /\ \A p \in linked' : tags'[p] \subseteq shown'[p]
  BY RecordShown DEF TypeInv, TypeOK, scanVars, walkVars
<1>1. \A p \in Players \ linked' : tags'[p] = tags[p]
  BY <1>0 DEF ServerStep, Connect, Disconnect, Rename, ListTypeOK
<1>2. \A p \in Players : tags'[p] \subseteq shown'[p]
  BY <1>0, <1>1 DEF TablesCause
<1>3. scanPc' \in {"testSP", "testHB"} => name' \subseteq shown'[node']
  BY <1>0 DEF TablesCause, ScanTypeOK
<1>4. /\ Justified(newSP, "SP")' /\ Justified(sp, "SP")'
      /\ Justified(newHB, "HB")' /\ Justified(hb, "HB")'
  BY <1>0 DEF TablesCause, Justified
<1>5. QED
  BY <1>2, <1>3, <1>4 DEF TablesCause

(* How the recorded occupants change when the scan thread does nothing.    *)
LEMMA RecordResting ==
  ASSUME TypeInv, TypeInv', OwnInv, scanPc' = scanPc, hb' = hb, Record
  PROVE  /\ settled' \subseteq settled \cap linked'
         /\ vetted' = vetted \cap linked'
         /\ scanPc # "sleep" => settled' = settled \cap linked'
<1>1. ~CountHB
  BY DEF CountHB
<1>2. QED
  BY <1>1 DEF Record, RecordOccupants

(* Whoever is vetted stays so while he stays.                              *)
LEMMA VettedStays ==
  ASSUME OwnInv, Record PROVE vetted \cap linked' \subseteq vetted'
<1>1. CountHB => vetted \subseteq settled
  BY DEF CountHB, OwnInv
<1>2. QED
  BY <1>1 DEF Record, RecordOccupants

(* The server's steps and the calls keep what is known of the occupants:   *)
(* who stays keeps what he has shown, and who joins is neither settled nor *)
(* vetted.                                                                 *)
LEMMA RestKeepsOwn ==
  ASSUME TypeInv, TypeInv', OwnInv, UNCHANGED scanVars, Record
  PROVE  OwnInv'
<1>0. /\ ListTypeOK' /\ HistoryTypeOK /\ linked' \subseteq Players /\ linked \subseteq Players
      /\ UNCHANGED <<scanPc, node, name, newSP, newHB, todo, sp, hb>>
  BY DEF TypeInv, TypeOK, ListTypeOK, scanVars, walkVars
<1>1. /\ settled' \subseteq settled \cap linked' /\ vetted' = vetted \cap linked'
      /\ scanPc # "sleep" => settled' = settled \cap linked'
      /\ settled \subseteq linked /\ vetted \subseteq linked
  BY <1>0, RecordResting DEF OwnInv
<1>2. /\ \A p \in linked' : tags'[p] \subseteq own'[p]
      /\ \A p \in linked \cap linked' : own[p] \subseteq own'[p]
      /\ \A p \in Players : own'[p] \subseteq shown'[p]
  BY <1>0, RecordOwn DEF OwnInv
<1>3. \A p \in settled' \cup vetted' : own[p] \subseteq own'[p]
  BY <1>1, <1>2
<1>4. scanPc' \in {"testSP", "testHB"} /\ node' \in settled' => name' \subseteq own'[node']
  BY <1>0, <1>1, <1>3 DEF OwnInv
<1>5. /\ OwnTable(newSP, "SP", settled)' /\ OwnTable(sp, "SP", vetted)'
      /\ OwnTable(newHB, "HB", settled)' /\ OwnTable(hb, "HB", vetted)'
  BY <1>0, <1>1, <1>3 DEF OwnInv, OwnTable
<1>6. Copied'
  BY <1>0 DEF OwnInv, Copied
<1>7. scanPc' # "sleep" => vetted' \subseteq settled'
  BY <1>0, <1>1 DEF OwnInv
<1>8. QED
  BY <1>1, <1>2, <1>4, <1>5, <1>6, <1>7 DEF OwnInv

(* A scan collects of whoever stays only what he has shown himself, since  *)
(* its lists start empty; once both are published, so do the tables        *)
(* (main.cpp 171-236).                                                     *)
LEMMA ScanKeepsOwn ==
  ASSUME TypeInv, TypeInv', OwnInv, ScanStep, UNCHANGED listVars, Record
  PROVE  OwnInv'
<1> USE AddressesAssumption
<1>0. /\ ListTypeOK' /\ HistoryTypeOK /\ ScanTypeOK /\ linked \subseteq Players
      /\ linked' = linked /\ tags' = tags
      /\ settled \subseteq linked /\ vetted \subseteq linked
  BY DEF TypeInv, TypeOK, ListTypeOK, listVars, OwnInv
<1>1. /\ \A p \in linked : tags'[p] \subseteq own'[p] /\ own[p] \subseteq own'[p]
      /\ \A p \in Players : own'[p] \subseteq shown'[p]
  BY <1>0, RecordOwn DEF OwnInv
<1>2. ASSUME NEW T, NEW marker, NEW S \in SUBSET linked, OwnTable(T, marker, S)
      PROVE  \A i \in Slots : T.entry[i] \in S => marker \in own'[T.entry[i]]
  BY <1>1, <1>2 DEF OwnTable
\* A step in the middle of a scan: it remains to show what the walk and the tables hold.
<1>3. ASSUME scanPc # "sleep", scanPc' # "sleep", ~CountHB,
             scanPc' \in {"testSP", "testHB"} /\ node' \in settled => name' \subseteq own'[node'],
             \A i \in Slots : newSP'.entry[i] \in settled => "SP" \in own'[newSP'.entry[i]],
             \A i \in Slots : newHB'.entry[i] \in settled => "HB" \in own'[newHB'.entry[i]],
             \A i \in Slots : sp'.entry[i] \in vetted => "SP" \in own'[sp'.entry[i]],
             \A i \in Slots : hb'.entry[i] \in vetted => "HB" \in own'[hb'.entry[i]],
             Copied'
      PROVE  OwnInv'
  <2>1. settled' = settled /\ vetted' = vetted
    BY <1>0, <1>3 DEF Record, RecordOccupants
  <2>2. QED
    BY <1>0, <1>1, <1>3, <2>1 DEF OwnInv, OwnTable
<1>4. /\ \A i \in Slots : newSP.entry[i] \in settled => "SP" \in own'[newSP.entry[i]]
      /\ \A i \in Slots : newHB.entry[i] \in settled => "HB" \in own'[newHB.entry[i]]
      /\ \A i \in Slots : sp.entry[i] \in vetted => "SP" \in own'[sp.entry[i]]
      /\ \A i \in Slots : hb.entry[i] \in vetted => "HB" \in own'[hb.entry[i]]
      /\ scanPc # "sleep" => vetted \subseteq settled
      /\ Copied
  BY <1>0, <1>2 DEF OwnInv
<1>5. CASE Wake
  <2>1. /\ scanPc = "sleep" /\ scanPc' = "fetch" /\ sp' = sp /\ hb' = hb
        /\ newSP' = EmptyTable /\ newHB' = EmptyTable
    BY <1>5 DEF Wake
  <2>2. settled' = linked /\ vetted' = vetted
    BY <1>0, <2>1 DEF Record, RecordOccupants, CountHB
  <2>3. /\ OwnTable(newSP, "SP", settled)' /\ OwnTable(newHB, "HB", settled)'
        /\ OwnTable(sp, "SP", vetted)' /\ OwnTable(hb, "HB", vetted)'
    BY <1>0, <1>4, <2>1, <2>2 DEF OwnTable, EmptyTable
  <2>4. Copied'
    BY <2>1 DEF Copied
  <2>5. QED
    BY <1>0, <1>1, <2>1, <2>2, <2>3, <2>4 DEF OwnInv
<1>6. CASE FetchName
  <2>1. /\ scanPc = "fetch" /\ UNCHANGED <<node, newSP, newHB, todo, sp, hb>>
        /\ \/ scanPc' = "testSP" /\ name' = tags[node]
           \/ scanPc' = "advance"
    BY <1>6 DEF FetchName
  <2>2. Copied' /\ ~CountHB
    BY <2>1 DEF Copied, CountHB
  <2>3. QED
    BY <1>0, <1>1, <1>3, <1>4, <2>1, <2>2
<1>7. ASSUME scanPc \in {"testSP", "testHB"}, node \in settled
      PROVE  \A found \in ReadName : found \subseteq own'[node]
  <2>1. node \in linked /\ name \subseteq own'[node] /\ tags[node] \subseteq own'[node]
    BY <1>0, <1>1, <1>7 DEF OwnInv
  <2>2. QED
    BY <2>1 DEF ReadName
<1>8. CASE TestSP
  <2>1. PICK found \in ReadName :
          IF "SP" \in found /\ HasRoom(newSP)
            THEN newSP' = Add(newSP, node) /\ scanPc' = "advance"
            ELSE UNCHANGED newSP /\ scanPc' = "testHB"
    BY <1>8 DEF TestSP
  <2>2. scanPc = "testSP" /\ UNCHANGED <<node, name, newHB, todo, sp, hb>>
        /\ scanPc' \in {"advance", "testHB"}
    BY <1>8, <2>1 DEF TestSP
  <2>3. \A i \in Slots : newSP'.entry[i] \in settled => "SP" \in own'[newSP'.entry[i]]
    <3>1. CASE "SP" \in found /\ HasRoom(newSP)
      <4>1. \A i \in Slots : newSP'.entry[i] = newSP.entry[i] \/ newSP'.entry[i] = node
        BY <1>0, <2>1, <3>1 DEF Add, ScanTypeOK, Table
      <4>2. node \in settled => "SP" \in own'[node]
        BY <1>7, <2>2, <3>1
      <4>3. QED
        BY <1>4, <4>1, <4>2
    <3>2. CASE ~("SP" \in found /\ HasRoom(newSP))
      BY <1>4, <2>1, <3>2
    <3>3. QED
      BY <3>1, <3>2
  <2>4. Copied' /\ ~CountHB
    BY <2>2 DEF Copied, CountHB
  <2>5. node' \in settled => name' \subseteq own'[node']
    BY <1>0, <1>1, <2>2 DEF OwnInv
  <2>6. QED
    BY <1>3, <1>4, <2>2, <2>3, <2>4, <2>5
<1>9. CASE TestHB
  <2>1. PICK found \in ReadName :
          newHB' = IF "HB" \in found /\ HasRoom(newHB) THEN Add(newHB, node) ELSE newHB
    BY <1>9 DEF TestHB
  <2>2. scanPc = "testHB" /\ scanPc' = "advance" /\ UNCHANGED <<node, name, newSP, todo, sp, hb>>
    BY <1>9 DEF TestHB
  <2>3. \A i \in Slots : newHB'.entry[i] \in settled => "HB" \in own'[newHB'.entry[i]]
    <3>1. CASE "HB" \in found /\ HasRoom(newHB)
      <4>1. \A i \in Slots : newHB'.entry[i] = newHB.entry[i] \/ newHB'.entry[i] = node
        BY <1>0, <2>1, <3>1 DEF Add, ScanTypeOK, Table
      <4>2. node \in settled => "HB" \in own'[node]
        BY <1>7, <2>2, <3>1
      <4>3. QED
        BY <1>4, <4>1, <4>2
    <3>2. CASE ~("HB" \in found /\ HasRoom(newHB))
      BY <1>4, <2>1, <3>2
    <3>3. QED
      BY <3>1, <3>2
  <2>4. Copied' /\ ~CountHB
    BY <2>2 DEF Copied, CountHB
  <2>5. QED
    BY <1>3, <1>4, <2>2, <2>3, <2>4
<1>10. CASE Advance \/ LogLeavers
  <2>1. /\ UNCHANGED <<name, newSP, newHB, sp, hb>>
        /\ scanPc \in {"advance", "log"} /\ scanPc' \in {"fetch", "log", "copySP"}
        /\ scanPc' = "copySP" => todo' = Slots
    BY <1>10 DEF Advance, LogLeavers, GoTo
  <2>2. Copied' /\ ~CountHB
    BY <2>1 DEF Copied, CountHB
  <2>3. QED
    BY <1>3, <1>4, <2>1, <2>2
<1>11. CASE Fault
  <2>1. /\ UNCHANGED <<name, newSP, newHB, sp, hb>>
        /\ scanPc \in {"advance", "log"} /\ scanPc' = "except"
    BY <1>11 DEF Fault
  <2>2. Copied' /\ ~CountHB
    BY <2>1 DEF Copied, CountHB
  <2>3. QED
    BY <1>3, <1>4, <2>1, <2>2
<1>12. CASE Recover
  <2>1. scanPc = "except" /\ scanPc' = "sleep" /\ UNCHANGED <<sp, hb>>
    BY <1>12 DEF Recover
  <2>2. settled' = {} /\ vetted' = vetted
    BY <1>0, <2>1 DEF Record, RecordOccupants, CountHB
  <2>3. QED
    BY <1>0, <1>1, <1>4, <2>1, <2>2 DEF OwnInv, OwnTable, Copied
<1>13. ASSUME NEW i \in Slots, CopySP(i) PROVE OwnInv'
  <2>1. /\ scanPc = "copySP" /\ scanPc' \in {"copySP", "countSP"}
        /\ todo' = todo \ {i} /\ (scanPc' = "countSP" => todo = {i})
        /\ UNCHANGED <<node, name, newSP, newHB, hb>>
    BY <1>13 DEF CopySP
  <2>2. \A k \in Slots : sp'.entry[k] = IF k = i THEN newSP.entry[k] ELSE sp.entry[k]
    BY <1>0, <1>13 DEF CopySP, ScanTypeOK, Table
  <2>3. Copied' /\ ~CountHB
    BY <1>4, <2>1, <2>2 DEF Copied, CountHB
  <2>4. \A k \in Slots : sp'.entry[k] \in vetted => "SP" \in own'[sp'.entry[k]]
    BY <1>4, <2>1, <2>2
  <2>5. QED
    BY <1>3, <1>4, <2>1, <2>3, <2>4
<1>14. CASE CountSP
  <2>1. /\ scanPc = "countSP" /\ scanPc' = "copyHB" /\ todo' = Slots
        /\ UNCHANGED <<node, name, newSP, newHB, hb>>
    BY <1>14 DEF CountSP
  <2>2. sp'.entry = sp.entry
    BY <1>0, <1>14 DEF CountSP, ScanTypeOK, Table
  <2>3. Copied' /\ ~CountHB
    BY <1>4, <2>1, <2>2 DEF Copied, CountHB
  <2>4. QED
    BY <1>3, <1>4, <2>1, <2>2, <2>3
<1>15. ASSUME NEW i \in Slots, CopyHB(i) PROVE OwnInv'
  <2>1. /\ scanPc = "copyHB" /\ scanPc' \in {"copyHB", "countHB"}
        /\ todo' = todo \ {i} /\ (scanPc' = "countHB" => todo = {i})
        /\ UNCHANGED <<node, name, newSP, newHB, sp>>
    BY <1>15 DEF CopyHB
  <2>2. \A k \in Slots : hb'.entry[k] = IF k = i THEN newHB.entry[k] ELSE hb.entry[k]
    BY <1>0, <1>15 DEF CopyHB, ScanTypeOK, Table
  <2>3. Copied' /\ ~CountHB
    BY <1>4, <2>1, <2>2 DEF Copied, CountHB
  <2>4. \A k \in Slots : hb'.entry[k] \in vetted => "HB" \in own'[hb'.entry[k]]
    BY <1>4, <2>1, <2>2
  <2>5. QED
    BY <1>3, <1>4, <2>1, <2>3, <2>4
<1>16. CASE CountHB
  <2>1. scanPc = "countHB" /\ scanPc' = "sleep" /\ sp' = sp /\ hb'.entry = hb.entry
    BY <1>0, <1>16 DEF CountHB, ScanTypeOK, Table
  <2>2. settled' = {} /\ vetted' = settled
    BY <1>0, <1>16, <2>1 DEF Record, RecordOccupants
  <2>3. \A i \in Slots : sp.entry[i] = newSP.entry[i] /\ hb.entry[i] = newHB.entry[i]
    BY <1>4, <2>1 DEF Copied
  <2>4. OwnTable(sp, "SP", vetted)' /\ OwnTable(hb, "HB", vetted)'
    BY <1>4, <2>1, <2>2, <2>3 DEF OwnTable
  <2>5. Copied' /\ OwnTable(newSP, "SP", settled)' /\ OwnTable(newHB, "HB", settled)'
    BY <2>1, <2>2 DEF Copied, OwnTable
  <2>6. QED
    BY <1>0, <1>1, <2>1, <2>2, <2>4, <2>5 DEF OwnInv
<1>17. QED
  BY <1>5, <1>6, <1>8, <1>9, <1>10, <1>11, <1>12, <1>13, <1>14, <1>15, <1>16 DEF ScanStep

(* Blame is only ever added to in the course of a call: who leaves loses   *)
(* the protection of being known for himself.                              *)
LEMMA BlameGrows ==
  ASSUME TypeInv, TypeInv', OwnInv, Record, NEW t \in Threads, sure[t] \subseteq vetted,
         call[t].pc # "idle", call'[t].pc # "idle"
  PROVE  \A p \in Players : Blamed(t, p) \subseteq Blamed(t, p)'
<1>1. sure'[t] = sure[t] \cap linked' /\ sure[t] \subseteq linked
  BY RecordInside DEF OwnInv
<1>2. /\ \A p \in linked \cap linked' : own[p] \subseteq own'[p]
      /\ \A p \in Players : own[p] \subseteq shown[p] /\ shown[p] \subseteq shown'[p]
  BY RecordOwn, RecordShown DEF TypeInv, TypeOK, OwnInv
<1>3. QED
  BY <1>1, <1>2 DEF Blamed

(* Whoever a table names may be blamed for it.                             *)
LEMMA TableBlames ==
  ASSUME TypeInv, TablesCause, OwnInv, NEW t \in Threads, sure[t] \subseteq vetted, NEW i \in Slots
  PROVE  /\ sp.entry[i] \in Players => "SP" \in Blamed(t, sp.entry[i])
         /\ hb.entry[i] \in Players => "HB" \in Blamed(t, hb.entry[i])
BY DEF TablesCause, Justified, OwnInv, OwnTable, Blamed

(* A call in which this step does nothing keeps the cause of its verdict.  *)
LEMMA BystanderKeepsCause ==
  ASSUME TypeInv, TypeInv', OwnInv, Record, NEW s \in Threads, call'[s] = call[s],
         KeyInv(s), BlockCause(s)
  PROVE  KeyInv(s)' /\ BlockCause(s)'
<1>1. /\ stayed'[s] \subseteq stayed[s] /\ stayed'[s] \subseteq linked'
      /\ named'[s] \subseteq named[s] /\ named'[s] \subseteq linked'
      /\ \A p \in named'[s] : tags'[p] = tags[p]
      /\ sure'[s] \subseteq sure[s] \cap linked'
  BY RecordInside, RecordOutside
<1>2. sure[s] \subseteq vetted /\ sure'[s] \subseteq vetted'
  BY <1>1, VettedStays DEF KeyInv
<1>3. call[s].pc # "idle" => \A p \in Players : Blamed(s, p) \subseteq Blamed(s, p)'
  BY <1>2, BlameGrows
<1>4. KeyInv(s)'
  BY <1>1, <1>2, <1>3 DEF KeyInv
<1>5. BlockCause(s)'
  BY <1>1, <1>3 DEF BlockCause, Says
<1>6. QED
  BY <1>4, <1>5

(* A call finds its key only where a table justifies it.                   *)
LEMMA CallKeepsCause ==
  ASSUME TypeInv, TypeInv', Record, TablesCause, OwnInv, NEW t \in Threads, KeyInv(t), BlockCause(t),
         CallAction(t), UNCHANGED <<listVars, scanVars>>
  PROVE  KeyInv(t)' /\ BlockCause(t)'
<1> USE AddressesAssumption, ObjectsAssumption
<1>0. /\ call \in [Threads -> Activation] /\ CallTypeOK
      /\ call[t] \in Activation
      /\ linked' = linked /\ linked \subseteq Players /\ tags' = tags
      /\ stayed'[t] \subseteq linked /\ named'[t] \subseteq linked
      /\ call[t].pc # "idle" => named'[t] \subseteq named[t]
      /\ sure[t] \subseteq vetted /\ sure'[t] \subseteq vetted'
  <2>1. /\ call \in [Threads -> Activation] /\ CallTypeOK
        /\ linked' = linked /\ linked \subseteq Players /\ tags' = tags
        /\ stayed[t] \subseteq linked /\ named[t] \subseteq linked /\ sure[t] \subseteq vetted
        /\ vetted \subseteq linked
    BY DEF TypeInv, TypeOK, CallTypeOK, ListTypeOK, listVars, KeyInv, OwnInv
  <2>2. sure'[t] \subseteq vetted \cap linked'
    BY <2>1, RecordInside, RecordEntering, RecordOutside
  <2>3. sure'[t] \subseteq vetted'
    BY <2>2, VettedStays
  <2>4. stayed'[t] \subseteq linked /\ named'[t] \subseteq linked
    BY <2>1, RecordInside, RecordEntering, RecordOutside
  <2>5. call[t].pc # "idle" => named'[t] \subseteq named[t]
    BY <2>1, RecordInside, RecordOutside
  <2>6. QED
    BY <2>1, <2>3, <2>4, <2>5
\* Whatever a call has found so far it may still be blamed for.
<1>a. ASSUME call[t].pc # "idle", call'[t].pc # "idle"
       PROVE  \A p \in Players : Blamed(t, p) \subseteq Blamed(t, p)'
  BY <1>0, <1>a, BlameGrows
<1>1. ASSUME NEW o \in Players \cup Objects, NEW p \in Players \cup {Null}, Enter(t, o, p)
      PROVE  KeyInv(t)' /\ BlockCause(t)'
  <2>1. call'[t] = [pc |-> "count", phase |-> "srcSP", obj |-> o, tgt |-> p,
                    key |-> o, i |-> 1, name |-> {}, verdict |-> "none"]
    BY <1>0, <1>1, SetEffect DEF Enter
  <2>2. QED
    BY <1>0, <2>1 DEF KeyInv, BlockCause, Says
<1>2. ASSUME call[t].pc \in {"count", "entry", "resolve"}, Set(t, Missed(call[t]))
      PROVE  KeyInv(t)' /\ BlockCause(t)'
  <2>1. call'[t] = Missed(call[t])
    BY <1>0, <1>2, SetEffect
  <2>2. /\ Missed(call[t]).obj = call[t].obj
        /\ \/ Missed(call[t]).pc = "resolve" /\ Missed(call[t]).phase # "srcSP"
           \/ Missed(call[t]).pc = "done" /\ Missed(call[t]).verdict = "pass"
    BY <1>0 DEF Missed, Answer, Activation, Phases
  <2>3. QED
    BY <1>0, <1>2, <2>1, <2>2 DEF KeyInv, BlockCause, Says
<1>3. CASE CheckCount(t)
  <2>1. CASE call[t].i <= TableOf(call[t].phase).count
    <3>1. call'[t] = [call[t] EXCEPT !.pc = "entry"] /\ call[t].pc = "count"
      BY <1>0, <1>3, <2>1, SetEffect DEF CheckCount
    <3>2. QED
      BY <1>0, <3>1 DEF KeyInv, BlockCause, Says, Activation
  <2>2. CASE ~(call[t].i <= TableOf(call[t].phase).count)
    BY <1>2, <1>3, <2>2 DEF CheckCount
  <2>3. QED
    BY <2>1, <2>2
<1>4. CASE CheckEntry(t)
  <2> DEFINE c == call[t]
  <2>0. c.pc = "entry" /\ c.i \in Slots
    BY <1>0, <1>4 DEF CheckEntry, CallTypeOK
  <2>1. CASE TableOf(c.phase).entry[c.i] = c.key
    <3>1. call'[t] = Found(c)
      BY <1>0, <1>4, <2>1, SetEffect DEF CheckEntry
    <3>2. ASSUME c.phase # "tgtHB"
          PROVE  /\ call'[t].pc = "done" /\ call'[t].verdict = "block"
                 /\ call'[t].obj = c.obj /\ call'[t].tgt = c.tgt
      BY <1>0, <3>1, <3>2, AnswerIsActivation DEF Found
    <3>3. c.phase # "tgtHB" => KeyInv(t)'
      BY <1>0, <2>0, <3>2 DEF KeyInv
    <3>4. CASE c.phase = "srcSP"
      <4>1. sp.entry[c.i] = c.obj
        BY <2>0, <2>1, <3>4 DEF TableOf, KeyInv
      <4>2. c.obj \in Players
        BY <2>0, <4>1 DEF KeyInv, TypeInv, TypeOK, ScanTypeOK, Table
      <4>3. "SP" \in Blamed(t, c.obj)'
        BY <1>0, <1>a, <2>0, <3>2, <3>4, <4>1, <4>2, TableBlames
      <4>4. QED
        BY <3>2, <3>3, <3>4, <4>2, <4>3 DEF BlockCause
    <3>5. CASE c.phase = "tgtSP"
      <4>1. sp.entry[c.i] = c.tgt /\ c.tgt \in Players
        BY <2>0, <2>1, <3>5 DEF TableOf, KeyInv
      <4>2. "SP" \in Blamed(t, c.tgt)'
        BY <1>0, <1>a, <2>0, <3>2, <3>5, <4>1, TableBlames
      <4>3. QED
        BY <3>2, <3>3, <3>5, <4>1, <4>2 DEF BlockCause
    <3>6. CASE c.phase = "tgtHB"
      <4>1. hb.entry[c.i] = c.tgt /\ c.tgt \in Players
        BY <2>0, <2>1, <3>6 DEF TableOf, KeyInv
      <4>3. /\ call'[t].pc = "name" /\ call'[t].phase = "tgtHB"
            /\ call'[t].obj = c.obj /\ call'[t].tgt = c.tgt
        BY <1>0, <3>1, <3>6 DEF Found, Activation
      <4>2. "HB" \in Blamed(t, c.tgt)'
        BY <1>0, <1>a, <2>0, <4>1, <4>3, TableBlames
      <4>4. QED
        BY <1>0, <2>0, <4>1, <4>2, <4>3 DEF KeyInv, BlockCause, Says
    <3>7. QED
      BY <1>0, <3>4, <3>5, <3>6 DEF Activation, Phases
  <2>2. CASE TableOf(c.phase).entry[c.i] # c.key
    <3>1. call'[t] = [c EXCEPT !.pc = "count", !.i = c.i + 1]
      BY <1>0, <1>4, <2>2, SetEffect DEF CheckEntry
    <3>2. QED
      BY <1>0, <2>0, <3>1 DEF KeyInv, BlockCause, Says, Activation
  <2>3. QED
    BY <2>1, <2>2
<1>5. CASE Resolve(t)
  <2>1. PICK p \in Resolved(call[t].tgt) :
          Set(t, IF p = Null THEN Missed(call[t])
                             ELSE [call[t] EXCEPT !.pc = "count", !.key = p, !.i = 1])
    BY <1>5 DEF Resolve
  <2>2. call[t].pc = "resolve"
    BY <1>5 DEF Resolve
  <2>3. CASE p = Null
    BY <1>2, <2>1, <2>2, <2>3
  <2>4. CASE p # Null
    <3>1. p = call[t].tgt /\ p \in Players
      BY <1>0, <2>4 DEF Resolved, Activation
    <3>2. call'[t] = [call[t] EXCEPT !.pc = "count", !.key = p, !.i = 1]
      BY <1>0, <2>1, <2>4, SetEffect
    <3>3. QED
      BY <1>0, <2>2, <3>1, <3>2 DEF KeyInv, BlockCause, Says, Activation
  <2>5. QED
    BY <2>3, <2>4
<1>6. ASSUME NEW v \in {"block", "pass"}, call[t].pc \in {"name", "type"},
             call'[t] = Answer(call[t], v), v = "block" => call[t].obj \notin named'[t]
      PROVE  KeyInv(t)' /\ BlockCause(t)'
  <2>1. /\ call'[t].pc = "done" /\ call'[t].verdict = v
        /\ call'[t].obj = call[t].obj /\ call'[t].tgt = call[t].tgt
    BY <1>0, <1>6, AnswerIsActivation
  <2>2. call[t].tgt \in Players /\ "HB" \in Blamed(t, call[t].tgt)'
    BY <1>0, <1>a, <1>6, <2>1 DEF KeyInv
  <2>3. KeyInv(t)'
    BY <1>0, <1>6, <2>1 DEF KeyInv
  <2>4. QED
    BY <1>6, <2>1, <2>2, <2>3 DEF BlockCause, Says
<1>7. CASE FetchType(t)
  <2> DEFINE c == call[t]
  <2>0. c.pc = "name"
    BY <1>7 DEF FetchType
  <2>1. CASE c.obj \in Players /\ Set(t, [c EXCEPT !.pc = "type", !.name = tags[c.obj]])
    <3>1. call'[t] = [c EXCEPT !.pc = "type", !.name = tags[c.obj]]
      BY <1>0, <2>1, SetEffect
    <3>2. /\ call'[t].pc = "type" /\ call'[t].name = tags[c.obj] /\ call'[t].phase = c.phase
          /\ call'[t].obj = c.obj /\ call'[t].tgt = c.tgt
      BY <1>0, <3>1 DEF Activation
    <3>3. QED
      BY <1>0, <1>a, <2>0, <2>1, <3>2 DEF KeyInv, BlockCause, Says
  <2>2. CASE c.obj \notin linked /\ Set(t, Answer(c, "block"))
    <3>1. call'[t] = Answer(c, "block")
      BY <1>0, <2>2, SetEffect
    <3>2. QED
      BY <1>0, <1>6, <2>0, <2>2, <3>1
  <2>3. QED
    BY <1>7, <2>1, <2>2 DEF FetchType
<1>8. CASE TestType(t)
  <2> DEFINE c == call[t]
  <2>1. PICK character \in IsCharacterType(c) :
          Set(t, Answer(c, IF character THEN "pass" ELSE "block"))
    BY <1>8 DEF TestType
  <2>2. c.pc = "type"
    BY <1>8 DEF TestType
  <2>3. character \/ c.obj \notin named'[t]
    BY <1>0, <2>1, <2>2 DEF IsCharacterType, KeyInv
  <2>4. call'[t] = Answer(c, IF character THEN "pass" ELSE "block")
    BY <1>0, <2>1, SetEffect
  <2>5. QED
    BY <1>6, <2>2, <2>3, <2>4
<1>9. CASE Return(t)
  <2>1. call'[t] = Idle
    BY <1>0, <1>9, SetEffect DEF Return
  <2>2. QED
    BY <1>0, <2>1 DEF Idle, KeyInv, BlockCause, Says
<1>10. QED
  BY <1>1, <1>3, <1>4, <1>5, <1>7, <1>8, <1>9 DEF CallAction

(* Every step keeps the invariant of causes.                               *)
LEMMA CauseStep == TypeInv /\ TypeInv' /\ CauseInv /\ [HNext]_hvars => CauseInv'
<1> SUFFICES ASSUME TypeInv, TypeInv', CauseInv, [HNext]_hvars PROVE CauseInv'
    OBVIOUS
<1> USE DEF CauseInv
<1>1. CASE ServerStep /\ UNCHANGED <<scanVars, call>> /\ Record
  BY <1>1, ServerKeepsCause, RestKeepsOwn, BystanderKeepsCause
<1>2. CASE ScanStep /\ UNCHANGED <<listVars, call>> /\ Record
  BY <1>2, ScanKeepsCause, ScanKeepsOwn, BystanderKeepsCause
<1>3. ASSUME NEW t \in Threads, Asked(t) \/ CallStep(t), Record PROVE CauseInv'
  <2>1. CallAction(t) /\ UNCHANGED <<listVars, scanVars>>
    BY <1>3 DEF Asked, CallStep, CallAction
  <2>2. KeyInv(t)' /\ BlockCause(t)'
    BY <1>3, <2>1, CallKeepsCause
  <2>3. ASSUME NEW s \in Threads, s # t PROVE call'[s] = call[s]
    BY <2>1, <2>3 DEF CallAction, Enter, CheckCount, CheckEntry, Resolve, FetchType, TestType, Return, Set,
                      TypeInv, TypeOK, CallTypeOK
  <2>4. ASSUME NEW s \in Threads, s # t PROVE KeyInv(s)' /\ BlockCause(s)'
    BY <1>3, <2>3, <2>4, BystanderKeepsCause
  <2>5. TablesCause'
    BY <1>3, <2>1, RecordShown DEF TypeInv, TypeOK, TablesCause, Justified, ListTypeOK, ScanTypeOK,
                                   listVars, scanVars, walkVars
  <2>6. OwnInv'
    BY <1>3, <2>1, RestKeepsOwn
  <2>7. QED
    BY <2>2, <2>4, <2>5, <2>6
<1>4. CASE UNCHANGED hvars
  BY <1>4 DEF hvars, vars, histVars, tableVars, callVars, listVars, scanVars, walkVars, TablesCause, Justified,
              OwnInv, OwnTable, Copied, Blamed, KeyInv, BlockCause, Says
<1>5. QED
  BY <1>1, <1>2, <1>3, <1>4 DEF HNext, Next

(* The invariant of causes holds in every reachable state.                 *)
LEMMA CauseInvAlways == HSpec => []CauseInv
BY CauseInit, CauseStep, TypeInvAlways, PTL DEF HSpec

(* Nobody is isolated who did not ask for it, for any number of players    *)
(* and server threads and however the tables are torn.  Whoever joins at   *)
(* an address that was used before answers for his predecessor until the   *)
(* first scan that began after he joined is published, and from then on    *)
(* for himself alone (main.cpp 119-154, 165-241).                          *)
THEOREM BlockHasCauseAlways == HSpec => []BlockHasCause
<1>1. CauseInv => BlockHasCause
  BY DEF CauseInv, BlockCause, BlockHasCause
<1>2. QED
  BY <1>1, CauseInvAlways, PTL

----------------------------------------------------------------------------
(* Kept slots protect.                                                     *)

\* Where the loops of thread t stand, seen from the slots that did not change.
LoopSP(t) ==
  LET c == call[t] IN
  \A k \in keptSP[t] :
    /\ k \in 1 .. sp.count
    /\ c.pc \in {"count", "entry"} /\ c.phase = "srcSP" /\ sp.entry[k] = c.obj => c.i <= k
    /\ c.phase # "srcSP" /\ c.pc # "idle" => sp.entry[k] # c.obj
    /\ c.pc \in {"count", "entry"} /\ c.phase = "tgtSP" /\ sp.entry[k] = c.tgt => c.i <= k
    /\ c.phase = "tgtHB" /\ c.pc # "idle" /\ c.tgt \in stayed[t] => sp.entry[k] # c.tgt

LoopHB(t) ==
  LET c == call[t] IN
  \A k \in keptHB[t] :
    /\ k \in 1 .. hb.count
    /\ c.pc \in {"count", "entry"} /\ c.phase = "tgtHB" /\ hb.entry[k] = c.tgt => c.i <= k
    /\ Says(t, "pass") /\ c.obj \in Objects /\ c.tgt \in stayed[t] => hb.entry[k] # c.tgt

LoopInv == \A t \in Threads :
  /\ LoopSP(t) /\ LoopHB(t)
  /\ Says(t, "pass") => call[t].phase = "tgtHB"

(* Every first state is in the invariant of the loops.                     *)
LEMMA LoopInit == HInit => LoopInv
BY DEF HInit, Init, Idle, LoopInv, LoopSP, LoopHB, Says

(* A publication disturbs no slot that stays kept.                         *)
LEMMA BystanderKeepsLoop ==
  ASSUME TypeInv, TypeInv', Record, NEW s \in Threads, call'[s] = call[s], LoopSP(s), LoopHB(s)
  PROVE  LoopSP(s)' /\ LoopHB(s)'
<1>1. CASE call[s].pc = "idle"
  BY <1>1, RecordOutside DEF LoopSP, LoopHB
<1>2. CASE call[s].pc # "idle"
  <2>1. /\ keptSP'[s] = keptSP[s] \cap Unmoved(sp, sp')
        /\ keptHB'[s] = keptHB[s] \cap Unmoved(hb, hb')
        /\ stayed'[s] = stayed[s] \cap linked'
    BY <1>2, RecordInside
  <2>2. \A k \in keptSP'[s] : k \in keptSP[s] /\ k \in 1 .. sp'.count /\ sp'.entry[k] = sp.entry[k]
    BY <2>1 DEF Unmoved
  <2>3. \A k \in keptHB'[s] : k \in keptHB[s] /\ k \in 1 .. hb'.count /\ hb'.entry[k] = hb.entry[k]
    BY <2>1 DEF Unmoved
  <2>4. QED
    BY <2>1, <2>2, <2>3 DEF LoopSP, LoopHB, Says
<1>3. QED
  BY <1>1, <1>2

(* A reader leaves a kept slot behind only if it does not hold its key.    *)
LEMMA CallKeepsLoop ==
  ASSUME TypeInv, TypeInv', Record, NEW t \in Threads, KeyInv(t), LoopSP(t), LoopHB(t),
         Says(t, "pass") => call[t].phase = "tgtHB",
         CallAction(t), UNCHANGED <<listVars, scanVars>>
  PROVE  LoopSP(t)' /\ LoopHB(t)' /\ (Says(t, "pass") => call[t].phase = "tgtHB")'
<1> USE AddressesAssumption, ObjectsAssumption
<1>0. /\ CallTypeOK /\ call[t] \in Activation
      /\ linked' = linked /\ linked \subseteq Players /\ sp' = sp /\ hb' = hb
      /\ sp.count \in Nat /\ hb.count \in Nat /\ stayed[t] \subseteq linked
      /\ keptSP[t] \subseteq 1 .. sp.count /\ keptHB[t] \subseteq 1 .. hb.count
  BY DEF TypeInv, TypeOK, CallTypeOK, ListTypeOK, ScanTypeOK, Table, listVars, scanVars, walkVars,
         LoopSP, LoopHB, KeyInv
<1>1. ASSUME NEW o \in Players \cup Objects, NEW p \in Players \cup {Null}, Enter(t, o, p)
      PROVE  LoopSP(t)' /\ LoopHB(t)' /\ (Says(t, "pass") => call[t].phase = "tgtHB")'
  <2>1. call'[t] = [pc |-> "count", phase |-> "srcSP", obj |-> o, tgt |-> p,
                    key |-> o, i |-> 1, name |-> {}, verdict |-> "none"]
    BY <1>0, <1>1, SetEffect DEF Enter
  <2>2. keptSP'[t] = Unmoved(sp, sp) /\ keptHB'[t] = Unmoved(hb, hb)
    BY <1>1, <2>1, RecordEntering DEF Enter
  <2>3. QED
    BY <1>0, <2>1, <2>2 DEF LoopSP, LoopHB, Says, Unmoved
<1>2. ASSUME call[t].pc # "idle", call'[t].pc # "idle"
      PROVE  keptSP'[t] \subseteq keptSP[t] /\ keptHB'[t] \subseteq keptHB[t]
             /\ stayed'[t] \subseteq stayed[t]
  BY <1>2, RecordInside
\* A lookup may end without a match once no kept slot of its table holds the key.
<1>3. ASSUME call[t].pc \in {"count", "resolve"}, Set(t, Missed(call[t])),
             call[t].phase = "srcSP" => \A k \in keptSP[t] : sp.entry[k] # call[t].obj,
             call[t].phase = "tgtSP" /\ call[t].tgt \in stayed[t] =>
               \A k \in keptSP[t] : sp.entry[k] # call[t].tgt,
             call[t].phase = "tgtHB" /\ call[t].tgt \in stayed[t] =>
               \A k \in keptHB[t] : hb.entry[k] # call[t].tgt
      PROVE  LoopSP(t)' /\ LoopHB(t)' /\ (Says(t, "pass") => call[t].phase = "tgtHB")'
  <2>1. call'[t] = Missed(call[t])
    BY <1>0, <1>3, SetEffect
  <2>2. /\ call'[t].obj = call[t].obj /\ call'[t].tgt = call[t].tgt
        /\ \/ call[t].phase = "srcSP" /\ call'[t].phase = "tgtSP" /\ call'[t].pc = "resolve"
           \/ call[t].phase = "tgtSP" /\ call'[t].phase = "tgtHB" /\ call'[t].pc = "resolve"
           \/ call[t].phase = "tgtHB" /\ call'[t].phase = "tgtHB" /\ call'[t].pc = "done"
    BY <1>0, <2>1 DEF Missed, Answer, Activation, Phases
  <2>3. keptSP'[t] \subseteq keptSP[t] /\ keptHB'[t] \subseteq keptHB[t]
        /\ stayed'[t] \subseteq stayed[t]
    BY <1>2, <1>3, <2>2
  <2>4. LoopSP(t)'
    BY <1>0, <1>3, <2>2, <2>3 DEF LoopSP
  <2>5. LoopHB(t)'
    BY <1>0, <1>3, <2>2, <2>3 DEF LoopHB, Says
  <2>6. QED
    BY <2>2, <2>4, <2>5 DEF Says
\* Once a lookup has matched, only a verdict on a hybrid target remains.
<1>4. ASSUME call[t].pc \in {"entry", "name", "type"}, call'[t].pc \in {"name", "type", "done"},
             call'[t].phase = call[t].phase,
             call'[t].obj = call[t].obj, call'[t].tgt = call[t].tgt,
             Says(t, "pass")' => call[t].phase = "tgtHB" /\ call[t].obj \notin Objects
      PROVE  LoopSP(t)' /\ LoopHB(t)' /\ (Says(t, "pass") => call[t].phase = "tgtHB")'
  <2>1. keptSP'[t] \subseteq keptSP[t] /\ keptHB'[t] \subseteq keptHB[t]
        /\ stayed'[t] \subseteq stayed[t]
    BY <1>2, <1>4
  <2>2. LoopSP(t)'
    BY <1>0, <1>4, <2>1 DEF LoopSP
  <2>3. LoopHB(t)'
    BY <1>0, <1>4, <2>1 DEF LoopHB, Says
  <2>4. QED
    BY <1>4, <2>2, <2>3 DEF Says
<1>5. CASE CheckCount(t)
  <2>1. CASE call[t].i <= TableOf(call[t].phase).count
    <3>1. call'[t] = [call[t] EXCEPT !.pc = "entry"] /\ call[t].pc = "count"
      BY <1>0, <1>5, <2>1, SetEffect DEF CheckCount
    <3>2. keptSP'[t] \subseteq keptSP[t] /\ keptHB'[t] \subseteq keptHB[t]
          /\ stayed'[t] \subseteq stayed[t]
      BY <1>0, <1>2, <3>1 DEF Activation
    <3>3. QED
      BY <1>0, <3>1, <3>2 DEF LoopSP, LoopHB, Says, Activation
  <2>2. CASE ~(call[t].i <= TableOf(call[t].phase).count)
    <3>1. call[t].pc = "count" /\ Set(t, Missed(call[t])) /\ call[t].i \in Nat
      BY <1>0, <1>5, <2>2 DEF CheckCount, Activation
    <3>2. call[t].phase = "srcSP" => \A k \in keptSP[t] : sp.entry[k] # call[t].obj
      BY <1>0, <2>2, <3>1 DEF TableOf, LoopSP
    <3>3. call[t].phase = "tgtSP" => \A k \in keptSP[t] : sp.entry[k] # call[t].tgt
      BY <1>0, <2>2, <3>1 DEF TableOf, LoopSP
    <3>4. call[t].phase = "tgtHB" => \A k \in keptHB[t] : hb.entry[k] # call[t].tgt
      BY <1>0, <2>2, <3>1 DEF TableOf, LoopHB
    <3>5. QED
      BY <1>3, <3>1, <3>2, <3>3, <3>4
  <2>3. QED
    BY <2>1, <2>2
<1>6. CASE CheckEntry(t)
  <2> DEFINE c == call[t]
  <2>0. c.pc = "entry" /\ c.i \in Nat
    BY <1>0, <1>6 DEF CheckEntry, Activation
  <2>1. CASE TableOf(c.phase).entry[c.i] = c.key
    <3>1. call'[t] = Found(c)
      BY <1>0, <1>6, <2>1, SetEffect DEF CheckEntry
    <3>2. CASE c.phase = "tgtHB"
      <4>1. /\ call'[t].pc = "name" /\ call'[t].phase = "tgtHB"
            /\ call'[t].obj = c.obj /\ call'[t].tgt = c.tgt
        BY <1>0, <3>1, <3>2 DEF Found, Activation
      <4>2. QED
        BY <1>4, <2>0, <3>2, <4>1 DEF Says
    <3>3. CASE c.phase # "tgtHB"
      <4>1. /\ call'[t].pc = "done" /\ call'[t].verdict = "block" /\ call'[t].phase = c.phase
            /\ call'[t].obj = c.obj /\ call'[t].tgt = c.tgt
        BY <1>0, <3>1, <3>3, AnswerIsActivation DEF Found
      <4>2. QED
        BY <1>4, <2>0, <4>1 DEF Says
    <3>4. QED
      BY <3>2, <3>3
  <2>2. CASE TableOf(c.phase).entry[c.i] # c.key
    <3>1. call'[t] = [c EXCEPT !.pc = "count", !.i = c.i + 1]
      BY <1>0, <1>6, <2>2, SetEffect DEF CheckEntry
    <3>2. /\ call'[t].pc = "count" /\ call'[t].i = c.i + 1 /\ call'[t].phase = c.phase
          /\ call'[t].obj = c.obj /\ call'[t].tgt = c.tgt
      BY <1>0, <3>1 DEF Activation
    <3>3. keptSP'[t] \subseteq keptSP[t] /\ keptHB'[t] \subseteq keptHB[t]
          /\ stayed'[t] \subseteq stayed[t]
      BY <1>2, <2>0, <3>2
    <3>4. LoopSP(t)'
      <4>1. ASSUME NEW k \in keptSP[t], c.phase = "srcSP", sp.entry[k] = c.obj PROVE c.i + 1 <= k
        <5>1. c.i <= k /\ c.i # k
          BY <2>0, <2>2, <4>1 DEF LoopSP, TableOf, KeyInv
        <5>2. QED
          BY <1>0, <2>0, <5>1
      <4>2. ASSUME NEW k \in keptSP[t], c.phase = "tgtSP", sp.entry[k] = c.tgt PROVE c.i + 1 <= k
        <5>1. c.i <= k /\ c.i # k
          BY <2>0, <2>2, <4>2 DEF LoopSP, TableOf, KeyInv
        <5>2. QED
          BY <1>0, <2>0, <5>1
      <4>3. QED
        BY <1>0, <2>0, <3>2, <3>3, <4>1, <4>2 DEF LoopSP
    <3>5. LoopHB(t)'
      <4>1. ASSUME NEW k \in keptHB[t], c.phase = "tgtHB", hb.entry[k] = c.tgt PROVE c.i + 1 <= k
        <5>1. c.i <= k /\ c.i # k
          BY <2>0, <2>2, <4>1 DEF LoopHB, TableOf, KeyInv
        <5>2. QED
          BY <1>0, <2>0, <5>1
      <4>2. QED
        BY <1>0, <3>2, <3>3, <4>1 DEF LoopHB, Says
    <3>6. QED
      BY <3>2, <3>4, <3>5 DEF Says
  <2>3. QED
    BY <2>1, <2>2
<1>7. CASE Resolve(t)
  <2>1. PICK p \in Resolved(call[t].tgt) :
          Set(t, IF p = Null THEN Missed(call[t])
                             ELSE [call[t] EXCEPT !.pc = "count", !.key = p, !.i = 1])
    BY <1>7 DEF Resolve
  <2>2. call[t].pc = "resolve" /\ call[t].phase # "srcSP"
    BY <1>7 DEF Resolve, KeyInv
  <2>3. CASE p = Null
    <3>1. call[t].tgt \notin stayed[t]
      BY <1>0, <2>3 DEF Resolved
    <3>2. QED
      BY <1>3, <2>1, <2>2, <2>3, <3>1
  <2>4. CASE p # Null
    <3>1. call'[t] = [call[t] EXCEPT !.pc = "count", !.key = p, !.i = 1]
      BY <1>0, <2>1, <2>4, SetEffect
    <3>2. /\ call'[t].pc = "count" /\ call'[t].i = 1 /\ call'[t].phase = call[t].phase
          /\ call'[t].obj = call[t].obj /\ call'[t].tgt = call[t].tgt
      BY <1>0, <3>1 DEF Activation
    <3>3. keptSP'[t] \subseteq keptSP[t] /\ keptHB'[t] \subseteq keptHB[t]
          /\ stayed'[t] \subseteq stayed[t]
      BY <1>2, <2>2, <3>2
    <3>4. QED
      BY <1>0, <2>2, <3>2, <3>3 DEF LoopSP, LoopHB, Says
  <2>5. QED
    BY <2>3, <2>4
<1>8. CASE FetchType(t)
  <2> DEFINE c == call[t]
  <2>0. c.pc = "name"
    BY <1>8 DEF FetchType
  <2>1. CASE c.obj \in Players /\ Set(t, [c EXCEPT !.pc = "type", !.name = tags[c.obj]])
    <3>1. call'[t] = [c EXCEPT !.pc = "type", !.name = tags[c.obj]]
      BY <1>0, <2>1, SetEffect
    <3>2. /\ call'[t].pc = "type" /\ call'[t].phase = c.phase
          /\ call'[t].obj = c.obj /\ call'[t].tgt = c.tgt
      BY <1>0, <3>1 DEF Activation
    <3>3. QED
      BY <1>4, <2>0, <3>2 DEF Says
  <2>2. CASE Set(t, Answer(c, "block"))
    <3>1. call'[t] = Answer(c, "block")
      BY <1>0, <2>2, SetEffect
    <3>2. QED
      BY <1>0, <1>4, <2>0, <3>1, AnswerIsActivation DEF Says
  <2>3. QED
    BY <1>8, <2>1, <2>2 DEF FetchType
<1>9. CASE TestType(t)
  <2>1. PICK v \in {"block", "pass"} : Set(t, Answer(call[t], v))
    BY <1>9 DEF TestType
  <2>2. call'[t] = Answer(call[t], v)
    BY <1>0, <2>1, SetEffect
  <2>3. call[t].pc = "type" /\ call[t].phase = "tgtHB" /\ call[t].obj \notin Objects
    BY <1>9 DEF TestType, KeyInv
  <2>4. QED
    BY <1>0, <1>4, <2>2, <2>3, AnswerIsActivation DEF Says
<1>10. CASE Return(t)
  <2>1. call'[t] = Idle
    BY <1>0, <1>10, SetEffect DEF Return
  <2>2. call'[t].pc = "idle"
    BY <2>1 DEF Idle
  <2>3. QED
    BY <2>2, RecordOutside DEF LoopSP, LoopHB, Says
<1>11. QED
  BY <1>1, <1>5, <1>6, <1>7, <1>8, <1>9, <1>10 DEF CallAction

(* Every step keeps the invariant of the loops.                            *)
LEMMA LoopStep == TypeInv /\ TypeInv' /\ CauseInv /\ LoopInv /\ [HNext]_hvars => LoopInv'
<1> SUFFICES ASSUME TypeInv, TypeInv', CauseInv, LoopInv, [HNext]_hvars PROVE LoopInv'
    OBVIOUS
<1> USE DEF LoopInv
<1>1. ASSUME UNCHANGED call, Record PROVE LoopInv'
  <2>1. ASSUME NEW s \in Threads PROVE LoopSP(s)' /\ LoopHB(s)'
    BY <1>1, BystanderKeepsLoop
  <2>2. QED
    BY <1>1, <2>1 DEF Says
<1>2. ASSUME NEW t \in Threads, Asked(t) \/ CallStep(t), Record PROVE LoopInv'
  <2>1. CallAction(t) /\ UNCHANGED <<listVars, scanVars>>
    BY <1>2 DEF Asked, CallStep, CallAction
  <2>2. LoopSP(t)' /\ LoopHB(t)' /\ (Says(t, "pass") => call[t].phase = "tgtHB")'
    BY <1>2, <2>1, CallKeepsLoop DEF CauseInv
  <2>3. ASSUME NEW s \in Threads, s # t PROVE call'[s] = call[s]
    BY <2>1, <2>3 DEF CallAction, Enter, CheckCount, CheckEntry, Resolve, FetchType, TestType, Return, Set,
                      TypeInv, TypeOK, CallTypeOK
  <2>4. ASSUME NEW s \in Threads, s # t
        PROVE  LoopSP(s)' /\ LoopHB(s)' /\ (Says(s, "pass") => call[s].phase = "tgtHB")'
    BY <1>2, <2>3, <2>4, BystanderKeepsLoop DEF Says
  <2>5. QED
    BY <2>2, <2>4
<1>3. CASE UNCHANGED hvars
  BY <1>3 DEF hvars, vars, histVars, callVars, scanVars, LoopSP, LoopHB, Says
<1>4. QED
  BY <1>1, <1>2, <1>3 DEF HNext, Next

(* The invariant of the loops holds in every reachable state.              *)
LEMMA LoopInvAlways == HSpec => []LoopInv
BY LoopInit, LoopStep, TypeInvAlways, CauseInvAlways, PTL DEF HSpec

(* Whoever keeps a slot of the SP table throughout a call is protected by  *)
(* it, for tables of any length and any publication (main.cpp 125-139).    *)
THEOREM KeptSlotBlocksAlways == HSpec => []KeptSlotBlocks
<1>1. TypeInv /\ LoopInv => KeptSlotBlocks
  BY DEF LoopInv, LoopSP, KeptSlotBlocks, Says
<1>2. QED
  BY <1>1, TypeInvAlways, LoopInvAlways, PTL

(* Whoever keeps a slot of the HB table throughout a call receives nothing *)
(* but characters (main.cpp 142-153).                                      *)
THEOREM KeptSlotHidesWorldAlways == HSpec => []KeptSlotHidesWorld
<1>1. LoopInv => KeptSlotHidesWorld
  BY DEF LoopInv, LoopHB, KeptSlotHidesWorld
<1>2. QED
  BY <1>1, LoopInvAlways, PTL

=============================================================================
