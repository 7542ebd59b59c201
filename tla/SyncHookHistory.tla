-------------------------- MODULE SyncHookHistory --------------------------
(***************************************************************************)
(* The hook and the scan thread together, with history variables that      *)
(* record what a reader of the tables could have seen, and the properties  *)
(* of the verdicts.  The history variables never constrain a step.         *)
(***************************************************************************)
EXTENDS SyncHook

VARIABLES
  shown,   \* the markers each address ever showed while on the list
  own,     \* those its present occupant showed
  settled, \* the addresses whose occupant has stayed since the present scan began
  vetted,  \* those whose occupant joined before the last published scan began
  keptSP,  \* per thread: the SP slots in use and unchanged since the call began
  keptHB,  \* per thread: the same for the HB slots
  stayed,  \* per thread: the target, if on the list at every moment of the call
  named,   \* per thread: the object, if so and under one name all the time
  sure     \* per thread: who of the two stays and was vetted when the call began

tableVars == <<shown, own, settled, vetted>>
callVars == <<keptSP, keptHB, stayed, named, sure>>
histVars == <<tableVars, callVars>>
hvars == <<vars, histVars>>

HInit ==
  /\ Init
  /\ shown = [p \in Players |-> {}]
  /\ own = [p \in Players |-> {}]
  /\ settled = {}
  /\ vetted = {}
  /\ keptSP = [t \in Threads |-> {}]
  /\ keptHB = [t \in Threads |-> {}]
  /\ stayed = [t \in Threads |-> {}]
  /\ named = [t \in Threads |-> {}]
  /\ sure = [t \in Threads |-> {}]

\* The thread is in a call.  What is recorded for a call starts as it enters.
Inside(t) == call[t].pc # "idle"

\* The slots of U that are in use and hold what they hold in T.
Unmoved(T, U) == {k \in 1 .. U.count : k <= T.count /\ U.entry[k] = T.entry[k]}

\* Those of S that stay on the list under the name they have.
StillNamed(S) == {p \in S \cap linked' : tags'[p] = tags[p]}

(* What is recorded of the occupants.  Whoever joins begins with the name  *)
(* he joins under.  A scan begins when the thread leaves Sleep, and it is  *)
(* published when the second count is stored.                              *)
RecordOccupants ==
  /\ shown' = [p \in Players |-> IF p \in linked' THEN shown[p] \cup tags'[p] ELSE shown[p]]
  /\ own' = [p \in Players |->
       IF p \in linked' THEN (IF p \in linked THEN own[p] ELSE {}) \cup tags'[p] ELSE {}]
  /\ settled' = IF scanPc' = "sleep" THEN {} ELSE IF scanPc = "sleep" THEN linked ELSE settled \cap linked'
  /\ vetted' = (IF CountHB THEN settled ELSE vetted) \cap linked'

Record ==
  /\ RecordOccupants
  /\ keptSP' = [t \in Threads |->
       IF ~Inside(t)' THEN {} ELSE IF Inside(t) THEN keptSP[t] \cap Unmoved(sp, sp') ELSE Unmoved(sp, sp)]
  /\ keptHB' = [t \in Threads |->
       IF ~Inside(t)' THEN {} ELSE IF Inside(t) THEN keptHB[t] \cap Unmoved(hb, hb') ELSE Unmoved(hb, hb)]
  /\ stayed' = [t \in Threads |->
       IF ~Inside(t)' THEN {} ELSE IF Inside(t) THEN stayed[t] \cap linked' ELSE linked \cap {call'[t].tgt}]
  /\ named' = [t \in Threads |->
       IF ~Inside(t)' THEN {} ELSE IF Inside(t) THEN StillNamed(named[t]) ELSE linked \cap {call'[t].obj}]
  /\ sure' = [t \in Threads |->
       IF ~Inside(t)' THEN {} ELSE
       IF Inside(t) THEN sure[t] \cap linked' ELSE vetted \cap {call'[t].obj, call'[t].tgt}]

HNext == Next /\ Record

HSpec == HInit /\ [][HNext]_hvars

----------------------------------------------------------------------------
HTypeOK ==
  /\ TypeOK
  /\ shown \in [Players -> SUBSET Markers]
  /\ keptSP \in [Threads -> SUBSET Slots]
  /\ keptHB \in [Threads -> SUBSET Slots]
  /\ stayed \in [Threads -> SUBSET Players]
  /\ named \in [Threads -> SUBSET Players]
  /\ own \in [Players -> SUBSET Markers]
  /\ settled \subseteq Players /\ vetted \subseteq Players
  /\ sure \in [Threads -> SUBSET Players]

Says(t, verdict) == call[t].pc = "done" /\ call[t].verdict = verdict

\* The markers for which a call may take whoever is at address p: his own, once
\* a scan that began after he joined was published before the call.  Until then,
\* or when he leaves during the call, those of whoever else was at p count too.
Blamed(t, p) == IF p \in sure[t] THEN own[p] ELSE shown[p]

(* Nobody is isolated who did not ask for it: an object is withheld only   *)
(* if it is, or is meant for, a character to be blamed for [SP], or it is  *)
(* meant for one to be blamed for [HB] and is not itself a character that  *)
(* stays connected under one name throughout the call.  A newcomer at an   *)
(* address that was used before is thus taken for his predecessor until    *)
(* the first scan that began after he joined is published, and no longer:  *)
(* from then on only names of his own count.  All this through torn        *)
(* tables, freed nodes and names replaced while they are read (main.cpp    *)
(* 110-154, 171-236).                                                      *)
BlockHasCause ==
  \A t \in Threads :
    LET c == call[t] IN
    Says(t, "block") =>
      \/ c.obj \in Players /\ "SP" \in Blamed(t, c.obj)
      \/ c.tgt \in Players /\ "SP" \in Blamed(t, c.tgt)
      \/ c.tgt \in Players /\ "HB" \in Blamed(t, c.tgt) /\ c.obj \notin named[t]

(* The lock-free tables protect everyone who keeps a slot: a call lets     *)
(* nothing pass that comes from, or goes to, an SP player whose entry was  *)
(* in one and the same slot throughout the call, however many other slots  *)
(* and the count were rewritten under the reader (main.cpp 73-78, 125-139).*)
KeptSlotBlocks ==
  \A t \in Threads :
    Says(t, "pass") =>
      \A k \in keptSP[t] :
        /\ sp.entry[k] # call[t].obj
        /\ call[t].tgt \in stayed[t] => sp.entry[k] # call[t].tgt

(* The same for hybrid: what is not a character does not reach a connected *)
(* player who kept one HB slot throughout the call (main.cpp 90-95, 142).  *)
KeptSlotHidesWorld ==
  \A t \in Threads :
    Says(t, "pass") /\ call[t].obj \in Objects /\ call[t].tgt \in stayed[t] =>
      \A k \in keptHB[t] : hb.entry[k] # call[t].tgt

=============================================================================
