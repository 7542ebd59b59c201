------------------------------ MODULE SyncHook ------------------------------
(***************************************************************************)
(* The hook of nvmp_server_hook.dll on ShouldSynchronise                   *)
(* (nvmp_server_hook/src/main.cpp, CheckShouldBlock), composed with the    *)
(* scan thread whose tables it reads.                                      *)
(*                                                                         *)
(* The server's threads call the hook for an object (thisObj) and a target *)
(* context (param2).  The tables are shared without a lock: every read of  *)
(* a count and of an entry is a step of its own.  The entries are          *)
(* volatile, so nothing is read twice or out of program order.             *)
(***************************************************************************)
EXTENDS ScanThread

CONSTANTS
  Objects,  \* netrefs that are not player characters: NPCs, references, doors
  Threads   \* the server's threads that evaluate ShouldSynchronise

ASSUME ObjectsAssumption == Objects \cap (Players \cup {Sentinel, Null}) = {}

VARIABLE call  \* the CheckShouldBlock activation of every thread

vars == <<listVars, scanVars, call>>

(* The three lookups, in the order of the code: is thisObj a tracked SP    *)
(* player, is the target one, is the target a tracked hybrid player.       *)
Phases == {"srcSP", "tgtSP", "tgtHB"}

Activation ==
  [pc: {"idle", "resolve", "count", "entry", "name", "type", "done"},
   phase: Phases,
   obj: Players \cup Objects \cup {Null},  \* thisObj
   tgt: Players \cup {Null},               \* the player behind param2, if any
   key: Players \cup Objects \cup {Null},  \* the netref being looked up
   i: 1 .. MaxTracked + 1,                 \* the loop counter, from 1
   name: SUBSET Markers,                   \* what `name` pointed to when it was fetched
   verdict: {"none", "block", "pass"}]     \* *resultPtr: 0 blocks, 0xFF does not

Idle == [pc |-> "idle", phase |-> "srcSP", obj |-> Null, tgt |-> Null,
         key |-> Null, i |-> 1, name |-> {}, verdict |-> "none"]

\* An entry is only read at an index inside the arrays.
CallTypeOK ==
  /\ call \in [Threads -> Activation]
  /\ \A t \in Threads : call[t].pc = "entry" => call[t].i \in Slots

TypeOK == ListTypeOK /\ ScanTypeOK /\ CallTypeOK

Init == ListInit /\ ScanInit /\ call = [t \in Threads |-> Idle]

----------------------------------------------------------------------------
\* What strstr(name, "GameNetCharacter") may find behind the name fetched for
\* the character c.obj: the class is there, unless the name has been replaced
\* or freed since; then anything, or a fault, which counts as not there.
IsCharacterType(c) ==
  IF c.obj \in linked /\ tags[c.obj] = c.name THEN {TRUE} ELSE BOOLEAN

\* The table a phase searches.
TableOf(phase) == IF phase = "tgtHB" THEN hb ELSE sp

\* What g_resolveTarget(param2) yields: the target's netref, or nothing once
\* the target has left (an address below 0x10000, or a fault that is caught).
Resolved(tgt) == IF tgt \in linked THEN {tgt} ELSE {tgt, Null}

Set(t, c) == call' = [call EXCEPT ![t] = c]

Answer(c, verdict) == [c EXCEPT !.pc = "done", !.verdict = verdict]

\* Mutant of Missed: a target that is not SP ends the call before hybrid is asked.
MissedEarly(c) ==
  IF c.phase = "srcSP"
    THEN [c EXCEPT !.pc = "resolve", !.phase = "tgtSP"]
    ELSE Answer(c, "pass")

\* The lookup of this phase found nothing.
Missed(c) ==
  CASE c.phase = "srcSP" -> [c EXCEPT !.pc = "resolve", !.phase = "tgtSP"]
    [] c.phase = "tgtSP" -> [c EXCEPT !.pc = "resolve", !.phase = "tgtHB"]
    [] c.phase = "tgtHB" -> Answer(c, "pass")

\* The lookup of this phase found its key.  A hybrid target still receives
\* player characters.
Found(c) == IF c.phase = "tgtHB" THEN [c EXCEPT !.pc = "name"] ELSE Answer(c, "block")

(* The server asks whether o is synchronised to the client of player p.    *)
Enter(t, o, p) ==
  /\ call[t].pc = "idle"
  /\ o \in linked \cup Objects
  /\ p \in linked \cup {Null}
  /\ Set(t, [pc |-> "count", phase |-> "srcSP", obj |-> o, tgt |-> p,
             key |-> o, i |-> 1, name |-> {}, verdict |-> "none"])

\* Mutant of CheckCount: the loop stops one short of the count.
CheckCountShort(t) ==
  LET c == call[t] IN
  /\ c.pc = "count"
  /\ Set(t, IF c.i < TableOf(c.phase).count THEN [c EXCEPT !.pc = "entry"] ELSE Missed(c))

(* i < g_spCount, i < g_hbCount *)
CheckCount(t) ==
  LET c == call[t] IN
  /\ c.pc = "count"
  /\ Set(t, IF c.i <= TableOf(c.phase).count THEN [c EXCEPT !.pc = "entry"] ELSE Missed(c))

\* Mutant of CheckEntry: i++ is left out.
CheckEntryStuck(t) ==
  LET c == call[t] IN
  /\ c.pc = "entry"
  /\ Set(t, IF TableOf(c.phase).entry[c.i] = c.key
              THEN Found(c)
              ELSE [c EXCEPT !.pc = "count"])

(* g_spPlayers[i].netref == netref *)
CheckEntry(t) ==
  LET c == call[t] IN
  /\ c.pc = "entry"
  /\ Set(t, IF TableOf(c.phase).entry[c.i] = c.key
              THEN Found(c)
              ELSE [c EXCEPT !.pc = "count", !.i = c.i + 1])

(* The target is resolved anew for the second and for the third lookup.    *)
Resolve(t) ==
  LET c == call[t] IN
  /\ c.pc = "resolve"
  /\ \E p \in Resolved(c.tgt) :
       Set(t, IF p = Null THEN Missed(c)
                          ELSE [c EXCEPT !.pc = "count", !.key = p, !.i = 1])

(* name = GetObjectName(thisObj).  The name of anything but a character    *)
(* lacks the class, and memory that was freed may fault or give no name.   *)
FetchType(t) ==
  LET c == call[t] IN
  /\ c.pc = "name"
  /\ \/ c.obj \in Players /\ Set(t, [c EXCEPT !.pc = "type", !.name = tags[c.obj]])
     \/ c.obj \notin linked /\ Set(t, Answer(c, "block"))

(* strstr(name, "GameNetCharacter"), for what was a character when it was  *)
(* named.                                                                  *)
TestType(t) ==
  LET c == call[t] IN
  /\ c.pc = "type"
  /\ \E character \in IsCharacterType(c) :
       Set(t, Answer(c, IF character THEN "pass" ELSE "block"))

Return(t) ==
  /\ call[t].pc = "done"
  /\ Set(t, Idle)

CallStep(t) ==
  /\ \/ CheckCount(t) \/ CheckEntry(t) \/ Resolve(t)
     \/ FetchType(t) \/ TestType(t) \/ Return(t)
  /\ UNCHANGED <<listVars, scanVars>>

Asked(t) ==
  /\ \E o \in Players \cup Objects, p \in Players \cup {Null} : Enter(t, o, p)
  /\ UNCHANGED <<listVars, scanVars>>

----------------------------------------------------------------------------
Next ==
  \/ ServerStep /\ UNCHANGED <<scanVars, call>>
  \/ ScanStep /\ UNCHANGED <<listVars, call>>
  \/ \E t \in Threads : Asked(t) \/ CallStep(t)

(* The operating system runs every thread that is ready, and Sleep returns;*)
(* nothing obliges a player to act or the server to ask.                   *)
Fairness ==
  /\ WF_vars(ScanStep /\ UNCHANGED <<listVars, call>>)
  /\ \A t \in Threads : WF_vars(CallStep(t))

Spec == Init /\ [][Next]_vars

FairSpec == Spec /\ Fairness

----------------------------------------------------------------------------
(* Every call is answered: no publication can keep a reader in its loops,  *)
(* and nothing in it waits for the scan thread or for the server.          *)
CallsReturn == \A t \in Threads : call[t].pc # "idle" ~> call[t].pc = "idle"

\* From some time on, every answer about o and the client of p is this one.
SettlesOn(o, p, verdict) ==
  <>[](\A t \in Threads :
         call[t].pc = "done" /\ call[t].obj = o /\ call[t].tgt = p => call[t].verdict = verdict)

(* The marker in a name takes effect: once a player stays connected as SP, *)
(* nothing of its character is synchronised and nothing is synchronised to *)
(* it, for good - unless the SP table is full or scans keep faulting on    *)
(* memory that was freed (main.cpp 125-139, 168-239).                      *)
IsolationTakesEffect ==
  \A p \in Players :
    <>[](p \in linked /\ "SP" \in tags[p]) =>
      \/ KeepsFaulting \/ []<>Crowded(newSP, p)
      \/ \A o \in Players \cup Objects, q \in Players \cup {Null} :
           p \in {o, q} => SettlesOn(o, q, "block")

(* And its absence takes effect: two players who stay connected with no    *)
(* marker are in the end always synchronised to one another, whatever      *)
(* modes they were in and whichever addresses they were given.             *)
ReleaseTakesEffect ==
  \A p, q \in Players :
    <>[]({p, q} \subseteq linked /\ tags[p] = {} /\ tags[q] = {}) =>
      KeepsFaulting \/ SettlesOn(p, q, "pass")

=============================================================================
