------------------------ MODULE HookLifecycleProofs ------------------------
(***************************************************************************)
(* Theorems of Spec, the hook's life cycle, for any number of threads and  *)
(* any times of which the scan thread's are shorter than DllMain's.        *)
(*                                                                         *)
(* What is written over the function's bytes follows from what was found   *)
(* there and from how far DllMain is (SiteInv).  That the scan thread has  *)
(* left the DLL follows from a race of two clocks (ClockInv): from the     *)
(* moment DllMain begins to wait, its clock is never ahead of the thread's.*)
(***************************************************************************)
EXTENDS HookLifecycle, TLAPS

\* Phases in which the loader counts no reference.
Unreferenced == {"out", "stop", "wait", "restore", "free", "unmap"}

Hooked == /\ saved = "old"
          /\ \A i \in Pieces : site[i] = "jump"

Unhooked == \A i \in Pieces : site[i] = saved

\* The function's bytes and the block, at each step of DllMain.
SiteInv ==
  /\ dll \in {"out", "owner", "save"} => site \in {All("old"), All("other")}
  /\ dll \in {"alloc", "fill"} => saved = "old" /\ Unhooked
  /\ dll = "patch" => /\ saved = "old"
                      /\ \A i \in Pieces \ todo : site[i] = "jump"
  /\ dll = "spawn" => Hooked
  /\ dll \in {"loaded", "stop", "wait"} => Hooked \/ Unhooked
  /\ dll \in {"wait", "restore"} => \A i \in Pieces \ todo : site[i] = saved
  /\ dll \in {"free", "unmap"} => Unhooked
  /\ dll \notin {"out", "owner", "save"} => saved # "none"
  /\ dll \in {"out", "owner", "save", "alloc", "unmap"} => block = "none"

\* The scan thread's clock and DllMain's.
ClockInv ==
  /\ running => dll \in {"loaded", "stop"}
  /\ scan = "asleep" => nap <= SleepTime
  /\ scan = "walking" => nap <= WalkTime
  /\ scan \in {"asleep", "walking"} =>
       /\ dll \notin {"restore", "free", "unmap", "out"}
       /\ dll = "wait" => waited <= nap

LifecycleInv == LifecycleTypeOK /\ SiteInv /\ ClockInv

(* Every first state is in the invariant.                                  *)
LEMMA LifecycleInit == Init => LifecycleInv
<1> SUFFICES ASSUME Init PROVE LifecycleInv
    OBVIOUS
<1>1. /\ dll = "out" /\ refs = 0 /\ saved = "none" /\ block = "none" /\ todo = {}
      /\ running = FALSE /\ scan = "none" /\ nap = 0 /\ waited = 0 /\ lock = "free"
      /\ site \in {All("old"), All("other")} /\ owner \in {"je", "jmp", "other"}
      /\ alive = TRUE /\ overtaken = {}
      /\ verdict = [t \in Threads |-> "none"]
  BY DEF Init
<1>2. refs \in 0 .. MaxRefs /\ nap \in 0 .. SleepTime + WalkTime /\ waited \in 0 .. WaitTime
  BY <1>1, TimeAssumption, RefsAssumption
<1>3. LifecycleTypeOK
  <2>1. site \in [Pieces -> {"old", "jump", "other"}]
    BY <1>1 DEF All
  <2>2. verdict \in [Threads -> {"none", "block", "pass"}]
    BY <1>1
  <2>3. /\ dll \in DllPhases /\ saved = "none" /\ block = "none" /\ todo = {} /\ running = FALSE
        /\ scan = "none" /\ lock = "free" /\ owner \in {"je", "jmp", "other"}
        /\ alive = TRUE /\ overtaken = {}
        /\ lock = "dll" <=> dll \notin {"out", "loaded"}
        /\ refs > 0 <=> dll \notin Unreferenced
    BY <1>1 DEF DllPhases, Unreferenced
  <2>4. QED
    BY <1>2, <2>1, <2>2, <2>3 DEF LifecycleTypeOK, Unreferenced
<1>4. SiteInv /\ ClockInv
  BY <1>1, TimeAssumption DEF SiteInv, ClockInv
<1>5. QED
  BY <1>3, <1>4 DEF LifecycleInv

(* A piece is written over the bytes; the others stay.                     *)
LEMMA PieceWritten ==
  ASSUME LifecycleTypeOK, NEW i \in Pieces, NEW b \in {"old", "jump", "other"}, WritePiece(i, b)
  PROVE  /\ i \in todo /\ todo' = todo \ {i}
         /\ site' \in [Pieces -> {"old", "jump", "other"}]
         /\ site'[i] = b /\ \A j \in Pieces \ {i} : site'[j] = site[j]
         /\ overtaken' \subseteq Threads
         /\ UNCHANGED <<owner, cpu, verdict>>
BY DEF LifecycleTypeOK, WritePiece

(* DllMain preserves the invariant on attach.                              *)
LEMMA AttachKeeps ==
  ASSUME LifecycleInv,
         Load \/ PatchOwner \/ SaveBytes \/ AllocBlock \/ FillBlock \/ StartScan
           \/ \E i \in Pieces : PatchSite(i)
  PROVE  LifecycleInv'
<1> USE TimeAssumption, RefsAssumption
        DEF LifecycleInv, LifecycleTypeOK, SiteInv, ClockInv, DllPhases, Hooked, Unhooked
<1> USE DEF dllVars, scanVars, codeVars, threadVars
<1>1. CASE Load
  BY <1>1 DEF Load
<1>2. CASE PatchOwner
  BY <1>2 DEF PatchOwner
<1>3. CASE SaveBytes
  <2>1. saved' = site[0] /\ site' = site /\ site \in {All("old"), All("other")}
    BY <1>3 DEF SaveBytes
  <2>2. saved' \in {"old", "other"} /\ \A i \in Pieces : site'[i] = saved'
    BY <2>1 DEF All, Pieces
  <2>3. site = All("old") => saved' = "old"
    BY <2>1 DEF All, Pieces
  <2>4. QED
    BY <1>3, <2>2, <2>3 DEF SaveBytes, Decline
<1>4. CASE AllocBlock
  BY <1>4 DEF AllocBlock, Decline
<1>5. CASE FillBlock
  BY <1>5 DEF FillBlock
<1>6. CASE StartScan
  BY <1>6 DEF StartScan
<1>7. ASSUME NEW i \in Pieces, PatchSite(i) PROVE LifecycleInv'
  <2>1. dll = "patch" /\ WritePiece(i, "jump")
    BY <1>7 DEF PatchSite
  <2>2. /\ todo' = todo \ {i} /\ site' \in [Pieces -> {"old", "jump", "other"}]
        /\ \A j \in Pieces \ todo' : site'[j] = "jump"
        /\ overtaken' \subseteq Threads
        /\ UNCHANGED <<owner, cpu, verdict>>
    BY <2>1, PieceWritten
  <2>3. QED
    BY <1>7, <2>1, <2>2 DEF PatchSite
<1>8. QED
  BY <1>1, <1>2, <1>3, <1>4, <1>5, <1>6, <1>7

(* DllMain preserves the invariant on detach.  The wait ends with a thread *)
(* that has ended, or after WaitTime ticks, and no thread asleep or on its *)
(* walk has let that many pass (main.cpp 362-385).                         *)
LEMMA DetachKeeps ==
  ASSUME LifecycleInv,
         FreeLibrary \/ ExitProcess \/ StopScan \/ WaitOver \/ FreeBlock \/ Unmap
           \/ \E i \in Pieces : RestoreSite(i)
  PROVE  LifecycleInv'
<1> USE DEF LifecycleInv, LifecycleTypeOK, SiteInv, ClockInv, DllPhases, Hooked, Unhooked
<1> USE DEF dllVars, scanVars, codeVars, threadVars
<1>1. CASE FreeLibrary
  BY <1>1, RefsAssumption DEF FreeLibrary
<1>2. CASE ExitProcess
  <2>1. /\ lock = "free" /\ alive' = FALSE
        /\ scan' = IF scan = "none" THEN "none" ELSE "ended"
        /\ \/ dll = "loaded" /\ dll' = "stop" /\ lock' = "dll" /\ refs' = 0
           \/ dll = "out" /\ UNCHANGED <<dll, lock, refs>>
    BY <1>2, Zenon DEF ExitProcess, LifecycleInv
  <2>2. UNCHANGED <<saved, block, todo, running, nap, waited, site, owner, verdict, overtaken>>
    BY <1>2, Zenon DEF ExitProcess
  <2>3. todo = {}
    BY <2>1
  <2>4. refs' \in 0 .. MaxRefs /\ (refs' > 0 <=> dll' \notin Unreferenced)
    BY <2>1, RefsAssumption DEF Unreferenced
  <2>5. LifecycleTypeOK'
    <3>1. /\ dll' \in DllPhases /\ lock' \in {"free", "dll"}
          /\ lock' = "dll" <=> dll' \notin {"out", "loaded"}
      BY <2>1
    <3>2. QED
      BY <2>1, <2>2, <2>3, <2>4, <3>1 DEF Unreferenced
  <2>6. SiteInv' /\ ClockInv'
    BY <2>1, <2>2, <2>3
  <2>7. QED
    BY <2>5, <2>6
<1>3. CASE StopScan
  <2>1. /\ saved # "none" /\ todo' = Pieces /\ dll = "stop" /\ running' = FALSE
        /\ waited' = 0 /\ dll' = IF scan = "none" THEN "restore" ELSE "wait"
    BY <1>3 DEF StopScan
  <2>2. UNCHANGED <<refs, saved, block, scan, nap, lock, site, owner, alive, verdict, overtaken>>
    BY <1>3 DEF StopScan
  <2>3. waited' \in 0 .. WaitTime
    BY <2>1, TimeAssumption
  <2>4. LifecycleTypeOK'
    BY <2>1, <2>2, <2>3
  <2>5. SiteInv' /\ ClockInv'
    BY <2>1, <2>2
  <2>6. QED
    BY <2>4, <2>5
<1>4. CASE WaitOver
  <2>1. scan \notin {"asleep", "walking"}
    BY <1>4, TimeAssumption DEF WaitOver
  <2>2. QED
    BY <1>4, <2>1 DEF WaitOver
<1>5. CASE FreeBlock
  BY <1>5 DEF FreeBlock
<1>6. CASE Unmap
  <2>1. /\ saved \in {"old", "other"} /\ Unhooked
        /\ site \in [Pieces -> {"old", "jump", "other"}]
    BY <1>6 DEF Unmap
  <2>2. site = [i \in Pieces |-> saved]
    BY <2>1
  <2>3. site' \in {All("old"), All("other")}
    BY <1>6, <2>1, <2>2 DEF All, Unmap
  <2>4. waited' \in 0 .. WaitTime
    BY <1>6, TimeAssumption DEF Unmap
  <2>5. UNCHANGED <<refs, todo, running, scan, nap, site, owner, alive, verdict, overtaken>>
    BY <1>6 DEF Unmap
  <2>6. LifecycleTypeOK'
    BY <1>6, <2>4, <2>5 DEF Unmap
  <2>7. SiteInv' /\ ClockInv'
    BY <1>6, <2>3, <2>5 DEF Unmap
  <2>8. QED
    BY <2>6, <2>7
<1>7. ASSUME NEW i \in Pieces, RestoreSite(i) PROVE LifecycleInv'
  <2>1. dll = "restore" /\ WritePiece(i, saved)
    BY <1>7 DEF RestoreSite
  <2>2. /\ todo' = todo \ {i} /\ site' \in [Pieces -> {"old", "jump", "other"}]
        /\ \A j \in Pieces \ todo' : site'[j] = saved
        /\ overtaken' \subseteq Threads
        /\ UNCHANGED <<owner, cpu, verdict>>
    BY <2>1, PieceWritten
  <2>3. QED
    BY <1>7, <2>1, <2>2 DEF RestoreSite
<1>8. QED
  BY <1>1, <1>2, <1>3, <1>4, <1>5, <1>6, <1>7

(* The scan thread preserves the invariant: nothing puts it to sleep after *)
(* g_running has become false (main.cpp 171-173).                          *)
LEMMA ScanKeeps == ASSUME LifecycleInv, ScanStep PROVE LifecycleInv'
<1> USE TimeAssumption, RefsAssumption
        DEF LifecycleInv, LifecycleTypeOK, SiteInv, ClockInv, DllPhases, Hooked, Unhooked
<1> USE DEF dllVars, codeVars, threadVars, LoopTest, Mapped
<1>1. UNCHANGED <<dllVars, waited, lock, codeVars, alive, threadVars>>
  BY DEF ScanStep
<1>2. CASE Begin
  BY <1>1, <1>2 DEF Begin
<1>3. CASE WakeUp
  BY <1>1, <1>3 DEF WakeUp
<1>4. CASE FinishWalk
  BY <1>1, <1>4 DEF FinishWalk
<1>5. CASE End
  BY <1>1, <1>5 DEF End
<1>6. QED
  BY <1>2, <1>3, <1>4, <1>5 DEF ScanStep

(* Time passes for the scan thread and for DllMain alike.                  *)
LEMMA ElapseKeeps == ASSUME LifecycleInv, Elapse PROVE LifecycleInv'
BY TimeAssumption, RefsAssumption
   DEF LifecycleInv, LifecycleTypeOK, SiteInv, ClockInv, DllPhases, Hooked, Unhooked,
       Elapse, NothingUrgent, dllVars, codeVars, threadVars

(* The server's threads touch nothing but themselves.                      *)
LEMMA ThreadKeeps ==
  ASSUME LifecycleInv, NEW t \in Threads, ThreadStep(t) PROVE LifecycleInv'
<1>1. UNCHANGED <<dllVars, scanVars, waited, lock, codeVars, alive>>
  BY DEF ThreadStep
<1>2. verdict' \in [Threads -> {"none", "block", "pass"}] /\ overtaken' \subseteq Threads
  <2>1. verdict \in [Threads -> {"none", "block", "pass"}] /\ overtaken \subseteq Threads
    BY DEF LifecycleInv, LifecycleTypeOK
  <2>2. CASE Call(t)
    <3>1. /\ verdict' = [verdict EXCEPT ![t] = "none"]
          /\ overtaken' \in {overtaken \ {t}, overtaken \cup {t}}
      BY <2>2, Zenon DEF Call
    <3>2. QED
      BY <2>1, <3>1
  <2>3. CASE RunDll(t)
    <3>1. /\ UNCHANGED overtaken
          /\ \/ \E answer \in {"block", "pass"} : verdict' = [verdict EXCEPT ![t] = answer]
             \/ UNCHANGED verdict
      BY <2>3, Zenon DEF RunDll
    <3>2. QED
      BY <2>1, <3>1
  <2>4. CASE RunSite(t) \/ RunStub(t) \/ RunBody(t)
    <3>1. UNCHANGED <<verdict, overtaken>>
      BY <2>4, Zenon DEF RunSite, RunStub, RunBody
    <3>2. QED
      BY <2>1, <3>1
  <2>5. QED
    BY <2>2, <2>3, <2>4 DEF ThreadStep
<1>3. QED
  BY <1>1, <1>2 DEF LifecycleInv, LifecycleTypeOK, SiteInv, ClockInv, Hooked, Unhooked,
                    dllVars, scanVars, codeVars

(* The invariant is preserved by every step, and by time alone.            *)
LEMMA LifecycleStep == LifecycleInv /\ [Next]_vars => LifecycleInv'
<1> SUFFICES ASSUME LifecycleInv, [Next]_vars PROVE LifecycleInv'
    OBVIOUS
<1>1. CASE UNCHANGED vars
  BY <1>1 DEF vars, dllVars, scanVars, codeVars, threadVars,
              LifecycleInv, LifecycleTypeOK, SiteInv, ClockInv, Hooked, Unhooked
<1>2. CASE Tick
  BY <1>2, ElapseKeeps DEF Tick
<1>3. CASE Load \/ FreeLibrary \/ ExitProcess \/ DllStep
  BY <1>3, AttachKeeps, DetachKeeps DEF DllStep
<1>4. CASE ScanStep
  BY <1>4, ScanKeeps
<1>5. ASSUME NEW t \in Threads, ThreadStep(t) PROVE LifecycleInv'
  BY <1>5, ThreadKeeps
<1>6. QED
  BY <1>1, <1>2, <1>3, <1>4, <1>5 DEF Next

(* The invariant says what the properties say.                             *)
LEMMA LifecycleMeans ==
  ASSUME LifecycleInv PROVE LifecycleTypeOK /\ ScanLeavesFirst /\ Footprint
BY DEF LifecycleInv, LifecycleTypeOK, SiteInv, ClockInv, ScanLeavesFirst, Footprint

(* The invariant holds throughout.                                         *)
LEMMA LifecycleAlways == Spec => []LifecycleInv
BY LifecycleInit, LifecycleStep, PTL DEF Spec

(* The DLL, the scan thread and the bytes keep their types and the loader  *)
(* lock its owner, whenever the DLL comes and goes (main.cpp 243-387).     *)
THEOREM LifecycleTypeCorrect == Spec => []LifecycleTypeOK
BY LifecycleAlways, LifecycleMeans, PTL

(* When the DLL goes away no scan is asleep or walking in it, for any      *)
(* times of the scan thread below DllMain's (main.cpp 172, 382).           *)
THEOREM ScanLeavesFirstAlways == Spec => []ScanLeavesFirst
BY LifecycleAlways, LifecycleMeans, PTL

(* The bytes InstallHook has overwritten are back whenever the DLL is out, *)
(* in whatever order memcpy writes them, and the block is freed, on every  *)
(* way through InstallHook and RemoveHook (main.cpp 271-276, 362-370).     *)
THEOREM FootprintAlways == Spec => []Footprint
BY LifecycleAlways, LifecycleMeans, PTL

=============================================================================
