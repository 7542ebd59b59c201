--------------------------- MODULE HookLifecycle ---------------------------
(***************************************************************************)
(* nvmp_server_hook.dll comes into the server and goes out of it           *)
(* (nvmp_server_hook/src/main.cpp: InstallHook, RemoveHook, DllMain, the   *)
(* frame of ScanThread), while server threads call the function it hooks.  *)
(*                                                                         *)
(* DllMain runs under the loader lock.  A new thread needs that lock       *)
(* before its first instruction and after its last one.  Each instruction  *)
(* a server thread executes in the five bytes or in the code block is a    *)
(* step.  So is each piece memcpy writes over the five bytes, in no        *)
(* promised order: a piece is one instruction of the prologue, because     *)
(* half of a piece is to everybody what a foreign piece is.  Time passes   *)
(* in ticks (seconds); a step that can be taken at once is not put off.    *)
(*                                                                         *)
(* VirtualProtect, whose result nobody looks at, is taken to open the five *)
(* bytes (main.cpp 350, 365).                                              *)
(*                                                                         *)
(* Nothing in the repository unloads the DLL of a running server: that is  *)
(* the end of the process, or somebody's FreeLibrary.                      *)
(***************************************************************************)
EXTENDS HookStub

CONSTANTS
  Threads,    \* the server's threads that call ShouldSynchronise
  SleepTime,  \* ticks of the scan thread's Sleep (2000 ms)
  WalkTime,   \* bound: the longest a scan takes, in ticks
  WaitTime,   \* ticks DllMain waits for the scan thread (3000 ms)
  MaxRefs     \* bound: how often the DLL is loaded on top of itself

ASSUME TimeAssumption ==
  /\ SleepTime \in Nat /\ WalkTime \in Nat /\ WaitTime \in Nat
  /\ SleepTime < WaitTime /\ WalkTime < WaitTime

ASSUME RefsAssumption == MaxRefs \in Nat \ {0}

VARIABLES
  \* the DLL
  dll,      \* how far DllMain is, or that the DLL is loaded or not
  refs,     \* the loader's reference count
  saved,    \* g_originalBytes: what was found, or "none"
  block,    \* the memory g_codeBlock was given: "none", "blank" or "filled"
  todo,     \* the pieces a memcpy over the function has yet to write
  running,  \* g_running
  scan,     \* the scan thread
  nap,      \* ticks the scan thread has slept, or walked
  waited,   \* ticks DllMain has waited
  \* the server
  lock,     \* who holds the loader lock
  site,     \* the first five bytes of ShouldSynchronise, piece by piece
  owner,    \* the ownership check of the attack handler: "je", "jmp" or "other"
  alive,    \* the process has not called ExitProcess
  \* the server's threads
  cpu,        \* their machines
  verdict,    \* what CheckShouldBlock answered to the present call
  overtaken   \* threads whose call was inside what was rewritten or freed

dllVars == <<dll, refs, saved, block, todo, running>>
scanVars == <<scan, nap>>
codeVars == <<site, owner>>
threadVars == <<cpu, verdict, overtaken>>
vars == <<dllVars, scanVars, waited, lock, codeVars, alive, threadVars>>

\* Pieces begin where instructions of the prologue begin: 55 | 8B EC | 6A FF.
Pieces == {0, 1, 3}
All(b) == [i \in Pieces |-> b]

DllPhases == {"out", "owner", "save", "alloc", "fill", "patch", "spawn", "loaded",
              "stop", "wait", "restore", "free", "unmap"}

Outside(m) == m.pc = <<"return", 0>>
At(t) == cpu[t].pc[1]

LifecycleTypeOK ==
  /\ dll \in DllPhases /\ refs \in 0 .. MaxRefs
  /\ saved \in {"none", "old", "other"} /\ block \in {"none", "blank", "filled"}
  /\ todo \subseteq Pieces /\ running \in BOOLEAN
  /\ scan \in {"none", "created", "asleep", "walking", "ending", "ended", "caught"}
  /\ nap \in 0 .. SleepTime + WalkTime /\ waited \in 0 .. WaitTime
  /\ lock \in {"free", "dll"}
  /\ site \in [Pieces -> {"old", "jump", "other"}] /\ owner \in {"je", "jmp", "other"}
  /\ alive \in BOOLEAN
  /\ verdict \in [Threads -> {"none", "block", "pass"}]
  /\ overtaken \subseteq Threads
  \* The lock is held, and the function rewritten, by DllMain only.
  /\ lock = "dll" <=> dll \notin {"out", "loaded"}
  /\ todo # {} => dll \in {"patch", "stop", "wait", "restore"}
  /\ refs > 0 <=> dll \notin {"out", "stop", "wait", "restore", "free", "unmap"}

Init ==
  /\ dll = "out" /\ refs = 0 /\ saved = "none" /\ block = "none" /\ todo = {}
  /\ running = FALSE /\ scan = "none" /\ nap = 0 /\ waited = 0 /\ lock = "free"
  /\ site \in {All("old"), All("other")} /\ owner \in {"je", "jmp", "other"}
  /\ alive = TRUE
  /\ cpu = [t \in Threads |-> AtCall(<<"return", 0>>)]
  /\ verdict = [t \in Threads |-> "none"]
  /\ overtaken = {}

----------------------------------------------------------------------------
(* DLL_PROCESS_ATTACH.                                                     *)

(* LoadLibrary of a DLL that is not loaded maps it and calls DllMain; of   *)
(* one that is loaded it only counts.  A thread of an earlier life that is *)
(* still on its way out holds a load up.                                   *)
Load ==
  /\ alive /\ lock = "free"
  /\ \/ /\ dll = "out" /\ scan \in {"none", "ended"}
        /\ dll' = "owner" /\ lock' = "dll" /\ refs' = 1
        /\ scan' = "none"
     \/ /\ dll = "loaded" /\ refs < MaxRefs
        /\ refs' = refs + 1
        /\ UNCHANGED <<dll, lock, scan>>
  /\ UNCHANGED <<saved, block, todo, running, nap, waited, codeVars, alive, threadVars>>

(* The ownership check is patched, unless VirtualProtect refuses or the    *)
(* byte is not the expected one.                                           *)
PatchOwner ==
  /\ dll = "owner"
  /\ dll' = "save"
  /\ owner' \in IF owner = "je" THEN {"je", "jmp"} ELSE {owner}
  /\ UNCHANGED <<refs, saved, block, todo, running, scanVars, waited, lock, site, alive, threadVars>>

(* InstallHook returns: without a hook DllMain has nothing more to do. *)
Decline == dll' = "loaded" /\ lock' = "free"

(* The five bytes are saved, then compared. *)
SaveBytes ==
  /\ dll = "save"
  /\ saved' = site[0]
  /\ IF site = All("old") THEN dll' = "alloc" /\ UNCHANGED lock ELSE Decline
  /\ UNCHANGED <<refs, block, todo, running, scanVars, waited, codeVars, alive, threadVars>>

AllocBlock ==
  /\ dll = "alloc"
  /\ \/ block' = "blank" /\ dll' = "fill" /\ UNCHANGED lock
     \/ UNCHANGED block /\ Decline
  /\ UNCHANGED <<refs, saved, todo, running, scanVars, waited, codeVars, alive, threadVars>>

\* Mutant of FillBlock: the JMP is installed before the block is filled.
FillBlockLate ==
  /\ dll = "fill"
  /\ dll' = "patch" /\ todo' = Pieces
  /\ UNCHANGED <<refs, saved, block, running, scanVars, waited, lock, codeVars, alive, threadVars>>

FillBlock ==
  /\ dll = "fill"
  /\ block' = "filled" /\ dll' = "patch" /\ todo' = Pieces
  /\ UNCHANGED <<refs, saved, running, scanVars, waited, lock, codeVars, alive, threadVars>>

(* Piece i of the function becomes b; who executes there is overtaken. *)
WritePiece(i, b) ==
  /\ i \in todo
  /\ todo' = todo \ {i}
  /\ site' = [site EXCEPT ![i] = b]
  /\ overtaken' = overtaken \cup {t \in Threads : At(t) = "site"}
  /\ UNCHANGED <<owner, cpu, verdict>>

PatchSite(i) ==
  /\ dll = "patch"
  /\ WritePiece(i, "jump")
  /\ dll' = IF todo' = {} THEN "spawn" ELSE "patch"
  /\ UNCHANGED <<refs, saved, block, running, scanVars, waited, lock, alive>>

(* g_running = true; CreateThread, which may fail.  DllMain returns. *)
StartScan ==
  /\ dll = "spawn"
  /\ running' = TRUE
  /\ scan' \in {"created", "none"} /\ nap' = 0
  /\ dll' = "loaded" /\ lock' = "free"
  /\ UNCHANGED <<refs, saved, block, todo, waited, codeVars, alive, threadVars>>

----------------------------------------------------------------------------
(* DLL_PROCESS_DETACH.                                                     *)

(* Somebody's FreeLibrary: the last one calls DllMain. *)
FreeLibrary ==
  /\ alive /\ lock = "free" /\ dll = "loaded"
  /\ refs' = refs - 1
  /\ IF refs = 1 THEN dll' = "stop" /\ lock' = "dll" ELSE UNCHANGED <<dll, lock>>
  /\ UNCHANGED <<saved, block, todo, running, scanVars, waited, codeVars, alive, threadVars>>

(* The process ends: every other thread is gone when DllMain is called. *)
ExitProcess ==
  /\ alive /\ lock = "free"
  /\ alive' = FALSE
  /\ scan' = IF scan = "none" THEN "none" ELSE "ended"
  /\ cpu' = [t \in Threads |-> Jump(cpu[t], <<"ended", 0>>)]
  /\ IF dll = "loaded" THEN dll' = "stop" /\ lock' = "dll" /\ refs' = 0
     ELSE UNCHANGED <<dll, lock, refs>>
  /\ UNCHANGED <<saved, block, todo, running, nap, waited, codeVars, verdict, overtaken>>

\* Mutant of StopScan: g_running stays true.
StopScanRunning ==
  /\ dll = "stop"
  /\ waited' = 0 /\ dll' = IF scan = "none" THEN "restore" ELSE "wait"
  /\ todo' = IF saved = "none" THEN {} ELSE Pieces
  /\ UNCHANGED <<refs, saved, block, running, scanVars, lock, codeVars, alive, threadVars>>

(* g_running = false, and if there is a thread DllMain waits for it. *)
StopScan ==
  /\ dll = "stop"
  /\ running' = FALSE
  /\ waited' = 0 /\ dll' = IF scan = "none" THEN "restore" ELSE "wait"
  /\ todo' = IF saved = "none" THEN {} ELSE Pieces
  /\ UNCHANGED <<refs, saved, block, scanVars, lock, codeVars, alive, threadVars>>

\* Mutant of WaitOver: WaitForSingleObject(g_thread, INFINITE).
WaitOverInfinite ==
  /\ dll = "wait"
  /\ scan = "ended"
  /\ dll' = "restore"
  /\ UNCHANGED <<refs, saved, block, todo, running, scanVars, waited, lock, codeVars, alive, threadVars>>

WaitOver ==
  /\ dll = "wait"
  /\ scan = "ended" \/ waited = WaitTime
  /\ dll' = "restore"
  /\ UNCHANGED <<refs, saved, block, todo, running, scanVars, waited, lock, codeVars, alive, threadVars>>

\* Mutant of RestoreSite: three of the five bytes are written back.
RestoreSitePartly(i) ==
  /\ dll = "restore"
  /\ WritePiece(i, saved)
  /\ dll' = IF todo' \subseteq {3} THEN "free" ELSE "restore"
  /\ UNCHANGED <<refs, saved, block, running, scanVars, waited, lock, alive>>

(* RemoveHook writes back what InstallHook saved, hooked or not.  (The     *)
(* bytes are never absent: g_originalBytes[0] is 0 only before SaveBytes.) *)
RestoreSite(i) ==
  /\ dll = "restore"
  /\ WritePiece(i, saved)
  /\ dll' = IF todo' = {} THEN "free" ELSE "restore"
  /\ UNCHANGED <<refs, saved, block, running, scanVars, waited, lock, alive>>

\* Mutant of FreeBlock: VirtualFree is forgotten.
FreeBlockForgotten ==
  /\ dll = "free"
  /\ overtaken' = overtaken \cup {t \in Threads : At(t) \in {"stub", "dll"}}
  /\ dll' = "unmap"
  /\ UNCHANGED <<refs, saved, block, todo, running, scanVars, waited, lock, codeVars, alive, cpu, verdict>>

FreeBlock ==
  /\ dll = "free"
  /\ block' = "none"
  /\ overtaken' = overtaken \cup {t \in Threads : At(t) \in {"stub", "dll"}}
  /\ dll' = "unmap"
  /\ UNCHANGED <<refs, saved, todo, running, scanVars, waited, lock, codeVars, alive, cpu, verdict>>

(* DllMain returns; the image is unmapped, unless the process ends anyway. *)
(* g_originalBytes go with it, the block's memory does not.                *)
Unmap ==
  /\ dll = "unmap"
  /\ dll' = "out" /\ lock' = "free" /\ saved' = "none"
  /\ waited' = 0
  /\ UNCHANGED <<refs, block, todo, running, scanVars, codeVars, alive, threadVars>>

DllStep ==
  \/ PatchOwner \/ SaveBytes \/ AllocBlock \/ FillBlock \/ StartScan
  \/ StopScan \/ WaitOver \/ FreeBlock \/ Unmap
  \/ \E i \in Pieces : PatchSite(i) \/ RestoreSite(i)

----------------------------------------------------------------------------
(* The scan thread: `while (g_running) { Sleep(2000); if (!g_running)      *)
(* break; ... }`.                                                          *)

Mapped == dll # "out"

LoopTest ==
  IF running THEN scan' = "asleep" /\ nap' = 0 ELSE scan' = "ending" /\ nap' = 0

\* The first instruction, with the loader lock.
Begin ==
  /\ scan = "created" /\ lock = "free"
  /\ IF Mapped THEN LoopTest ELSE scan' = "caught" /\ UNCHANGED nap

WakeUp ==
  /\ scan = "asleep" /\ nap = SleepTime
  /\ IF ~Mapped THEN scan' = "caught" /\ UNCHANGED nap
     ELSE scan' = (IF running THEN "walking" ELSE "ending") /\ nap' = 0

FinishWalk ==
  /\ scan = "walking"
  /\ IF Mapped THEN LoopTest ELSE scan' = "caught" /\ UNCHANGED nap

\* The thread function has returned; the thread ends with the loader lock.
End ==
  /\ scan = "ending" /\ lock = "free"
  /\ scan' = "ended" /\ UNCHANGED nap

ScanStep ==
  /\ alive
  /\ Begin \/ WakeUp \/ FinishWalk \/ End
  /\ UNCHANGED <<dllVars, waited, lock, codeVars, alive, threadVars>>

----------------------------------------------------------------------------
(* Time.                                                                   *)

\* Nothing can go on at this very moment except the server's own threads.
NothingUrgent ==
  /\ dll \in {"out", "loaded", "wait"} /\ ~(dll = "wait" /\ (scan = "ended" \/ waited = WaitTime))
  /\ ~(scan \in {"created", "ending"} /\ lock = "free")
  /\ ~(scan = "asleep" /\ nap = SleepTime) /\ ~(scan = "walking" /\ nap = WalkTime)

Elapse ==
  /\ alive /\ NothingUrgent
  /\ nap' = IF scan \in {"asleep", "walking"} THEN nap + 1 ELSE nap
  /\ waited' = IF dll = "wait" THEN waited + 1 ELSE waited
  /\ UNCHANGED <<dllVars, scan, lock, codeVars, alive, threadVars>>

Tick == (scan \in {"asleep", "walking"} \/ dll = "wait") /\ Elapse

----------------------------------------------------------------------------
(* The server's threads.                                                   *)

(* A call of ShouldSynchronise.  A server whose function begins with other *)
(* bytes is never hooked; its calls are not followed.                      *)
Call(t) ==
  /\ Outside(cpu[t])
  /\ site[0] # "other"
  /\ cpu' = [cpu EXCEPT ![t] = AtCall(<<"site", 0>>)]
  /\ verdict' = [verdict EXCEPT ![t] = "none"]
  /\ overtaken' = IF site \in {All("old"), All("jump")} THEN overtaken \ {t} ELSE overtaken \cup {t}

\* An instruction of the first five bytes: the jump, the prologue, or neither.
SiteStep(m) ==
  LET offset == m.pc[2] IN
  CASE offset = 0 /\ site = All("jump") -> Jump(m, <<"stub", 0>>)
    [] offset = 5 -> Jump(m, <<"body", 5>>)
    [] offset \in Pieces /\ site[offset] = "old" -> StepIn(m, Prologue, PrologueAt)
    [] OTHER -> Astray(m)

RunSite(t) == At(t) = "site" /\ cpu' = [cpu EXCEPT ![t] = SiteStep(@)] /\ UNCHANGED <<verdict, overtaken>>

RunStub(t) ==
  /\ At(t) = "stub"
  /\ cpu' = [cpu EXCEPT ![t] = IF block = "filled" THEN StepIn(@, CodeBlock, BlockAt) ELSE Astray(@)]
  /\ UNCHANGED <<verdict, overtaken>>

(* CheckShouldBlock, which SyncHook models step by step. *)
RunDll(t) ==
  /\ At(t) = "dll"
  /\ IF Mapped
       THEN \E answer \in {"block", "pass"} :
              /\ cpu' = [cpu EXCEPT ![t] = AnsweredBy(@, answer)]
              /\ verdict' = [verdict EXCEPT ![t] = answer]
       ELSE cpu' = [cpu EXCEPT ![t] = Astray(@)] /\ UNCHANGED verdict
  /\ UNCHANGED overtaken

(* The rest of the function runs and returns to its caller. *)
RunBody(t) ==
  /\ At(t) = "body"
  /\ cpu' = [cpu EXCEPT ![t] = AtCall(<<"return", 0>>)]
  /\ UNCHANGED <<verdict, overtaken>>

ThreadStep(t) ==
  /\ alive
  /\ Call(t) \/ RunSite(t) \/ RunStub(t) \/ RunDll(t) \/ RunBody(t)
  /\ UNCHANGED <<dllVars, scanVars, waited, lock, codeVars, alive>>

Next ==
  \/ Load \/ FreeLibrary \/ ExitProcess \/ DllStep \/ ScanStep \/ Tick
  \/ \E t \in Threads : ThreadStep(t)

Spec == Init /\ [][Next]_vars

(* The loading thread, the scan thread and the clock go on. *)
FairSpec == Spec /\ WF_vars(DllStep) /\ WF_vars(ScanStep) /\ WF_vars(Tick)

----------------------------------------------------------------------------
(* What the machine of a thread says about its call.                       *)

\* Registers and stack are as the function's own prologue would leave them.
LikeOriginal(m) ==
  LET own == AfterPrologue(AtCall(<<"site", 0>>))
  IN  /\ m.pc = own.pc /\ m.esp = own.esp /\ m.reg = own.reg
      /\ \A i \in own.esp .. Entry + 2 : m.mem[i] = own.mem[i]

\* The call has returned 0 and popped its argument; nothing else has changed
\* that the calling convention protects.
ReturnedZero(m) ==
  /\ m.pc = <<"return", 0>> /\ m.esp = Entry + 2
  /\ LowByteZero(m.reg["eax"])
  /\ \A r \in CalleeSaved : m.reg[r] = <<r, 0>>
  /\ \A i \in m.esp .. Entry + 2 : m.mem[i] = <<"caller", i>>

\* CheckShouldBlock has been handed the call's own arguments.
RightArguments(m) == Argument(m, 1) = <<"ecx", 0>> /\ Argument(m, 2) = <<"param_2", 0>>

CallStatus(m, answer) ==
  CASE m = AtCall(<<"return", 0>>) -> "out"
    [] ReturnedZero(m) -> "withheld"
    [] LikeOriginal(m) -> "original"
    [] m.pc[1] \in {"site", "stub"} \/ (m.pc[1] = "dll" /\ RightArguments(m)) ->
         IF answer = "none" THEN "asked" ELSE answer
    [] m.pc[1] = "astray" -> "lost"
    [] m.pc[1] = "ended" -> "ended"
    [] OTHER -> "broken"

Status(t) == CallStatus(cpu[t], verdict[t])

Function == INSTANCE HookedFunction
  WITH call <- [t \in Threads |-> Status(t)], excused <- overtaken

(* The stub, its installation and its removal implement HookedFunction:    *)
(* whatever the moment at which the DLL comes or goes, a call is withheld  *)
(* or runs the original as if nothing had been in between, and only a call *)
(* that was inside the bytes while they were rewritten, or in the block or *)
(* the DLL when these went away, is lost (main.cpp 278-370).               *)
ImplementsFunction == Function!FunctionSpec

(* The wait in DllMain is long enough: when the DLL goes away the scan     *)
(* thread neither sleeps nor walks in it, although the wait never sees the *)
(* thread end, because it ends only with the lock DllMain holds (369-382). *)
ScanLeavesFirst ==
  dll \in {"restore", "free", "unmap", "out"} /\ alive => scan \notin {"asleep", "walking"}

(* Between two lives of the DLL the function is whole again, whether it    *)
(* was hooked or not; the block, which unmapping does not give back, was   *)
(* freed, or never allocated; and no scan is due (main.cpp 362-370).       *)
Footprint ==
  dll = "out" => /\ site \in {All("old"), All("other")} /\ block = "none"
                 /\ refs = 0 /\ ~running /\ lock = "free"

(* Detaching ends: no deadlock of DllMain with its thread (main.cpp 382).  *)
UnloadEnds == dll = "stop" ~> dll = "out"

=============================================================================
