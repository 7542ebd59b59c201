------------------------ MODULE ServerProcessProofs ------------------------
(***************************************************************************)
(* Theorems of PSpec, the injector with the server it injects into.  The   *)
(* server of PSpec is one of Spec's (ProcessIsLifecycle), so the theorems  *)
(* about the life cycle carry over.  That the path is read before it is    *)
(* freed is again a race of two clocks (PatienceInv): while the injector's *)
(* thread has not run, the injector has not waited longer than DllMain.    *)
(***************************************************************************)
EXTENDS ServerProcess, HookStubProofs

Attaching == {"owner", "save", "alloc", "fill", "patch", "spawn"}
Setup == {"open", "alloc", "write", "spawn"}

\* What InjectDLL holds while it has the calls c to make before it returns:
\* what they give back, and nothing else.
Owing(c) ==
  \/ c = <<>> /\ handles = {} /\ path \in {"none", "freed"}
  \/ c = <<"process">> /\ handles = {"process"} /\ path \in {"none", "freed"}
  \/ c = <<"path", "process">> /\ handles = {"process"} /\ path \in {"blank", "written"}
  \/ c = <<"thread", "path", "process">> /\ handles = {"process", "thread"} /\ path = "written"

\* What the injector holds at each of its steps.
HeldInv ==
  /\ inj \in {"idle", "open"} => handles = {} /\ path = "none"
  /\ inj = "alloc" => handles = {"process"} /\ path = "none"
  /\ inj = "write" => handles = {"process"} /\ path = "blank"
  /\ inj = "spawn" => handles = {"process"} /\ path = "written"
  /\ inj = "wait" => handles = {"process", "thread"} /\ path = "written"
  /\ inj \in {"failing", "succeeding"} => calls # <<>> /\ Owing(calls)
  /\ inj \in Reports => Owing(<<>>)
  /\ inj # "wait" => patience = 0
  /\ inj \in Setup => remote = "none"

\* How long the injector has waited for a thread that has not run yet.
PatienceInv ==
  /\ dll \in Attaching => remote = "loading"
  /\ alive /\ remote = "created" =>
       /\ inj = "wait"
       /\ dll \in {"loaded", "stop"} => patience = 0
       /\ dll = "wait" => patience <= waited
       /\ patience <= WaitTime

InjectorTypeOK ==
  /\ inj \in {"idle", "open", "alloc", "write", "spawn", "wait", "failing", "succeeding"} \cup Reports
  /\ calls \in Seq(Releases)
  /\ runs \in 0 .. MaxRuns /\ handles \subseteq {"process", "thread"}
  /\ path \in {"none", "blank", "written", "freed"}
  /\ patience \in 0 .. InjectTime
  /\ remote \in {"none", "created", "read", "loading"} \cup Ended

InjectInv == InjectorTypeOK /\ HeldInv /\ PatienceInv

(* Every step of the process is a step of the hook's life cycle, or leaves *)
(* it alone.                                                               *)
LEMMA ProcessStepIsLifecycleStep == [PNext]_pvars => [Next]_vars
<1> SUFFICES ASSUME PNext PROVE [Next]_vars
  BY DEF pvars
<1>1. CASE InjectorStep
  BY <1>1 DEF InjectorStep
<1>2. CASE RemoteStep
  BY <1>2, Zenon DEF RemoteStep, ReadPath, LoadDll, LoadReturns, Next
<1>3. CASE Second
  <2>1. Elapse
    BY <1>3 DEF Second
  <2>2. CASE scan \in {"asleep", "walking"} \/ dll = "wait"
    BY <2>1, <2>2, Zenon DEF Tick, Next
  <2>3. CASE ~(scan \in {"asleep", "walking"} \/ dll = "wait")
    <3>1. nap' = nap /\ waited' = waited
      BY <2>1, <2>3 DEF Elapse
    <3>2. UNCHANGED <<dllVars, scan, lock, codeVars, alive, threadVars>>
      BY <2>1, Zenon DEF Elapse
    <3>3. QED
      BY <3>1, <3>2 DEF vars, scanVars
  <2>4. QED
    BY <2>2, <2>3
<1>4. CASE HookStep
  BY <1>4, Zenon DEF HookStep, Next
<1>5. QED
  BY <1>1, <1>2, <1>3, <1>4 DEF PNext

(* Seen from the DLL, the injector's server is a server like any other     *)
(* (injector.cpp 27-65): its behaviours are behaviours of the life cycle.  *)
THEOREM ProcessIsLifecycle == PSpec => Spec
<1>1. PInit => Init
  BY DEF PInit
<1>2. QED
  BY <1>1, ProcessStepIsLifecycleStep, PTL DEF PSpec, Spec

(* The injector starts with nothing.                                       *)
LEMMA InjectInit == PInit => InjectInv
<1> SUFFICES ASSUME PInit PROVE InjectInv
    OBVIOUS
<1>1. /\ inj = "idle" /\ calls = <<>> /\ runs = 0 /\ handles = {} /\ path = "none" /\ patience = 0
      /\ remote = "none" /\ dll = "out"
  BY DEF PInit, Init
<1>2. 0 \in 0 .. MaxRuns /\ 0 \in 0 .. InjectTime
  BY InjectAssumption
<1>3. InjectorTypeOK
  BY <1>1, <1>2 DEF InjectorTypeOK
<1>4. HeldInv /\ PatienceInv
  BY <1>1 DEF HeldInv, PatienceInv, Attaching, Setup, Reports
<1>5. QED
  BY <1>3, <1>4 DEF InjectInv

(* An exit that names what is held owes it.                                *)
LEMMA ExitKeeps ==
  ASSUME InjectInv,
         NEW outcome \in {"failing", "succeeding"}, NEW c, Exit(outcome, c),
         c \in Seq(Releases), c # <<>>, Owing(c), ~(alive' /\ remote = "created"),
         UNCHANGED <<dll, waited, alive>>
  PROVE  InjectInv'
<1>1. inj' = outcome /\ calls' = c /\ patience' = 0 /\ UNCHANGED <<runs, handles, path, remote>>
  BY DEF Exit
<1>2. InjectorTypeOK'
  BY <1>1, InjectAssumption DEF InjectInv, InjectorTypeOK
<1>3. Owing(calls)'
  BY <1>1 DEF Owing
<1>4. HeldInv'
  BY <1>1, <1>3 DEF HeldInv, Setup, Reports
<1>5. PatienceInv'
  BY <1>1 DEF InjectInv, PatienceInv, Attaching
<1>6. QED
  BY <1>2, <1>4, <1>5 DEF InjectInv

(* A call gives back what it stands for, and the rest remains owed.        *)
LEMMA ReleaseKeeps ==
  ASSUME InjectInv, Release, UNCHANGED <<dll, waited, alive>> PROVE InjectInv'
<1> DEFINE call == Head(calls)
<1>1. /\ inj \in {"failing", "succeeding"}
      /\ handles' = handles \ {call}
      /\ path' = IF call = "path" /\ "process" \in handles THEN "freed" ELSE path
      /\ calls' = Tail(calls)
      /\ inj' = IF Len(calls) > 1 THEN inj ELSE IF inj = "failing" THEN "failure" ELSE "success"
      /\ UNCHANGED <<runs, patience, remote>>
  BY DEF Release
<1>2. calls # <<>> /\ Owing(calls) /\ calls \in Seq(Releases)
  BY <1>1 DEF InjectInv, InjectorTypeOK, HeldInv
<1>3. \/ /\ calls = <<"process">> /\ handles = {"process"} /\ path \in {"none", "freed"}
         /\ call = "process" /\ Tail(calls) = <<>> /\ Len(calls) = 1
      \/ /\ calls = <<"path", "process">> /\ handles = {"process"} /\ path \in {"blank", "written"}
         /\ call = "path" /\ Tail(calls) = <<"process">> /\ Len(calls) = 2
      \/ /\ calls = <<"thread", "path", "process">> /\ handles = {"process", "thread"} /\ path = "written"
         /\ call = "thread" /\ Tail(calls) = <<"path", "process">> /\ Len(calls) = 3
  <2>1. CASE calls = <<"process">>
    BY <1>2, <2>1 DEF Owing
  <2>2. CASE calls = <<"path", "process">>
    BY <1>2, <2>2 DEF Owing
  <2>3. CASE calls = <<"thread", "path", "process">>
    BY <1>2, <2>3 DEF Owing
  <2>4. QED
    BY <1>2, <2>1, <2>2, <2>3, Zenon DEF Owing
<1>4. IF Len(calls) > 1 THEN inj' = inj /\ calls' # <<>> ELSE inj' \in Reports /\ calls' = <<>>
  BY <1>1, <1>3 DEF Reports
<1>5. Owing(calls)'
  BY <1>1, <1>3 DEF Owing
<1>6. InjectorTypeOK'
  <2>1. calls' \in Seq(Releases)
    BY <1>1, <1>2
  <2>2. path' \in {"none", "blank", "written", "freed"} /\ handles' \subseteq {"process", "thread"}
    BY <1>1 DEF InjectInv, InjectorTypeOK
  <2>3. QED
    BY <1>1, <1>4, <2>1, <2>2 DEF InjectInv, InjectorTypeOK
<1>7. HeldInv'
  <2>1. inj' \in Reports => Owing(<<>>)'
    <3>1. inj' \in Reports => calls' = <<>>
      BY <1>1, <1>4 DEF Reports
    <3>2. QED
      BY <1>5, <3>1 DEF Owing
  <2>2. inj' \in {"failing", "succeeding"} => calls' # <<>>
    BY <1>4 DEF Reports
  <2>3. inj' \in {"failing", "succeeding"} \cup Reports /\ patience' = 0
    BY <1>1, <1>4 DEF InjectInv, HeldInv
  <2>4. QED
    BY <1>5, <2>1, <2>2, <2>3 DEF HeldInv, Setup, Reports
<1>8. PatienceInv'
  BY <1>1 DEF InjectInv, PatienceInv, Attaching
<1>9. QED
  BY <1>6, <1>7, <1>8 DEF InjectInv

(* The injector's own steps: each of its five exits names what has been    *)
(* taken by then (injector.cpp 29-32, 36-40, 42-47, 53-58, 60-64).         *)
LEMMA InjectorKeeps ==
  ASSUME InjectInv, LifecycleInv, InjectorStep PROVE InjectInv'
<1> USE TimeAssumption, InjectAssumption
<1>1. UNCHANGED <<dll, waited, alive, scan, lock>>
  BY DEF InjectorStep, vars, dllVars, scanVars
<1>2. LifecycleTypeOK
  BY DEF LifecycleInv
<1>3. waited \in 0 .. WaitTime
  BY <1>2 DEF LifecycleTypeOK
<1>4. CASE Find
  BY <1>1, <1>4 DEF Find, InjectInv, InjectorTypeOK, HeldInv, PatienceInv, Attaching, Setup,
                    Reports, Ended, Owing
<1>5. CASE OpenServer
  <2>1. CASE Exit("failure", <<>>)
    BY <1>1, <1>5, <2>1 DEF OpenServer, Exit, InjectInv, InjectorTypeOK, HeldInv, PatienceInv,
                            Attaching, Setup, Reports, Owing
  <2>2. CASE ~Exit("failure", <<>>)
    BY <1>1, <1>5, <2>2 DEF OpenServer, InjectInv, InjectorTypeOK, HeldInv, PatienceInv,
                            Attaching, Setup, Reports
  <2>3. QED
    BY <2>1, <2>2
<1>6. CASE AllocPath
  <2>1. CASE Exit("failing", <<"process">>)
    <3>1. Owing(<<"process">>) /\ remote = "none"
      BY <1>6 DEF AllocPath, Owing, InjectInv, HeldInv, Setup
    <3>2. <<"process">> \in Seq(Releases) /\ <<"process">> # <<>>
      BY DEF Releases
    <3>3. QED
      BY <1>1, <2>1, <3>1, <3>2, ExitKeeps
  <2>2. CASE ~Exit("failing", <<"process">>)
    BY <1>1, <1>6, <2>2 DEF AllocPath, InjectInv, InjectorTypeOK, HeldInv, PatienceInv,
                            Attaching, Setup, Reports
  <2>3. QED
    BY <2>1, <2>2
<1>7. <<"path", "process">> \in Seq(Releases) /\ <<"path", "process">> # <<>>
  BY DEF Releases
<1>8. CASE WritePath
  <2>1. CASE Exit("failing", <<"path", "process">>)
    <3>1. Owing(<<"path", "process">>) /\ remote = "none"
      BY <1>8 DEF WritePath, Owing, InjectInv, HeldInv, Setup
    <3>2. QED
      BY <1>1, <1>7, <2>1, <3>1, ExitKeeps
  <2>2. CASE ~Exit("failing", <<"path", "process">>)
    BY <1>1, <1>8, <2>2 DEF WritePath, InjectInv, InjectorTypeOK, HeldInv, PatienceInv,
                            Attaching, Setup, Reports
  <2>3. QED
    BY <2>1, <2>2
<1>9. CASE Spawn
  <2>1. /\ inj = "spawn" /\ patience = 0 /\ remote = "none" /\ path = "written"
        /\ handles = {"process"} /\ dll \notin Attaching
    BY <1>9 DEF Spawn, InjectInv, HeldInv, PatienceInv, Setup
  <2>2. 0 <= waited /\ 0 <= WaitTime
    BY <1>3
  <2>3. CASE Exit("failing", <<"path", "process">>)
    <3>1. Owing(<<"path", "process">>)
      BY <2>1 DEF Owing
    <3>2. QED
      BY <1>1, <1>7, <2>1, <2>3, <3>1, ExitKeeps
  <2>4. CASE ~Exit("failing", <<"path", "process">>)
    <3>1. /\ inj' = "wait" /\ remote' = "created" /\ handles' = handles \cup {"thread"}
          /\ UNCHANGED <<calls, runs, path, patience>>
      BY <1>9, <2>4 DEF Spawn
    <3>2. InjectorTypeOK' /\ HeldInv'
      BY <3>1, <2>1 DEF InjectInv, InjectorTypeOK, HeldInv, Setup, Reports
    <3>3. PatienceInv'
      BY <1>1, <3>1, <2>1, <2>2 DEF PatienceInv, Attaching
    <3>4. QED
      BY <3>2, <3>3 DEF InjectInv
  <2>5. QED
    BY <2>3, <2>4
<1>10. CASE AwaitThread
  <2>1. Exit("succeeding", <<"thread", "path", "process">>) /\ inj = "wait"
    BY <1>10 DEF AwaitThread
  <2>2. Owing(<<"thread", "path", "process">>)
    BY <2>1 DEF Owing, InjectInv, HeldInv
  <2>3. /\ <<"thread", "path", "process">> \in Seq(Releases)
        /\ <<"thread", "path", "process">> # <<>>
    BY DEF Releases
  <2>4. ~(alive' /\ remote = "created")
    BY <1>1, <1>10 DEF AwaitThread, Ended, InjectInv, PatienceInv
  <2>5. QED
    BY <1>1, <2>1, <2>2, <2>3, <2>4, ExitKeeps
<1>11. CASE Release
  BY <1>1, <1>11, ReleaseKeeps
<1>12. QED
  BY <1>4, <1>5, <1>6, <1>8, <1>9, <1>10, <1>11 DEF InjectorStep

(* The injector's thread in the server.                                    *)
LEMMA RemoteKeeps ==
  ASSUME InjectInv, LifecycleInv, RemoteStep PROVE InjectInv'
<1> USE DEF InjectInv, InjectorTypeOK, HeldInv, PatienceInv, Attaching, Setup, Reports, Ended, Owing
<1>1. UNCHANGED <<inj, calls, runs, handles, path, patience>>
  BY DEF RemoteStep, ReadPath, LoadDll, LoadReturns
<1>2. remote \in {"created", "read", "loading"} /\ remote' \in {"read", "loading"} \cup Ended
  BY DEF RemoteStep, ReadPath, LoadDll, LoadReturns
<1>3. dll' \in Attaching => remote' = "loading"
  <2>1. CASE ReadPath
    <3>1. lock = "free" /\ dll' = dll
      BY <2>1 DEF ReadPath, vars, dllVars
    <3>2. QED
      BY <2>1, <3>1 DEF ReadPath, LifecycleInv, LifecycleTypeOK
  <2>2. CASE LoadDll
    BY <2>2 DEF LoadDll, Load, vars, dllVars, LifecycleInv, LifecycleTypeOK
  <2>3. CASE LoadReturns
    BY <2>3 DEF LoadReturns, vars, dllVars
  <2>4. QED
    BY <2>1, <2>2, <2>3 DEF RemoteStep
<1>4. QED
  BY <1>1, <1>2, <1>3

(* Time passes for the injector and for DllMain alike, and for neither     *)
(* while the injector's thread could run.                                  *)
LEMMA SecondKeeps ==
  ASSUME InjectInv, LifecycleInv, Second PROVE InjectInv'
<1> USE DEF InjectInv, InjectorTypeOK, HeldInv, PatienceInv, Attaching, Setup, Reports, Ended, Owing
<1>1. /\ UNCHANGED <<inj, calls, runs, handles, path, remote, dll, lock, alive>>
      /\ alive /\ dll \in {"out", "loaded", "wait"}
      /\ ~(dll = "wait" /\ waited = WaitTime)
      /\ waited' = IF dll = "wait" THEN waited + 1 ELSE waited
      /\ patience' = IF inj = "wait" THEN patience + 1 ELSE patience
      /\ ~(remote = "created" /\ lock = "free")
      /\ ~(inj = "wait" /\ patience = InjectTime)
  BY DEF Second, Elapse, NothingUrgent, RemoteUrgent, dllVars, Ended
<1>2. waited \in 0 .. WaitTime /\ (lock = "dll" <=> dll \notin {"out", "loaded"})
      /\ lock \in {"free", "dll"}
  BY DEF LifecycleInv, LifecycleTypeOK
<1>3. patience' \in 0 .. InjectTime
  BY <1>1, InjectAssumption
<1>4. InjectorTypeOK' /\ HeldInv'
  BY <1>1, <1>3
<1>5. remote = "created" => dll = "wait"
  BY <1>1, <1>2
<1>6. PatienceInv'
  BY <1>1, <1>2, <1>5, TimeAssumption
<1>7. QED
  BY <1>4, <1>6

(* The DLL's and the server's steps: DllMain lets the loader lock go       *)
(* before the injector has waited longer than DllMain.                     *)
LEMMA HookKeeps ==
  ASSUME InjectInv, LifecycleInv, LifecycleInv', HookStep PROVE InjectInv'
<1> USE DEF PatienceInv, Attaching
<1>1. UNCHANGED <<inj, calls, runs, handles, path, patience, remote>>
  BY DEF HookStep, injVars
<1>2. InjectorTypeOK' /\ HeldInv'
  BY <1>1 DEF InjectInv, InjectorTypeOK, HeldInv, Reports, Ended, Setup, Owing
<1>3. waited \in 0 .. WaitTime /\ patience \in Nat
  BY InjectAssumption, TimeAssumption DEF LifecycleInv, LifecycleTypeOK, InjectInv, InjectorTypeOK
<1>4. \/ UNCHANGED <<dll, waited, alive>>
      \/ ~alive' /\ dll' \in {dll, "stop"}
      \/ dll \in Attaching
      \/ dll = "loaded" /\ dll' \in {"loaded", "stop"}
      \/ dll = "stop" /\ dll' \in {"restore", "wait"} /\ waited' = 0
      \/ /\ dll \in {"wait", "restore", "free", "unmap"}
         /\ dll' \in {"restore", "free", "unmap", "out"}
  <2>1. CASE FreeLibrary
    BY <2>1 DEF FreeLibrary
  <2>2. CASE ExitProcess
    BY <2>2, Zenon DEF ExitProcess
  <2>3. CASE ScanStep \/ \E t \in Threads : ThreadStep(t)
    BY <2>3 DEF ScanStep, ThreadStep, dllVars
  <2>4. CASE DllStep
    <3>1. CASE PatchOwner \/ SaveBytes \/ AllocBlock \/ FillBlock \/ StartScan
               \/ \E i \in Pieces : PatchSite(i)
      BY <3>1 DEF PatchOwner, SaveBytes, AllocBlock, FillBlock, StartScan, PatchSite
    <3>2. CASE StopScan \/ WaitOver \/ FreeBlock \/ Unmap \/ \E i \in Pieces : RestoreSite(i)
      BY <3>2 DEF StopScan, WaitOver, FreeBlock, Unmap, RestoreSite
    <3>3. QED
      BY <2>4, <3>1, <3>2 DEF DllStep
  <2>5. QED
    BY <2>1, <2>2, <2>3, <2>4 DEF HookStep
<1>5. alive' => alive
  <2>1. CASE ExitProcess
    BY <2>1, Zenon DEF ExitProcess
  <2>2. CASE ~ExitProcess
    BY <2>2 DEF HookStep, FreeLibrary, DllStep, ScanStep, ThreadStep, PatchOwner, SaveBytes,
                AllocBlock, FillBlock, StartScan, PatchSite, StopScan, WaitOver, FreeBlock,
                Unmap, RestoreSite
  <2>3. QED
    BY <2>1, <2>2
<1>6. dll' \in Attaching => dll \in Attaching \/ UNCHANGED dll
  BY <1>4
<1>7. PatienceInv'
  BY <1>1, <1>3, <1>4, <1>5, <1>6, TimeAssumption DEF InjectInv
<1>8. QED
  BY <1>2, <1>7 DEF InjectInv

(* Both invariants are preserved by every step.                            *)
LEMMA ProcessStep ==
  InjectInv /\ LifecycleInv /\ LifecycleInv' /\ [PNext]_pvars => InjectInv'
<1> SUFFICES ASSUME InjectInv, LifecycleInv, LifecycleInv', [PNext]_pvars PROVE InjectInv'
    OBVIOUS
<1>1. CASE UNCHANGED pvars
  BY <1>1 DEF pvars, injVars, vars, dllVars, InjectInv, InjectorTypeOK, HeldInv, PatienceInv,
              Attaching, Setup, Reports, Ended, Owing
<1>2. CASE PNext
  BY <1>2, InjectorKeeps, RemoteKeeps, SecondKeeps, HookKeeps DEF PNext
<1>3. QED
  BY <1>1, <1>2

(* The life cycle's invariant holds in the injected server.                *)
LEMMA ProcessLifecycleAlways == PSpec => []LifecycleInv
BY ProcessIsLifecycle, LifecycleAlways, PTL

(* The injector's invariant holds throughout.                              *)
LEMMA InjectAlways == PSpec => []InjectInv
BY InjectInit, ProcessStep, ProcessLifecycleAlways, PTL DEF PSpec

(* Injector, its thread and the server keep their types, for any times and *)
(* any number of injections (injector.cpp 10-65).                          *)
THEOREM ProcessTypeCorrect == PSpec => []ProcessTypeOK
<1>1. InjectInv /\ LifecycleInv => ProcessTypeOK
  BY DEF InjectInv, InjectorTypeOK, LifecycleInv, ProcessTypeOK
<1>2. QED
  BY <1>1, InjectAlways, ProcessLifecycleAlways, PTL

(* Whichever call of the injector fails, the exit it then takes leaves     *)
(* neither a handle nor the path behind (injector.cpp 28-64).              *)
THEOREM NothingLeakedAlways == PSpec => []NothingLeaked
<1>1. InjectInv => NothingLeaked
  BY DEF InjectInv, HeldInv, Owing, NothingLeaked
<1>2. QED
  BY <1>1, InjectAlways, PTL

(* The injector's thread reads the path before it is freed, provided the   *)
(* injector waits longer than DllMain (injector.cpp 60-62, main.cpp 382).  *)
THEOREM PathKeptAlways == PSpec => []PathKept
<1>1. InjectInv => PathKept
  BY DEF InjectInv, HeldInv, PatienceInv, PathKept
<1>2. QED
  BY <1>1, InjectAlways, PTL

(* In a server that is injected into, at any time and more than once, a    *)
(* call of ShouldSynchronise is withheld or runs the original as if there  *)
(* were no hook (injector.cpp 27-65, main.cpp 278-370).                    *)
THEOREM ProcessImplementsFunction == PSpec => ImplementsFunction
BY ProcessIsLifecycle, LifecycleImplementsFunction, PTL

=============================================================================
