--------------------------- MODULE ServerProcess ---------------------------
(***************************************************************************)
(* nvmp_inject.exe (nvmp_server_hook/src/injector.cpp) and the process of  *)
(* the server it loads the hook into: HookLifecycle, where the DLL comes   *)
(* only by the thread the injector starts in the server.  That thread      *)
(* needs the loader lock before its first instruction, then reads the path *)
(* the injector has written, then is inside LoadLibrary until DllMain has  *)
(* returned.  The injector waits five ticks for it and frees the path.     *)
(*                                                                         *)
(* The injector may be run again.  Each call whose result it looks at may  *)
(* fail, and InjectDLL has an exit of its own for each failure: `calls`    *)
(* are the calls that stand between there and the return, in their order.  *)
(***************************************************************************)
EXTENDS HookLifecycle

CONSTANTS
  InjectTime,  \* ticks the injector waits for its thread (5000 ms)
  MaxRuns      \* bound: how often the injector is run

ASSUME InjectAssumption == InjectTime \in Nat /\ WaitTime < InjectTime /\ MaxRuns \in Nat

VARIABLES
  inj,       \* the step of InjectDLL, or what the injector has reported
  calls,     \* what InjectDLL has yet to give back before it returns
  runs,      \* how often it was run
  handles,   \* the handles it holds
  path,      \* the path in the server's memory: "none", "blank", "written", "freed"
  patience,  \* ticks it has been waiting for its thread
  remote     \* its thread in the server

injVars == <<inj, calls, runs, handles, path, patience, remote>>
pvars == <<vars, injVars>>

Reports == {"success", "failure"}

\* The calls CloseHandle(thread), VirtualFreeEx(path), CloseHandle(proc).
Releases == {"thread", "path", "process"}

\* The thread has ended: LoadLibraryA returned the module, or null.
Ended == {"loaded", "null"}

ProcessTypeOK ==
  /\ LifecycleTypeOK
  /\ inj \in {"idle", "open", "alloc", "write", "spawn", "wait", "failing", "succeeding"} \cup Reports
  /\ calls \in Seq(Releases)
  /\ runs \in 0 .. MaxRuns /\ handles \subseteq {"process", "thread"}
  /\ path \in {"none", "blank", "written", "freed"}
  /\ patience \in 0 .. InjectTime
  /\ remote \in {"none", "created", "read", "loading"} \cup Ended

PInit ==
  /\ Init
  /\ inj = "idle" /\ calls = <<>> /\ runs = 0 /\ handles = {} /\ path = "none" /\ patience = 0 /\ remote = "none"

----------------------------------------------------------------------------
(* The injector.                                                           *)

(* FindProcess.  The thread of an earlier run has come to its end: it is   *)
(* never kept waiting for as long as the injector waits.                   *)
Find ==
  /\ inj \in {"idle"} \cup Reports /\ runs < MaxRuns
  /\ remote \in {"none"} \cup Ended
  /\ runs' = runs + 1 /\ path' = "none" /\ remote' = "none"
  /\ \/ alive /\ inj' = "open"
     \/ inj' = "failure"
  /\ UNCHANGED <<calls, handles, patience>>

(* InjectDLL is about to return, after the calls that its exit names. *)
Exit(outcome, named) ==
  /\ inj' = outcome /\ calls' = named /\ patience' = 0
  /\ UNCHANGED <<runs, handles, path, remote>>

OpenServer ==
  /\ inj = "open"
  /\ \/ /\ alive
        /\ inj' = "alloc" /\ handles' = {"process"}
        /\ UNCHANGED <<calls, runs, path, patience, remote>>
     \/ Exit("failure", <<>>)

AllocPath ==
  /\ inj = "alloc"
  /\ \/ /\ alive
        /\ inj' = "write" /\ path' = "blank"
        /\ UNCHANGED <<calls, runs, handles, patience, remote>>
     \/ Exit("failing", <<"process">>)

\* Mutant of WritePath: its exit forgets the path it could not write.
WritePathLeaking ==
  /\ inj = "write"
  /\ \/ /\ alive
        /\ inj' = "spawn" /\ path' = "written"
        /\ UNCHANGED <<calls, runs, handles, patience, remote>>
     \/ Exit("failing", <<"process">>)

WritePath ==
  /\ inj = "write"
  /\ \/ /\ alive
        /\ inj' = "spawn" /\ path' = "written"
        /\ UNCHANGED <<calls, runs, handles, patience, remote>>
     \/ Exit("failing", <<"path", "process">>)

Spawn ==
  /\ inj = "spawn"
  /\ \/ /\ alive
        /\ inj' = "wait" /\ remote' = "created" /\ handles' = handles \cup {"thread"}
        /\ UNCHANGED <<calls, runs, path, patience>>
     \/ Exit("failing", <<"path", "process">>)

\* Mutant of AwaitThread: the injector does not wait.
AwaitThreadNot == inj = "wait" /\ Exit("succeeding", <<"thread", "path", "process">>)

(* WaitForSingleObject(thread, 5000), whose result nobody looks at. *)
AwaitThread ==
  /\ inj = "wait"
  /\ remote \in Ended \/ ~alive \/ patience = InjectTime
  /\ Exit("succeeding", <<"thread", "path", "process">>)

(* The next of the calls; after the last one InjectDLL returns and main    *)
(* reports.  The path can be freed only through the process's handle.      *)
Release ==
  /\ inj \in {"failing", "succeeding"}
  /\ LET call == Head(calls) IN
       /\ handles' = handles \ {call}
       /\ path' = IF call = "path" /\ "process" \in handles THEN "freed" ELSE path
  /\ calls' = Tail(calls)
  /\ inj' = IF Len(calls) > 1 THEN inj ELSE IF inj = "failing" THEN "failure" ELSE "success"
  /\ UNCHANGED <<runs, patience, remote>>

InjectorStep ==
  /\ Find \/ OpenServer \/ AllocPath \/ WritePath \/ Spawn \/ AwaitThread \/ Release
  /\ UNCHANGED vars

----------------------------------------------------------------------------
(* The injector's thread in the server.                                    *)

ReadPath ==
  /\ alive /\ remote = "created" /\ lock = "free"
  /\ remote' = "read"
  /\ UNCHANGED <<vars, inj, calls, runs, handles, path, patience>>

(* LoadLibraryA maps the DLL, or counts it, or does not find it. *)
LoadDll ==
  /\ remote = "read"
  /\ \/ Load /\ remote' = IF dll = "out" THEN "loading" ELSE "loaded"
     \/ alive /\ lock = "free" /\ remote' = "null" /\ UNCHANGED vars
  /\ UNCHANGED <<inj, calls, runs, handles, path, patience>>

LoadReturns ==
  /\ alive /\ remote = "loading" /\ dll \in {"loaded", "stop"}
  /\ remote' = "loaded"
  /\ UNCHANGED <<vars, inj, calls, runs, handles, path, patience>>

RemoteStep == ReadPath \/ LoadDll \/ LoadReturns

----------------------------------------------------------------------------
RemoteUrgent ==
  \/ remote \in {"created", "read"} /\ lock = "free"
  \/ remote = "loading" /\ dll = "loaded"

(* Time passes for everybody. *)
Second ==
  /\ Elapse /\ ~RemoteUrgent
  /\ inj = "wait" \/ scan \in {"asleep", "walking"} \/ dll = "wait"
  /\ ~(inj = "wait" /\ (remote \in Ended \/ patience = InjectTime))
  /\ patience' = IF inj = "wait" THEN patience + 1 ELSE patience
  /\ UNCHANGED <<inj, calls, runs, handles, path, remote>>

HookStep ==
  /\ FreeLibrary \/ ExitProcess \/ DllStep \/ ScanStep \/ \E t \in Threads : ThreadStep(t)
  /\ UNCHANGED injVars

PNext == InjectorStep \/ RemoteStep \/ Second \/ HookStep

PSpec == PInit /\ [][PNext]_pvars

(* The injector and its thread, the loading thread, the scan thread and    *)
(* the clock go on.                                                        *)
PFairSpec ==
  /\ PSpec
  /\ WF_pvars(InjectorStep /\ ~Find) /\ WF_pvars(RemoteStep) /\ WF_pvars(Second)
  /\ WF_pvars(DllStep /\ UNCHANGED injVars) /\ WF_pvars(ScanStep /\ UNCHANGED injVars)

----------------------------------------------------------------------------
(* By whichever of its five exits an injection ends, whatever the server   *)
(* and its thread do meanwhile, nothing of it stays behind: no handle, and *)
(* no path in the server (injector.cpp 28-64).                             *)
NothingLeaked == inj \in Reports => handles = {} /\ path \in {"none", "freed"}

(* The path is not freed before it was read.  The injector's five seconds  *)
(* outlast the three for which a detaching DllMain may hold the loader     *)
(* lock against the injector's thread (injector.cpp 60-62, main.cpp 382).  *)
PathKept == alive /\ remote = "created" => path = "written"

=============================================================================
