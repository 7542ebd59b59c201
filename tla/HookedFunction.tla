--------------------------- MODULE HookedFunction ---------------------------
(***************************************************************************)
(* What the server may rely on when it calls ShouldSynchronise, hooked or  *)
(* not: the abstract specification of the stub and its life cycle          *)
(* (nvmp_server_hook/src/main.cpp, 278-281).  A call is answered once by   *)
(* CheckShouldBlock or not at all; on "block" it returns 0 to its caller,  *)
(* otherwise the original function runs as if it had been called directly. *)
(* Only a call that the hook's arrival or departure overtook may be lost.  *)
(***************************************************************************)
CONSTANT Threads

VARIABLES
  call,    \* where each thread's call is
  excused  \* threads whose call has been overtaken

functionVars == <<call, excused>>

Resting == {"out", "withheld"}
Pending == {"asked", "block", "pass", "original"}

FunctionInit ==
  /\ call = [t \in Threads |-> "out"]
  /\ excused = {}

Move(t, from, to) == call[t] \in from /\ call' = [call EXCEPT ![t] = to]

\* Only calls that are under way can be overtaken, only a new call is forgiven.
Excuse(t) == UNCHANGED excused \/ (call'[t] = "asked" /\ excused' \in {excused \ {t}, excused \cup {t}})

CallStep(t) ==
  /\ \/ Move(t, Resting, "asked")
     \/ Move(t, {"asked"}, "block") \/ Move(t, {"block"}, "withheld")
     \/ Move(t, {"asked"}, "pass") \/ Move(t, {"asked", "pass"}, "original")
     \/ Move(t, {"original"}, "out")
     \/ Move(t, Pending, "lost") /\ t \in excused
  /\ Excuse(t)

(* The hook comes or goes while some calls are under way. *)
Overtake ==
  /\ \E more \in SUBSET {t \in Threads : call[t] \in Pending} : excused' = excused \cup more
  /\ UNCHANGED call

(* The process ends. *)
Exit ==
  /\ call' = [t \in Threads |-> "ended"]
  /\ UNCHANGED excused

FunctionSpec ==
  FunctionInit /\ [][Exit \/ Overtake \/ \E t \in Threads : CallStep(t)]_functionVars

=============================================================================
