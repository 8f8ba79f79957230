--------------------------- MODULE InjectedMethod ---------------------------
(***************************************************************************)
(* What the callers of AsmInjector.injectFuncAddr rely on: a method runs   *)
(* its bytecode until a function is injected, and from then on, for every  *)
(* caller, the function injected last.  Only a method that the VM was      *)
(* compiling, or had compiled into a caller, before its injection began    *)
(* may run its bytecode again.                                             *)
(***************************************************************************)
CONSTANTS
  Methods,    (* Java methods.                                              *)
  Functions   (* Addresses of native functions.                             *)

VARIABLES
  runs,       (* What a call of each method runs: its bytecode or a function.*)
  exposed     (* The methods injected too late.                             *)

Bytecode    == << "bytecode" >>
Function(f) == << "function", f >>

Init ==
  /\ runs    = [m \in Methods |-> Bytecode]
  /\ exposed = {}

Inject(m, f) ==
  /\ runs' = [runs EXCEPT ![m] = Function(f)]
  /\ UNCHANGED exposed

Expose(m) ==
  /\ runs[m] = Bytecode
  /\ exposed' = exposed \cup {m}
  /\ UNCHANGED runs

FallBack(m) ==
  /\ m \in exposed
  /\ runs' = [runs EXCEPT ![m] = Bytecode]
  /\ UNCHANGED exposed

Next ==
  \E m \in Methods :
     Expose(m) \/ FallBack(m) \/ \E f \in Functions : Inject(m, f)

Spec == Init /\ [][Next]_<< runs, exposed >>

=============================================================================
