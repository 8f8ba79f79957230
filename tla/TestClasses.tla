----------------------------- MODULE TestClasses -----------------------------
(***************************************************************************)
(* IntAddJVMCITest and CodegenTest: what their static initialisers do with *)
(* the native methods of NativeRuntime, with loadApi and with AsmInjector, *)
(* while several threads use the two classes.  The Java language has one   *)
(* thread initialise a class and the others wait for it.                   *)
(*                                                                         *)
(* loadApi is one step here: NativeLibLoader!IsOnceCell allows it.  So is  *)
(* an injection: no other thread uses its method or its injector yet.      *)
(***************************************************************************)
EXTENDS NativeRuntime

CONSTANTS
  Good,        (* The bitcode of the Python functions, in the resources.    *)
  MaxUses      (* A bound on how often the classes are used.                *)

ASSUME ResourceAssumption ==
  /\ Good \in Bitcodes \ Ill
  /\ "x86-64" \in KnownArchs
  /\ 1 \in FunctionIds
  /\ MaxUses \in Nat

NoAddress == -1

(* Mutant: one of the classes relies on the other to call initialize().    *)
StaticInitWithoutInitialize ==
  [ IntAddJVMCITest |-> << "load", "select", "initialize", "inject", "prepare",
                           "llvm", "machine", "compile", "address",
                           "prepare", "inject" >>,
    CodegenTest     |-> << "load", "prepare", "compile", "address", "inject",
                           "prepare", "compile", "address", "inject" >> ]

(* The static initialisers, field initialisers first.  "prepare" reads the *)
(* bitcode or generates a class, "inject" is the injection of the address  *)
(* at hand in a method of the class or of a generated class.               *)
StaticInit ==
  [ IntAddJVMCITest |-> << "load", "select", "initialize", "inject", "prepare",
                           "llvm", "machine", "compile", "address",
                           "prepare", "inject" >>,
    CodegenTest     |-> << "load", "initialize",
                           "prepare", "compile", "address", "inject",
                           "prepare", "compile", "address", "inject" >> ]

Classes == DOMAIN StaticInit

Injections(c) == {i \in DOMAIN StaticInit[c] : StaticInit[c][i] = "inject"}

VARIABLES
  api,         (* Whether loadApi has an API to return.                     *)
  class,       (* uninitialised, initialising, ready or erroneous.          *)
  job,         (* What each thread does: [class, next]; next is the step of *)
               (* the static initialiser it is at, 0 outside.               *)
  at,          (* The address each thread has at hand: 0 for a function of  *)
               (* the library, or that of a CompileState.                   *)
  code,        (* The address injected by each injection of each class.     *)
  uses         (* The number of uses so far.                                *)

classVars == << api, class, job, at, code, uses >>
allVars   == << vars, classVars >>

NoJob == [class |-> "none", next |-> 0]

InitClasses ==
  /\ Init
  /\ api   = FALSE
  /\ class = [c \in Classes |-> "uninitialised"]
  /\ job   = [t \in Threads |-> NoJob]
  /\ at    = [t \in Threads |-> NoAddress]
  /\ code  = [c \in Classes |-> [i \in Injections(c) |-> NoAddress]]
  /\ uses  = 0

Free(t) == process = "running" /\ frame[t] = InJava

Doing(t, step) ==
  /\ Free(t)
  /\ job[t] # NoJob
  /\ job[t].next \in 1 .. Len(StaticInit[job[t].class])
  /\ StaticInit[job[t].class][job[t].next] = step

NextStep(t) == job' = [job EXCEPT ![t].next = @ + 1]

-----------------------------------------------------------------------------

(* A test or a benchmark calls a static method of a class.                 *)
Request(t, c) ==
  /\ Free(t)
  /\ job[t] = NoJob
  /\ uses < MaxUses
  /\ uses' = uses + 1
  /\ job'  = [job EXCEPT ![t] = [class |-> c, next |-> 0]]
  /\ UNCHANGED << vars, api, class, at, code >>

BeginInit(t) ==
  /\ Free(t)
  /\ job[t] # NoJob /\ job[t].next = 0
  /\ class[job[t].class] = "uninitialised"
  /\ class' = [class EXCEPT ![job[t].class] = "initialising"]
  /\ NextStep(t)
  /\ UNCHANGED << vars, api, at, code, uses >>

(* Mutant: an error that is lost leaves the class half initialised.        *)
InitErrorForgotten(t) == job' = [job EXCEPT ![t] = NoJob] /\ UNCHANGED class

(* The class becomes erroneous and the thread gets the error.              *)
InitError(t) ==
  /\ class' = [class EXCEPT ![job[t].class] = "erroneous"]
  /\ job'   = [job EXCEPT ![t] = NoJob]

(* Mutant: the handler prints the stack trace only.                        *)
ExitSwallowed(t) ==
  /\ job' = [job EXCEPT ![t].next = Len(StaticInit[job[t].class]) + 1]
  /\ UNCHANGED << process, class >>

(* Exception is caught: System.exit(-1).                                   *)
Exit(t) == process' = "exited" /\ UNCHANGED << class, job >>

(* loadApi() in the initialiser of a field, outside the try block.         *)
Load(t) ==
  /\ Doing(t, "load")
  /\ \/ api' = TRUE /\ NextStep(t) /\ UNCHANGED class
     \/ ~api /\ InitError(t) /\ UNCHANGED api
  /\ UNCHANGED << vars, at, code, uses >>

(* The native methods, with the arguments the classes give.                *)
CallNative(t) ==
  /\ \/ Doing(t, "initialize") /\ CallInitialize(t)
     \/ Doing(t, "select") /\ Call(t, "getIntFuncAddr", [id |-> 1])
     \/ Doing(t, "llvm") /\ Call(t, "toLLVMAssemblyCode", [bitcode |-> Good])
     \/ /\ Doing(t, "machine")
        /\ Call(t, "toMachineAssemblyCode",
                [bitcode |-> Good, arch |-> "x86-64"])
     \/ Doing(t, "compile") /\ Call(t, "compileToFunc", [bitcode |-> Good])
  /\ UNCHANGED classVars

AdvanceNative(t) == Advance(t) /\ frame'[t] # InJava /\ UNCHANGED classVars

ReturnToClass(t) ==
  /\ Return(t)
  /\ NextStep(t)
  /\ at' = [at EXCEPT ![t] =
              CASE frame[t].op = "getIntFuncAddr" -> 0
                [] frame[t].op = "compileToFunc"  -> frame[t].n
                [] OTHER                          -> @]
  /\ UNCHANGED << api, class, code, uses >>

TakeAddress(t) ==
  /\ Doing(t, "address")
  /\ GetFuncAddr(t, at[t])
  /\ NextStep(t)
  /\ UNCHANGED << api, class, at, code, uses >>

Prepare(t) ==
  /\ Doing(t, "prepare")
  /\ NextStep(t)
  /\ UNCHANGED << vars, api, class, at, code, uses >>

Inject(t) ==
  /\ Doing(t, "inject")
  /\ code' = [code EXCEPT ![job[t].class][job[t].next] = at[t]]
  /\ NextStep(t)
  /\ UNCHANGED << vars, api, class, at, uses >>

(* Any of them may throw an Exception, or an Error, which is not caught.   *)
ThrowInInit(t) ==
  /\ Doing(t, "inject") \/ Doing(t, "prepare")
  /\ Exit(t)
  /\ UNCHANGED << initialised, frame, live, vmVars, javaVars,
                  api, at, code, uses >>

ErrorInInit(t) ==
  /\ Doing(t, "inject") \/ Doing(t, "prepare")
  /\ InitError(t)
  /\ UNCHANGED << vars, api, at, code, uses >>

EndInit(t) ==
  /\ Free(t)
  /\ job[t] # NoJob
  /\ job[t].next > Len(StaticInit[job[t].class])
  /\ class' = [class EXCEPT ![job[t].class] = "ready"]
  /\ job'   = [job EXCEPT ![t].next = 0]
  /\ UNCHANGED << vars, api, at, code, uses >>

(* The static method runs: one of the injected functions.                  *)
RunMethod(t) ==
  /\ Free(t)
  /\ job[t] # NoJob /\ job[t].next = 0
  /\ class[job[t].class] = "ready"
  /\ \E i \in Injections(job[t].class) :
       \/ CallFunction(t, code[job[t].class][i])
       \/ code[job[t].class][i] = 0 /\ UNCHANGED vars
  /\ job' = [job EXCEPT ![t] = NoJob]
  /\ UNCHANGED << api, class, at, code, uses >>

(* NoClassDefFoundError                                                    *)
RefuseClass(t) ==
  /\ Free(t)
  /\ job[t] # NoJob /\ job[t].next = 0
  /\ class[job[t].class] = "erroneous"
  /\ job' = [job EXCEPT ![t] = NoJob]
  /\ UNCHANGED << vars, api, class, at, code, uses >>

Continue(t) ==
  \/ BeginInit(t) \/ Load(t) \/ CallNative(t)
  \/ AdvanceNative(t) \/ ReturnToClass(t) \/ TakeAddress(t) \/ Prepare(t)
  \/ Inject(t) \/ ThrowInInit(t) \/ ErrorInInit(t) \/ EndInit(t)
  \/ RunMethod(t) \/ RefuseClass(t)

NextClasses ==
  \E t \in Threads : Continue(t) \/ \E c \in Classes : Request(t, c)

SpecClasses ==
  InitClasses /\ [][NextClasses]_allVars
  /\ \A t \in Threads : WF_allVars(Continue(t))

-----------------------------------------------------------------------------

(* The variables of the classes are well formed, and a class is being      *)
(* initialised exactly when one thread is at a step of its initialiser.    *)
ClassesTypeOK ==
  /\ api \in BOOLEAN
  /\ \A c \in Classes :
       /\ class[c] \in {"uninitialised", "initialising", "ready", "erroneous"}
       /\ Cardinality({t \in Threads : job[t].class = c /\ job[t].next > 0})
            = IF class[c] = "initialising" THEN 1 ELSE 0
  /\ \A t \in Threads : at[t] \in {NoAddress, 0} \cup 1 .. calls

(* The tests never bring the process down: in whatever order the threads   *)
(* initialise the classes, no native method runs into its error path, no   *)
(* function is called that is gone.  The one way to end is System.exit,    *)
(* unless two threads initialise the two classes at the same time: their   *)
(* initialize() may then collide.                                          *)
NeverCrashes ==
  \/ process \in {"running", "exited"}
  \/ /\ process = "corrupted"
     /\ \A c \in Classes : class[c] # "uninitialised"

(* A class that can be used has run all of its injections, and what they   *)
(* injected is in the library or in an engine that still exists, so that   *)
(* no method of it falls through to the Java code that throws; and each    *)
(* method has a function of its own, never one of the other class, which   *)
(* may be initialised at the same time through the same API object.        *)
ReadyIsInjected ==
  LET injections == UNION {{<< c, i >> : i \in Injections(c)} : c \in Classes}
      compiled == {p \in injections : code[p[1]][p[2]] > 0}
  IN  /\ \A p \in injections : class[p[1]] = "ready" =>
           code[p[1]][p[2]] = 0 \/ << "engine", code[p[1]][p[2]] >> \in live
      /\ \A p, q \in compiled : code[p[1]][p[2]] = code[q[1]][q[2]] => p = q

(* A thread that uses a class gets a result or an error, or the process    *)
(* ends; it does not wait for ever for another thread's initialisation.    *)
UsesEnd ==
  \A t \in Threads : job[t] # NoJob ~> (job[t] = NoJob \/ process # "running")

=============================================================================
