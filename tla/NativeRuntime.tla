---------------------------- MODULE NativeRuntime ----------------------------
(***************************************************************************)
(* lib/test-rt-native/test-rt.cc and include/jni_types.h: the native       *)
(* methods of TestRuntimeNative.  Threads run them concurrently, one       *)
(* statement with an effect at a time.                                     *)
(*                                                                         *)
(* A call is numbered.  Its C++ objects are <<kind, number>>: those with a *)
(* destructor that it has constructed are in its scope, the youngest last, *)
(* and are destroyed from the end when the call returns or throws.  The    *)
(* objects of LLVM that exist are in "live".                               *)
(***************************************************************************)
EXTENDS Naturals, Sequences, FiniteSets, SequencesExt

CONSTANTS
  Threads,
  Bitcodes,      (* The byte arrays given to the native methods.            *)
  Malformed,     (* Those LLVM cannot parse.                                *)
  Lacking,       (* Those without the function that compileToFunc asks for. *)
  Unresolvable,  (* Those whose entry point the engine cannot find.         *)
  Archs,         (* Architecture names given to toMachineAssemblyCode.      *)
  KnownArchs,    (* Those LLVM has a target for.                            *)
  FunctionIds,   (* The numbers given to getIntFuncAddr.                    *)
  MaxCalls       (* A bound on the number of calls.                         *)

Ill == Malformed \cup Lacking \cup Unresolvable

ASSUME InputAssumption ==
  /\ Ill \subseteq Bitcodes
  /\ KnownArchs \subseteq Archs
  /\ MaxCalls \in Nat

VARIABLES
  process,      (* running; or ended: "aborted" by an assertion, "crashed", *)
                (* "terminated" by std::terminate, "undefined", or          *)
                (* "corrupted": LLVM's list of targets is.                  *)
  initialised,  (* Whether LLVM's native target is registered.              *)
  frame,        (* The call each thread is in: see Frame.                   *)
  live,         (* The objects of LLVM, and CompileStates, that exist.      *)
  critical,     (* Arrays each thread holds by GetPrimitiveArrayCritical.   *)
  chars,        (* Strings each thread holds by GetStringUTFChars.          *)
  handles,      (* CompileStates Java was given and has not released.       *)
  addresses,    (* Functions, by their CompileState, Java has the address   *)
                (* of.                                                      *)
  calls         (* The number of calls so far.                              *)

vmVars  == << critical, chars >>
javaVars == << handles, addresses, calls >>
vars == << process, initialised, frame, live, vmVars, javaVars >>

-----------------------------------------------------------------------------

(* What each native method does, in order, up to its return.  "leave" is   *)
(* the return from the inner function that owns the context and the module.*)
Steps ==
  [ initialize            |-> << "check", "register" >>,
    getIntFuncAddr        |-> << "select" >>,
    compileToFunc         |-> << "context", "array", "parse", "string",
                                 "find", "engine", "address", "state" >>,
    toLLVMAssemblyCode    |-> << "array", "context", "parse", "leave",
                                 "result" >>,
    toMachineAssemblyCode |-> << "string", "array", "context", "target",
                                 "parse", "leave", "result" >> ]

Operations == DOMAIN Steps

(* The call with number n of an operation, with an argument of its own:    *)
(* [bitcode, arch, id].                                                    *)
Frame(op, n, arg) ==
  [op |-> op, n |-> n, arg |-> arg, next |-> 1, mode |-> "running",
   scope |-> << >>]

InJava == Frame("none", 0, << >>)

(* initialize() takes none: see CallInitialize.                            *)
Arguments(op) ==
  CASE op = "initialize"            -> {}
    [] op = "getIntFuncAddr"        -> [id : FunctionIds]
    [] op = "compileToFunc"         -> [bitcode : Bitcodes]
    [] op = "toLLVMAssemblyCode"    -> [bitcode : Bitcodes]
    [] op = "toMachineAssemblyCode" -> [bitcode : Bitcodes, arch : Archs]

Init ==
  /\ process     = "running"
  /\ initialised = FALSE
  /\ frame       = [t \in Threads |-> InJava]
  /\ live        = {}
  /\ critical    = [t \in Threads |-> 0]
  /\ chars       = [t \in Threads |-> 0]
  /\ handles     = {}
  /\ addresses   = {}
  /\ calls       = 0

IsAt(t, step) ==
  /\ process = "running"
  /\ frame[t].mode = "running"
  /\ frame[t].op \in Operations
  /\ Steps[frame[t].op][frame[t].next] = step

(* The call of t goes on to its next statement, or to its return.          *)
Proceed(f, scope) ==
  [f EXCEPT !.scope = scope, !.next = @ + 1,
            !.mode = IF f.next = Len(Steps[f.op]) THEN "returning" ELSE @]

GoOn(t, scope) == frame' = [frame EXCEPT ![t] = Proceed(@, scope)]

(* throw of a std::string, with one more object in scope.                  *)
Throw(t, scope) ==
  frame' = [frame EXCEPT ![t] =
              [@ EXCEPT !.mode = "throwing", !.scope = scope]]

(* throw of a const char*: no handler up to the frames of Java.            *)
ThrowChars == process' = "terminated" /\ UNCHANGED frame

Owned(t) == frame[t].scope
Named(t, kind) == << kind, frame[t].n >>

-----------------------------------------------------------------------------

(* A native method is called from Java.                                    *)
Call(t, op, arg) ==
  /\ process = "running"
  /\ frame[t] = InJava
  /\ calls < MaxCalls
  /\ calls' = calls + 1
  /\ frame' = [frame EXCEPT ![t] = Frame(op, calls + 1, arg)]
  /\ UNCHANGED << process, initialised, live, vmVars, handles, addresses >>

CallInitialize(t) ==
  /\ process = "running"
  /\ frame[t] = InJava
  /\ frame' = [frame EXCEPT ![t] = Frame("initialize", 0, << >>)]
  /\ UNCHANGED << process, initialised, live, vmVars, javaVars >>

(* LLVM puts a target in its list unless it is there already; it has no    *)
(* lock for the list.                                                      *)
Check(t) ==
  /\ IsAt(t, "check")
  /\ IF initialised
     THEN frame' = [frame EXCEPT ![t] = [@ EXCEPT !.mode = "returning"]]
     ELSE GoOn(t, Owned(t))
  /\ UNCHANGED << process, initialised, live, vmVars, javaVars >>

(* A target that two threads put in the list may become its own successor. *)
Register(t) ==
  /\ IsAt(t, "register")
  /\ initialised' = TRUE
  /\ process' \in IF initialised THEN {"running", "corrupted"} ELSE {"running"}
  /\ GoOn(t, Owned(t))
  /\ UNCHANGED << live, vmVars, javaVars >>

(* llvm::LLVMContext context                                               *)
ConstructContext(t) ==
  /\ IsAt(t, "context")
  /\ live' = live \cup {Named(t, "context")}
  /\ GoOn(t, Append(Owned(t), Named(t, "context")))
  /\ UNCHANGED << process, initialised, vmVars, javaVars >>

(* Mutant: an array that no scope releases.                                *)
ConstructArrayOnHeap(t) ==
  /\ IsAt(t, "array")
  /\ critical' = [critical EXCEPT ![t] = @ + 1]
  /\ GoOn(t, Owned(t))
  /\ UNCHANGED << process, initialised, live, chars, javaVars >>

(* JniPrimitiveArrayPtr and JniString                                      *)
ConstructArray(t) ==
  /\ IsAt(t, "array")
  /\ critical' = [critical EXCEPT ![t] = @ + 1]
  /\ GoOn(t, Append(Owned(t), Named(t, "array")))
  /\ UNCHANGED << process, initialised, live, chars, javaVars >>

(* Mutant: c_str() fetches the characters a second time.                   *)
ConstructStringTwice(t) ==
  /\ IsAt(t, "string")
  /\ chars' = [chars EXCEPT ![t] = @ + 2]
  /\ GoOn(t, Append(Owned(t), Named(t, "string")))
  /\ UNCHANGED << process, initialised, live, critical, javaVars >>

ConstructString(t) ==
  /\ IsAt(t, "string")
  /\ chars' = [chars EXCEPT ![t] = @ + 1]
  /\ GoOn(t, Append(Owned(t), Named(t, "string")))
  /\ UNCHANGED << process, initialised, live, critical, javaVars >>

(* parseBitcode                                                            *)
Parse(t) ==
  /\ IsAt(t, "parse")
  /\ \/ /\ frame[t].arg.bitcode \in Malformed
        /\ ThrowChars
        /\ UNCHANGED live
     \/ /\ frame[t].arg.bitcode \notin Malformed
        /\ live' = live \cup {Named(t, "module")}
        /\ GoOn(t, Append(Owned(t), Named(t, "module")))
        /\ UNCHANGED process
  /\ UNCHANGED << initialised, vmVars, javaVars >>

(* m->getFunction; if there is one, the trampoline is built.               *)
Find(t) ==
  /\ IsAt(t, "find")
  /\ IF frame[t].arg.bitcode \in Lacking
     THEN Throw(t, Owned(t)) ELSE GoOn(t, Owned(t))
  /\ UNCHANGED << process, initialised, live, vmVars, javaVars >>

(* The module, which is older than the string, moves from its unique_ptr   *)
(* to the EngineBuilder, and from there to the engine, if create() makes   *)
(* one.                                                                    *)
CreateEngine(t) ==
  LET rest == RemoveAt(Owned(t), Len(Owned(t)) - 1)
  IN  /\ IsAt(t, "engine")
      /\ \/ /\ ~initialised
            /\ Throw(t, Append(rest, Named(t, "module")))
            /\ UNCHANGED live
         \/ /\ initialised
            /\ live' = live \cup {Named(t, "engine")}
            /\ GoOn(t, Append(rest, Named(t, "engine")))
      /\ UNCHANGED << process, initialised, vmVars, javaVars >>

(* engine->getFunctionAddress                                              *)
FindAddress(t) ==
  /\ IsAt(t, "address")
  /\ IF frame[t].arg.bitcode \in Unresolvable
     THEN Throw(t, Owned(t)) ELSE GoOn(t, Owned(t))
  /\ UNCHANGED << process, initialised, live, vmVars, javaVars >>

(* Mutant: engine.get() instead of engine.release().                       *)
NewStateOfGet(t) ==
  /\ IsAt(t, "state")
  /\ live' = live \cup {Named(t, "state")}
  /\ GoOn(t, Owned(t))
  /\ UNCHANGED << process, initialised, vmVars, javaVars >>

(* new CompileState(engine.release(), funcAddr)                            *)
NewState(t) ==
  /\ IsAt(t, "state")
  /\ live' = live \cup {Named(t, "state")}
  /\ GoOn(t, Front(Owned(t)))
  /\ UNCHANGED << process, initialised, vmVars, javaVars >>

(* lookupTargetMachine; nobody deletes the machine it returns, and the     *)
(* only ones there are, for x86, can emit assembly code.                   *)
LookupTargetMachine(t) ==
  /\ IsAt(t, "target")
  /\ \/ /\ ~(initialised /\ frame[t].arg.arch \in KnownArchs)
        /\ Throw(t, Owned(t))
        /\ UNCHANGED live
     \/ /\ initialised /\ frame[t].arg.arch \in KnownArchs
        /\ live' = live \cup {Named(t, "machine")}
        /\ GoOn(t, Owned(t))
  /\ UNCHANGED << process, initialised, vmVars, javaVars >>

(* getIntFuncAddr                                                          *)
Select(t) ==
  /\ IsAt(t, "select")
  /\ IF frame[t].arg.id \in {1, 2} THEN GoOn(t, << >>) ELSE Throw(t, << >>)
  /\ UNCHANGED << process, initialised, live, vmVars, javaVars >>

-----------------------------------------------------------------------------

(* Mutant: a context of static storage duration.                           *)
AfterDestroyingButContext(o) ==
  CASE o[1] = "context" -> live
    [] o[1] = "engine"  -> live \ {o, << "module", o[2] >>}
    [] OTHER            -> live \ {o}

(* The destructors.  A context deletes the modules still in it; an engine, *)
(* and a unique_ptr, delete a module, which must exist.                    *)
AfterDestroying(o) ==
  CASE o[1] = "context" -> live \ {o, << "module", o[2] >>}
    [] o[1] = "engine"  -> live \ {o, << "module", o[2] >>}
    [] OTHER            -> live \ {o}

DestroysTwice(o) ==
  \/ o[1] \in {"module", "context"} /\ o \notin live
  \/ o[1] = "engine" /\ ~({o, << "module", o[2] >>} \subseteq live)

Destroy(t, o) ==
  /\ live'     = AfterDestroying(o)
  /\ critical' = [critical EXCEPT ![t] = IF o[1] = "array" THEN @ - 1 ELSE @]
  /\ chars'    = [chars EXCEPT ![t] = IF o[1] = "string" THEN @ - 1 ELSE @]
  /\ process'  = IF DestroysTwice(o) THEN "undefined" ELSE process

(* The return of toLLVMAssemblyCode or toMachineAssemblyCode, the inner    *)
(* functions, destroys their module and their context.                     *)
LeaveInner(t) ==
  /\ IsAt(t, "leave")
  /\ Destroy(t, Last(Owned(t)))
  /\ frame' = [frame EXCEPT ![t] =
                 IF Last(Owned(t)) = Named(t, "context")
                 THEN Proceed(@, Front(Owned(t)))
                 ELSE [@ EXCEPT !.scope = Front(Owned(t))]]
  /\ UNCHANGED << initialised, javaVars >>

(* NewStringUTF, while the thread holds the array.                         *)
NewStringUTF(t) ==
  /\ IsAt(t, "result")
  /\ GoOn(t, Owned(t))
  /\ UNCHANGED << process, initialised, live, vmVars, javaVars >>

(* Mutant: the members are declared in the opposite order.                 *)
UnwindOldestFirst(t) ==
  /\ process = "running"
  /\ frame[t].mode \in {"returning", "throwing"}
  /\ Owned(t) # << >>
  /\ Destroy(t, Head(Owned(t)))
  /\ frame' = [frame EXCEPT ![t].scope = Tail(@)]
  /\ UNCHANGED << initialised, javaVars >>

(* The scope of the call is left, its youngest object first.               *)
Unwind(t) ==
  /\ process = "running"
  /\ frame[t].mode \in {"returning", "throwing"}
  /\ Owned(t) # << >>
  /\ Destroy(t, Last(Owned(t)))
  /\ frame' = [frame EXCEPT ![t] = [@ EXCEPT !.scope = Front(Owned(t))]]
  /\ UNCHANGED << initialised, javaVars >>

(* Java gets the result; that of compileToFunc is a handle.                *)
Return(t) ==
  /\ process = "running"
  /\ frame[t].mode = "returning"
  /\ Owned(t) = << >>
  /\ frame' = [frame EXCEPT ![t] = InJava]
  /\ handles' = IF frame[t].op = "compileToFunc"
                THEN handles \cup {frame[t].n} ELSE handles
  /\ UNCHANGED << process, initialised, live, vmVars, addresses, calls >>

(* throwException: there is no class io.github.maropu.TestRuntimeNative,   *)
(* so FindClass returns null.  The process ends in the assertion or, in a  *)
(* build without assertions, in GetMethodID.                               *)
ThrowException(t) ==
  /\ process = "running"
  /\ frame[t].mode = "throwing"
  /\ Owned(t) = << >>
  /\ process' \in {"aborted", "crashed"}
  /\ UNCHANGED << initialised, frame, live, vmVars, javaVars >>

-----------------------------------------------------------------------------

(* getFuncAddrFromCompileState, for a handle Java was given.               *)
GetFuncAddr(t, n) ==
  /\ process = "running"
  /\ frame[t] = InJava
  /\ n \in handles
  /\ addresses' = addresses \cup {n}
  /\ UNCHANGED << process, initialised, frame, live, vmVars, handles, calls >>

(* The function is called through callIntFuncFromAddr or through a method  *)
(* that it was injected in; its code belongs to the engine.                *)
CallFunction(t, n) ==
  /\ process = "running"
  /\ frame[t] = InJava
  /\ n \in addresses
  /\ process' = IF << "engine", n >> \in live THEN process ELSE "undefined"
  /\ UNCHANGED << initialised, frame, live, vmVars, javaVars >>

(* releaseCompileState: delete of the CompileState deletes its engine.     *)
Release(t, n) ==
  /\ process = "running"
  /\ frame[t] = InJava
  /\ n \in handles
  /\ handles' = handles \ {n}
  /\ live'    = AfterDestroying(<< "engine", n >>) \ {<< "state", n >>}
  /\ process' = IF DestroysTwice(<< "engine", n >>)
                THEN "undefined" ELSE process
  /\ UNCHANGED << initialised, frame, vmVars, addresses, calls >>

(* The statements of a call that has begun.                                *)
Advance(t) ==
  \/ Check(t) \/ Register(t)
  \/ ConstructContext(t) \/ ConstructArray(t) \/ ConstructString(t)
  \/ Parse(t) \/ Find(t) \/ CreateEngine(t) \/ FindAddress(t) \/ NewState(t)
  \/ LookupTargetMachine(t) \/ Select(t) \/ LeaveInner(t) \/ NewStringUTF(t)
  \/ Unwind(t) \/ Return(t) \/ ThrowException(t)

FromJava(t) ==
  \/ CallInitialize(t)
  \/ \E op \in Operations : \E arg \in Arguments(op) : Call(t, op, arg)
  \/ \E n \in 1 .. MaxCalls :
       GetFuncAddr(t, n) \/ CallFunction(t, n) \/ Release(t, n)

Next == \E t \in Threads : Advance(t) \/ FromJava(t)

Spec == Init /\ [][Next]_vars

(* A thread inside a native call keeps running; LLVM always terminates.    *)
FairSpec == Spec /\ \A t \in Threads : WF_vars(Advance(t))

-----------------------------------------------------------------------------

(* The variables are well formed; a thread's scope is its call's own.      *)
TypeOK ==
  /\ process \in {"running", "aborted", "crashed", "terminated", "undefined",
                  "corrupted"}
  /\ initialised \in BOOLEAN
  /\ \A t \in Threads :
       /\ frame[t].mode \in {"running", "returning", "throwing"}
       /\ \A i \in DOMAIN frame[t].scope : frame[t].scope[i][2] = frame[t].n
       /\ critical[t] \in 0 .. 1
       /\ chars[t] \in 0 .. 1
  /\ addresses \subseteq 1 .. calls
  /\ handles \subseteq 1 .. calls

(* Outside a native method, and in the handler from which throwException   *)
(* would call Java, a thread is in no critical region and holds no string, *)
(* by whatever return or throw of the method it got there.                 *)
NothingHeldInJava ==
  \A t \in Threads :
     \/ frame[t] = InJava
     \/ frame[t].mode = "throwing" /\ Owned(t) = << >>
     => critical[t] = 0 /\ chars[t] = 0

(* What outlives the call that made it is a CompileState with its engine,  *)
(* which Java has the handle of, and a TargetMachine; everything else goes *)
(* when the call ends, normally or not.                                    *)
OnlyHandlesOutlive ==
  \A o \in live :
     \/ \E t \in Threads : frame[t] # InJava /\ frame[t].n = o[2]
     \/ o[1] \in {"engine", "state"} /\ o[2] \in handles
     \/ o[1] = "machine"

(* The address of a function in Java's hands is the address of code that   *)
(* its engine still holds, unless a release has left the process undefined.*)
FunctionsStayMapped ==
  process # "undefined" => \A n \in addresses : << "engine", n >> \in live

Released == \E n \in 1 .. MaxCalls : << "state", n >> \in live \ live'

(* On every path of compileToFunc the engine, the module and the context   *)
(* are destroyed once and in an order that fits.  But releaseCompileState  *)
(* is never safe: that context has deleted the module, and the engine      *)
(* deletes it again, which is why the three callers of compileToFunc must  *)
(* not release its result.                                                 *)
OnlyReleaseIsUndefined ==
  [][process # "undefined" => (process' = "undefined" <=> Released)]_vars

(* A critical region, during which the VM cannot collect garbage, ends, or *)
(* the process does.                                                       *)
CriticalRegionsEnd ==
  \A t \in Threads : critical[t] > 0 ~> (critical[t] = 0 \/ process # "running")

(* assert(c != 0) in throwException.                                       *)
AssertionHolds == process # "aborted"

(* toLLVMAssemblyCode(byte[] bitcode, ...) throws RuntimeException: bitcode *)
(* that cannot be parsed does not end the process.                         *)
MalformedBitcodeIsThrown == process # "terminated"

=============================================================================
