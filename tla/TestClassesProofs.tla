-------------------------- MODULE TestClassesProofs --------------------------
(***************************************************************************)
(* Proofs of the safety properties of TestClasses, for any number of       *)
(* threads and uses.                                                       *)
(***************************************************************************)
EXTENDS TestClasses, NativeRuntimeProofs, FiniteSetTheorems

States == {"uninitialised", "initialising", "ready", "erroneous"}

Jobs == {NoJob} \cup [class : Classes, next : 0 .. 12]

(* The step of the initialiser at which a class calls initialize().        *)
InitAt(c) == IF c = "IntAddJVMCITest" THEN 3 ELSE 2

(* The steps before which a thread has at hand the address of a function   *)
(* of the library, or that of a CompileState injected nowhere yet.         *)
Selected(j) == j.class = "IntAddJVMCITest" /\ j.next \in 3 .. 8

Compiled(j) ==
  \/ j.class = "IntAddJVMCITest" /\ j.next \in 9 .. 11
  \/ j.class = "CodegenTest" /\ j.next \in {5, 6, 9, 10}

(* The arguments that the classes give.                                    *)
GoodArg(f) ==
  /\ f.op = "getIntFuncAddr" => f.arg.id = 1
  /\ f.op \in {"compileToFunc", "toLLVMAssemblyCode", "toMachineAssemblyCode"}
       => f.arg.bitcode = Good
  /\ f.op = "toMachineAssemblyCode" => f.arg.arch = "x86-64"

(* A thread in a native method is at the step of the initialiser that      *)
(* calls it.                                                               *)
CallsFrom(j, op) ==
  /\ j.class \in Classes
  /\ j.next \in 1 .. Len(StaticInit[j.class])
  /\ LET step == StaticInit[j.class][j.next]
     IN  \/ step = "initialize" /\ op = "initialize"
         \/ step = "select"     /\ op = "getIntFuncAddr"
         \/ step = "llvm"       /\ op = "toLLVMAssemblyCode"
         \/ step = "machine"    /\ op = "toMachineAssemblyCode"
         \/ step = "compile"    /\ op = "compileToFunc"

(* What holds of a thread with job j, call f and address a at hand, when   *)
(* the target is registered or not, and Java has handles H.                *)
JobOK(j, f, a, registered, H) ==
  /\ j # NoJob => j.next <= Len(StaticInit[j.class]) + 1
  /\ f # InJava => CallsFrom(j, f.op) /\ GoodArg(f) /\ f.mode # "throwing"
  /\ j.next > InitAt(j.class) => registered
  /\ f.op = "initialize" /\ f.mode = "returning" => registered
  /\ a \in {NoAddress, 0} \cup H
  /\ Selected(j) => a = 0
  /\ Compiled(j) => a \in H

JobInv(t) == JobOK(job[t], frame[t], at[t], initialised, handles)

Initialises(t, c) == job[t].class = c /\ job[t].next > 0

(* One thread initialises a class, while it is being initialised.          *)
InitialiserInv(c) ==
  IF class[c] = "initialising"
  THEN \E t \in Threads : \A u \in Threads : Initialises(u, c) <=> u = t
  ELSE \A t \in Threads : ~Initialises(t, c)

Registered(t) ==
  \/ job[t].next > InitAt(job[t].class)
  \/ frame[t].op = "initialize" /\ frame[t].mode = "returning"

(* The target is registered by a class that is past its initialize().      *)
RegisterInv ==
  initialised =>
    \E c \in Classes :
       \/ class[c] \in {"ready", "erroneous"}
       \/ \E t \in Threads : Initialises(t, c) /\ Registered(t)

(* The injections of an initialiser so far have been done.                 *)
CodeInv ==
  /\ \A c \in Classes : \A i \in Injections(c) :
       /\ code[c][i] \in {NoAddress, 0} \cup handles
       /\ class[c] = "ready" => code[c][i] # NoAddress
  /\ \A t \in Threads : \A c \in Classes : \A i \in Injections(c) :
       Initialises(t, c) /\ i < job[t].next => code[c][i] # NoAddress

(* No CompileState is injected twice, or is at hand twice.                 *)
OwnInv ==
  /\ \A c, d \in Classes : \A i \in Injections(c), j \in Injections(d) :
       code[c][i] > 0 /\ code[c][i] = code[d][j] => c = d /\ i = j
  /\ \A t \in Threads : Compiled(job[t]) =>
       \A c \in Classes : \A i \in Injections(c) : code[c][i] # at[t]
  /\ \A t, u \in Threads :
       Compiled(job[t]) /\ Compiled(job[u]) /\ at[t] = at[u] => t = u

TypesInv ==
  /\ api \in BOOLEAN
  /\ class \in [Classes -> States]
  /\ job \in [Threads -> Jobs]
  /\ at \in [Threads -> {NoAddress} \cup Nat]
  /\ code = [c \in Classes |-> [i \in Injections(c) |-> code[c][i]]]

ClassesInv ==
  /\ Inv
  /\ TypesInv
  /\ \A t \in Threads : JobInv(t)
  /\ \A c \in Classes : InitialiserInv(c)
  /\ RegisterInv
  /\ CodeInv
  /\ OwnInv
  /\ NeverCrashes

-----------------------------------------------------------------------------
(* The initialisers.                                                       *)

LEMMA ClassFacts ==
  /\ Classes = {"IntAddJVMCITest", "CodegenTest"}
  /\ StaticInit["IntAddJVMCITest"] =
       << "load", "select", "initialize", "inject", "prepare",
          "llvm", "machine", "compile", "address", "prepare", "inject" >>
  /\ StaticInit["CodegenTest"] =
       << "load", "initialize", "prepare", "compile", "address", "inject",
          "prepare", "compile", "address", "inject" >>
  /\ NoJob.class \notin Classes /\ NoJob.next = 0
  BY DEF Classes, StaticInit, NoJob

LEMMA ClassLengths ==
  /\ Len(StaticInit["IntAddJVMCITest"]) = 11
  /\ Len(StaticInit["CodegenTest"]) = 10
  BY ClassFacts

(* The steps of each name.                                                 *)
LEMMA Positions ==
  ASSUME NEW c \in Classes, NEW k \in 1 .. Len(StaticInit[c])
  PROVE  LET step == StaticInit[c][k]
             Add == c = "IntAddJVMCITest"
             Gen == c = "CodegenTest"
         IN  /\ k \in 1 .. 11
             /\ Add \/ Gen
             /\ step = "load" => k = 1
             /\ step = "select" <=> Add /\ k = 2
             /\ step = "initialize" <=> k = InitAt(c)
             /\ step = "inject" <=>
                  \/ Add /\ k \in {4, 11}
                  \/ Gen /\ k \in {6, 10}
             /\ step = "prepare" =>
                  \/ Add /\ k \in {5, 10}
                  \/ Gen /\ k \in {3, 7}
             /\ step = "llvm" => Add /\ k = 6
             /\ step = "machine" => Add /\ k = 7
             /\ step = "compile" <=>
                  \/ Add /\ k = 8
                  \/ Gen /\ k \in {4, 8}
             /\ step = "address" =>
                  \/ Add /\ k = 9
                  \/ Gen /\ k \in {5, 9}
  <1>1. CASE c = "IntAddJVMCITest"
    <2>1. k \in 1 .. 11
      BY <1>1, ClassLengths
    <2>2. StaticInit[c] =
            << "load", "select", "initialize", "inject", "prepare",
               "llvm", "machine", "compile", "address", "prepare", "inject" >>
      BY <1>1, ClassFacts
    <2>3. \/ k = 1 /\ StaticInit[c][k] = "load"
          \/ k = 2 /\ StaticInit[c][k] = "select"
          \/ k = 3 /\ StaticInit[c][k] = "initialize"
          \/ k = 4 /\ StaticInit[c][k] = "inject"
          \/ k = 5 /\ StaticInit[c][k] = "prepare"
          \/ k = 6 /\ StaticInit[c][k] = "llvm"
          \/ k = 7 /\ StaticInit[c][k] = "machine"
          \/ k = 8 /\ StaticInit[c][k] = "compile"
          \/ k = 9 /\ StaticInit[c][k] = "address"
          \/ k = 10 /\ StaticInit[c][k] = "prepare"
          \/ k = 11 /\ StaticInit[c][k] = "inject"
      BY <2>1, <2>2
    <2> HIDE <2>2
    <2> QED
      BY <1>1, <2>1, <2>3 DEF InitAt
  <1>2. CASE c = "CodegenTest"
    <2>1. k \in 1 .. 10
      BY <1>2, ClassLengths
    <2>2. StaticInit[c] =
            << "load", "initialize", "prepare", "compile", "address", "inject",
               "prepare", "compile", "address", "inject" >>
      BY <1>2, ClassFacts
    <2>3. \/ k = 1 /\ StaticInit[c][k] = "load"
          \/ k = 2 /\ StaticInit[c][k] = "initialize"
          \/ k = 3 /\ StaticInit[c][k] = "prepare"
          \/ k = 4 /\ StaticInit[c][k] = "compile"
          \/ k = 5 /\ StaticInit[c][k] = "address"
          \/ k = 6 /\ StaticInit[c][k] = "inject"
          \/ k = 7 /\ StaticInit[c][k] = "prepare"
          \/ k = 8 /\ StaticInit[c][k] = "compile"
          \/ k = 9 /\ StaticInit[c][k] = "address"
          \/ k = 10 /\ StaticInit[c][k] = "inject"
      BY <2>1, <2>2
    <2> QED
      BY <1>2, <2>1, <2>3 DEF InitAt
  <1> QED
    BY <1>1, <1>2, ClassFacts

LEMMA InjectionFacts ==
  ASSUME NEW c \in Classes
  PROVE  /\ Injections(c) = {i \in 1 .. Len(StaticInit[c]) :
                               StaticInit[c][i] = "inject"}
         /\ Len(StaticInit[c]) \in 10 .. 11
  <1>1. DOMAIN StaticInit[c] = 1 .. Len(StaticInit[c])
    BY ClassFacts
  <1>2. Len(StaticInit[c]) \in 10 .. 11
    BY ClassFacts, ClassLengths
  <1> QED
    BY <1>1, <1>2 DEF Injections

-----------------------------------------------------------------------------
(* What a thread has.                                                      *)

LEMMA Monotone ==
  ASSUME NEW j, NEW f, NEW a, NEW r, NEW H, JobOK(j, f, a, r, H),
         NEW r2, r => r2, NEW H2, H \subseteq H2
  PROVE  JobOK(j, f, a, r2, H2)
  BY DEF JobOK

LEMMA Handles ==
  ASSUME ClassesInv
  PROVE  /\ \A n \in handles : n \in Nat /\ n > 0
         /\ NoAddress \notin handles /\ 0 \notin handles
  BY DEF ClassesInv, Inv, TypeInv, NoAddress

(* What a guard says of the thread and of its class.                       *)
LEMMA InInitialiser ==
  ASSUME ClassesInv, NEW t \in Threads, job[t].next > 0
  PROVE  /\ job[t] \in [class : Classes, next : 0 .. 12]
         /\ job[t].class \in Classes
         /\ class[job[t].class] = "initialising"
         /\ \A u \in Threads : Initialises(u, job[t].class) <=> u = t
         /\ JobInv(t)
  <1>1. job[t] # NoJob /\ job[t] \in Jobs
    BY ClassFacts DEF ClassesInv, TypesInv
  <1>2. job[t] \in [class : Classes, next : 0 .. 12]
    BY <1>1 DEF Jobs
  <1>3. InitialiserInv(job[t].class) /\ Initialises(t, job[t].class)
    BY <1>2 DEF ClassesInv, Initialises
  <1> QED
    BY <1>2, <1>3 DEF InitialiserInv, ClassesInv

LEMMA AtStep ==
  ASSUME ClassesInv, NEW t \in Threads, NEW step, Doing(t, step)
  PROVE  /\ process = "running" /\ frame[t] = InJava
         /\ job[t] \in [class : Classes, next : 0 .. 12]
         /\ job[t].class \in Classes
         /\ job[t].next \in 1 .. Len(StaticInit[job[t].class])
         /\ job[t].next \in 1 .. 11
         /\ StaticInit[job[t].class][job[t].next] = step
         /\ class[job[t].class] = "initialising"
         /\ \A u \in Threads : Initialises(u, job[t].class) <=> u = t
         /\ JobInv(t)
  <1>1. /\ process = "running" /\ frame[t] = InJava
        /\ job[t].next \in 1 .. Len(StaticInit[job[t].class])
        /\ StaticInit[job[t].class][job[t].next] = step
        /\ job[t] # NoJob
    BY DEF Doing, Free
  <1>2. job[t] \in [class : Classes, next : 0 .. 12]
    BY <1>1 DEF ClassesInv, TypesInv, Jobs
  <1>3. Len(StaticInit[job[t].class]) \in 10 .. 11
    BY <1>2, InjectionFacts
  <1>4. job[t].next > 0 /\ job[t].next \in 1 .. 11
    BY <1>1, <1>2, <1>3
  <1> QED
    BY <1>1, <1>2, <1>4, InInitialiser

(* A thread goes on to the next step.                                      *)
LEMMA NextJob ==
  ASSUME ClassesInv, NEW t \in Threads, job[t].next \in 0 .. 11,
         job[t] \in [class : Classes, next : 0 .. 12], NextStep(t)
  PROVE  /\ job' \in [Threads -> Jobs]
         /\ job'[t] = [class |-> job[t].class, next |-> job[t].next + 1]
         /\ \A u \in Threads \ {t} : job'[u] = job[u]
  <1>1. job \in [Threads -> Jobs]
    BY DEF ClassesInv, TypesInv
  <1>2. job'[t] = [class |-> job[t].class, next |-> job[t].next + 1]
    BY <1>1 DEF NextStep
  <1>3. job'[t] \in Jobs
    BY <1>2 DEF Jobs
  <1> QED
    BY <1>1, <1>2, <1>3 DEF NextStep

-----------------------------------------------------------------------------
(* The steps of the native methods.                                        *)

Same(f, g) ==
  /\ g.op = f.op /\ g.arg = f.arg
  /\ g.mode \in {"running", "returning"}
  /\ f.mode = "returning" => g.mode = "returning"

(* A call goes on, and meets none of its errors.                           *)
CallGoesOn(t) ==
  /\ Same(frame[t], frame'[t])
  /\ \A u \in Threads \ {t} : frame'[u] = frame[u]
  /\ UNCHANGED handles
  /\ initialised => initialised'
  /\ initialised' # initialised =>
       frame[t].op = "initialize" /\ frame'[t].mode = "returning"
  /\ frame[t].op = "initialize" /\ frame'[t].mode = "returning" => initialised'
  /\ \/ process' = "running"
     \/ process' = "corrupted" /\ initialised /\ IsAt(t, "register")

LEMMA ProceedSame ==
  ASSUME NEW f \in Frames, f.mode = "running", NEW s
  PROVE  Same(f, Proceed(f, s))
  <1> DEFINE mode == IF f.next = Len(Steps[f.op]) THEN "returning" ELSE f.mode
  <1>1. Proceed(f, s) =
          [f EXCEPT !.scope = s, !.next = f.next + 1, !.mode = mode]
    BY DEF Proceed, Frames
  <1>2. mode \in {"running", "returning"}
    OBVIOUS
  <1> HIDE DEF mode
  <1> QED
    BY <1>1, <1>2 DEF Same, Frames

LEMMA GoOnSame ==
  ASSUME Inv, NEW t \in Threads, frame[t].mode = "running", NEW s, GoOn(t, s)
  PROVE  /\ Same(frame[t], frame'[t])
         /\ \A u \in Threads \ {t} : frame'[u] = frame[u]
  <1>1. frame \in [Threads -> Frames] /\ frame[t] \in Frames
    BY DEF Inv, TypeInv
  <1>2. frame' = [frame EXCEPT ![t] = Proceed(frame[t], s)]
    BY DEF GoOn
  <1>3. Same(frame[t], Proceed(frame[t], s))
    BY <1>1, ProceedSame
  <1> QED
    BY <1>1, <1>2, <1>3

(* What the classes have seen to when a thread is in a native method.      *)
LEMMA InNative ==
  ASSUME ClassesInv, NEW t \in Threads, frame[t] # InJava
  PROVE  /\ CallsFrom(job[t], frame[t].op) /\ GoodArg(frame[t])
         /\ frame[t].mode # "throwing"
         /\ frame[t] \in Frames /\ frame[t].op \in Operations
         /\ frame[t].op \in {"compileToFunc", "toMachineAssemblyCode"} =>
              initialised
         /\ job[t].next > 0
  <1>1. JobInv(t) /\ frame[t] \in Frames /\ ScopeInv(frame[t])
    BY DEF ClassesInv, Inv, TypeInv, ThreadInv
  <1>2. /\ CallsFrom(job[t], frame[t].op) /\ GoodArg(frame[t])
        /\ frame[t].mode # "throwing"
        /\ job[t].next > InitAt(job[t].class) => initialised
    BY <1>1 DEF JobInv, JobOK
  <1>3. frame[t].op \in Operations
    BY <1>1 DEF ScopeInv, Frames
  <1>4. /\ job[t].class \in Classes
        /\ job[t].next \in 1 .. Len(StaticInit[job[t].class])
    BY <1>2 DEF CallsFrom
  <1>5. job[t].next \in 1 .. 11
    BY <1>4, Positions
  <1>6. ASSUME frame[t].op \in {"compileToFunc", "toMachineAssemblyCode"}
        PROVE  job[t].next > InitAt(job[t].class)
    <2>1. StaticInit[job[t].class][job[t].next] \in {"compile", "machine"}
      BY <1>2, <1>6 DEF CallsFrom
    <2> QED
      BY <1>4, <1>5, <2>1, Positions DEF InitAt
  <1> QED
    BY <1>1, <1>2, <1>3, <1>5, <1>6

LEMMA AdvanceInNative ==
  ASSUME Inv, NEW t \in Threads, Advance(t)
  PROVE  frame[t] # InJava
  <1>1. InJava.op = "none" /\ InJava.mode = "running"
    BY DEF InJava, Frame
  <1>2. ASSUME NEW step, IsAt(t, step) PROVE frame[t] # InJava
    BY <1>1, <1>2, At
  <1>3. CASE Unwind(t) \/ Return(t) \/ ThrowException(t)
    BY <1>1, <1>3 DEF Unwind, Return, ThrowException
  <1>4. CASE \/ Check(t) \/ Register(t) \/ ConstructContext(t)
             \/ ConstructArray(t) \/ ConstructString(t) \/ Parse(t)
             \/ Find(t) \/ CreateEngine(t)
    BY <1>2, <1>4 DEF Check, Register, ConstructContext, ConstructArray,
       ConstructString, Parse, Find, CreateEngine
  <1>5. CASE \/ FindAddress(t) \/ NewState(t) \/ LookupTargetMachine(t)
             \/ Select(t) \/ LeaveInner(t) \/ NewStringUTF(t)
    BY <1>2, <1>5 DEF FindAddress, NewState, LookupTargetMachine, Select,
       LeaveInner, NewStringUTF
  <1> QED
    BY <1>3, <1>4, <1>5 DEF Advance

LEMMA AdvanceGoesOn ==
  ASSUME ClassesInv, NEW t \in Threads, Advance(t), ~Return(t)
  PROVE  CallGoesOn(t)
  <1>0. Inv /\ frame \in [Threads -> Frames] /\ frame[t] \in Frames
    BY DEF ClassesInv, Inv, TypeInv
  <1>1. frame[t] # InJava
    BY <1>0, AdvanceInNative
  <1>2. /\ GoodArg(frame[t]) /\ frame[t].mode # "throwing"
        /\ frame[t].op \in {"compileToFunc", "toMachineAssemblyCode"} =>
             initialised
    BY <1>1, InNative
  <1>3. Good \notin Ill /\ "x86-64" \in KnownArchs
    BY ResourceAssumption
  <1>4. KeepsStates
    BY <1>0, AdvanceKeeps
  <1>5. process' # "undefined"
    BY <1>4 DEF KeepsStates
  <1>6. ASSUME NEW step, IsAt(t, step)
        PROVE  /\ frame[t].op \in Operations
               /\ frame[t].next \in 1 .. StepCount(frame[t].op)
               /\ Steps[frame[t].op][frame[t].next] = step
               /\ process = "running" /\ frame[t].mode = "running"
    BY <1>0, <1>6, At
  <1>7. CASE Check(t)
    <2>1. IsAt(t, "check") /\ UNCHANGED << process, initialised, javaVars >>
      BY <1>7 DEF Check
    <2>2. process = "running" /\ frame[t].mode = "running"
      BY <1>6, <2>1
    <2>3. CASE initialised
      <3>1. frame' = [frame EXCEPT ![t] = [@ EXCEPT !.mode = "returning"]]
        BY <1>7, <2>3 DEF Check
      <3>2. /\ Same(frame[t], frame'[t])
            /\ \A u \in Threads \ {t} : frame'[u] = frame[u]
        BY <1>0, <3>1 DEF Same, Frames
      <3> QED
        BY <2>1, <2>2, <2>3, <3>2 DEF CallGoesOn, javaVars
    <2>4. CASE ~initialised
      <3>1. GoOn(t, Owned(t))
        BY <1>7, <2>4 DEF Check
      <3>2. /\ Same(frame[t], frame'[t])
            /\ \A u \in Threads \ {t} : frame'[u] = frame[u]
        BY <1>0, <2>2, <3>1, GoOnSame
      <3>3. Is(frame[t], "initialize", 1)
        BY <1>6, <2>1, Places
      <3>4. frame'[t] = Proceed(frame[t], Owned(t))
        BY <1>0, <3>1 DEF GoOn
      <3>5. frame'[t].mode = "running"
        <4>1. Len(Steps["initialize"]) = 2
          BY Lengths DEF StepCount
        <4> QED
          BY <1>0, <2>2, <3>3, <3>4, <4>1 DEF Proceed, Is, Frames
      <3> QED
        BY <2>1, <2>2, <2>4, <3>2, <3>5 DEF CallGoesOn, javaVars
    <2> QED
      BY <2>3, <2>4
  <1>8. CASE Register(t)
    <2>1. /\ IsAt(t, "register") /\ initialised' = TRUE
          /\ process' \in IF initialised THEN {"running", "corrupted"}
                          ELSE {"running"}
          /\ GoOn(t, Owned(t)) /\ UNCHANGED javaVars
      BY <1>8 DEF Register
    <2>2. Is(frame[t], "initialize", 2) /\ frame[t].mode = "running"
      BY <1>6, <2>1, Places
    <2>3. /\ Same(frame[t], frame'[t])
          /\ \A u \in Threads \ {t} : frame'[u] = frame[u]
      BY <1>0, <2>1, <2>2, GoOnSame
    <2>4. frame'[t] = Proceed(frame[t], Owned(t))
      BY <1>0, <2>1 DEF GoOn
    <2>5. frame'[t].mode = "returning"
      <3>1. Len(Steps["initialize"]) = 2
        BY Lengths DEF StepCount
      <3> QED
        BY <1>0, <2>2, <2>4, <3>1 DEF Proceed, Is, Frames
    <2> QED
      BY <2>1, <2>2, <2>3, <2>5 DEF CallGoesOn, javaVars, Is
  <1> DEFINE Quiet == /\ UNCHANGED << initialised, javaVars >>
                      /\ process' = "running"
                      /\ \E s : GoOn(t, s)
                      /\ frame[t].mode = "running"
                      /\ frame[t].op # "initialize"
  <1>9. Quiet => CallGoesOn(t)
    <2> SUFFICES ASSUME Quiet PROVE CallGoesOn(t)
      OBVIOUS
    <2>1. /\ Same(frame[t], frame'[t])
          /\ \A u \in Threads \ {t} : frame'[u] = frame[u]
      BY <1>0, GoOnSame
    <2> QED
      BY <2>1 DEF CallGoesOn, javaVars
  <1>10. CASE ConstructContext(t) \/ ConstructArray(t) \/ ConstructString(t)
    <2>1. IsAt(t, "context") \/ IsAt(t, "array") \/ IsAt(t, "string")
      BY <1>10 DEF ConstructContext, ConstructArray, ConstructString
    <2>2. frame[t].op # "initialize" /\ frame[t].mode = "running"
      BY <1>6, <2>1, Places DEF Is
    <2>3. Quiet
      BY <1>6, <1>10, <2>1, <2>2 DEF ConstructContext, ConstructArray,
                                ConstructString
    <2> QED
      BY <1>9, <2>3
  <1>11. CASE Parse(t)
    <2>1. IsAt(t, "parse")
      BY <1>11 DEF Parse
    <2>2. /\ frame[t].op \in {"compileToFunc", "toLLVMAssemblyCode",
                              "toMachineAssemblyCode"}
          /\ frame[t].mode = "running" /\ process = "running"
      BY <1>6, <2>1, Places DEF Is
    <2>3. frame[t].arg.bitcode \notin Malformed
      BY <1>2, <1>3, <2>2 DEF GoodArg, Ill
    <2>4. Quiet
      BY <1>11, <2>2, <2>3 DEF Parse
    <2> QED
      BY <1>9, <2>4
  <1>12. CASE Find(t) \/ FindAddress(t)
    <2>1. IsAt(t, "find") \/ IsAt(t, "address")
      BY <1>12 DEF Find, FindAddress
    <2>2. /\ frame[t].op = "compileToFunc"
          /\ frame[t].mode = "running" /\ process = "running"
      BY <1>6, <2>1, Places DEF Is
    <2>3. /\ frame[t].arg.bitcode \notin Lacking
          /\ frame[t].arg.bitcode \notin Unresolvable
      BY <1>2, <1>3, <2>2 DEF GoodArg, Ill
    <2>4. Quiet
      BY <1>12, <2>2, <2>3 DEF Find, FindAddress
    <2> QED
      BY <1>9, <2>4
  <1>13. CASE CreateEngine(t)
    <2>1. IsAt(t, "engine")
      BY <1>13 DEF CreateEngine
    <2>2. /\ frame[t].op = "compileToFunc"
          /\ frame[t].mode = "running" /\ process = "running"
      BY <1>6, <2>1, Places DEF Is
    <2>3. Quiet
      BY <1>2, <1>13, <2>2 DEF CreateEngine
    <2> QED
      BY <1>9, <2>3
  <1>14. CASE NewState(t) \/ NewStringUTF(t)
    <2>1. IsAt(t, "state") \/ IsAt(t, "result")
      BY <1>14 DEF NewState, NewStringUTF
    <2>2. frame[t].mode = "running" /\ process = "running"
      BY <1>6, <2>1
    <2>3. frame[t].op # "initialize"
      <3>1. CASE IsAt(t, "state")
        BY <1>6, <3>1, Places DEF Is
      <3>2. CASE IsAt(t, "result")
        BY <1>6, <3>2, Statements, StepsOf, Lengths
      <3> QED
        BY <2>1, <3>1, <3>2
    <2>4. Quiet
      BY <1>14, <2>2, <2>3 DEF NewState, NewStringUTF
    <2> QED
      BY <1>9, <2>4
  <1>15. CASE LookupTargetMachine(t)
    <2>1. IsAt(t, "target")
      BY <1>15 DEF LookupTargetMachine
    <2>2. /\ frame[t].op = "toMachineAssemblyCode"
          /\ frame[t].mode = "running" /\ process = "running"
      BY <1>6, <2>1, Places DEF Is
    <2>3. initialised /\ frame[t].arg.arch \in KnownArchs
      BY <1>2, <1>3, <2>2 DEF GoodArg
    <2>4. Quiet
      BY <1>15, <2>2, <2>3 DEF LookupTargetMachine
    <2> QED
      BY <1>9, <2>4
  <1>16. CASE Select(t)
    <2>1. IsAt(t, "select")
      BY <1>16 DEF Select
    <2>2. /\ frame[t].op = "getIntFuncAddr"
          /\ frame[t].mode = "running" /\ process = "running"
      BY <1>6, <2>1, Places DEF Is
    <2>3. frame[t].arg.id = 1
      BY <1>2, <2>2 DEF GoodArg
    <2>4. Quiet
      BY <1>16, <2>2, <2>3 DEF Select
    <2> QED
      BY <1>9, <2>4
  <1> DEFINE Leaving == /\ UNCHANGED << initialised, javaVars >>
                        /\ process = "running"
                        /\ process' \in {"undefined", process}
                        /\ frame' = [frame EXCEPT ![t] =
                             [@ EXCEPT !.scope = Front(Owned(t))]]
  <1>17. Leaving => CallGoesOn(t)
    <2> SUFFICES ASSUME Leaving PROVE CallGoesOn(t)
      OBVIOUS
    <2>1. frame'[t] = [frame[t] EXCEPT !.scope = Front(Owned(t))]
      BY <1>0
    <2>2. frame'[t].mode = frame[t].mode
      BY <1>0, <2>1 DEF Frames
    <2>3. Same(frame[t], frame'[t])
      BY <1>0, <1>2, <2>1 DEF Same, Frames, Modes
    <2>4. \A u \in Threads \ {t} : frame'[u] = frame[u]
      BY <1>0
    <2>5. frame[t].op = "initialize" /\ frame[t].mode = "returning" =>
            initialised
      BY DEF ClassesInv, JobInv, JobOK
    <2> QED
      BY <1>5, <2>2, <2>3, <2>4, <2>5 DEF CallGoesOn, javaVars
  <1>18. CASE Unwind(t)
    BY <1>17, <1>18 DEF Unwind, Destroy
  <1>19. CASE LeaveInner(t)
    <2>1. IsAt(t, "leave")
      BY <1>19 DEF LeaveInner
    <2>2. frame[t].mode = "running" /\ process = "running"
      BY <1>6, <2>1
    <2>3. frame[t].op # "initialize"
      BY <1>6, <2>1, Statements, StepsOf, Lengths
    <2>4. CASE Last(Owned(t)) = Named(t, "context")
      <3>1. GoOn(t, Front(Owned(t)))
        BY <1>19, <2>4 DEF LeaveInner, GoOn
      <3>2. Quiet
        BY <1>5, <1>19, <2>2, <2>3, <3>1 DEF LeaveInner, Destroy
      <3> QED
        BY <1>9, <3>2
    <2>5. CASE Last(Owned(t)) # Named(t, "context")
      <3>1. frame' = [frame EXCEPT ![t] =
                        [@ EXCEPT !.scope = Front(Owned(t))]]
        BY <1>19, <2>5 DEF LeaveInner
      <3>2. Leaving
        BY <1>19, <2>2, <3>1 DEF LeaveInner, Destroy
      <3> QED
        BY <1>17, <3>2
    <2> QED
      BY <2>4, <2>5
  <1>20. CASE ThrowException(t)
    BY <1>2, <1>20 DEF ThrowException
  <1> QED
    BY <1>7, <1>8, <1>10, <1>11, <1>12, <1>13, <1>14, <1>15, <1>16,
       <1>18, <1>19, <1>20 DEF Advance

-----------------------------------------------------------------------------
(* Steps that leave the classes alone.                                     *)

(* Two threads at initialize() are those of the two classes.               *)
LEMMA Collision ==
  ASSUME ClassesInv, NEW t \in Threads, IsAt(t, "register"), initialised
  PROVE  \A c \in Classes : class[c] # "uninitialised"
  <1> DEFINE c == job[t].class
  <1>1. /\ Is(frame[t], "initialize", 2) /\ frame[t].mode = "running"
        /\ frame[t] # InJava
    <2>1. /\ frame[t].op \in Operations /\ frame[t].op # "none"
          /\ frame[t].next \in 1 .. StepCount(frame[t].op)
          /\ Steps[frame[t].op][frame[t].next] = "register"
          /\ frame[t].mode = "running"
      BY At DEF ClassesInv
    <2> QED
      BY <2>1, Places, JavaFrame
  <1>2. CallsFrom(job[t], "initialize") /\ job[t].next > 0
    BY <1>1, InNative DEF Is
  <1>3. /\ c \in Classes /\ class[c] = "initialising"
        /\ \A u \in Threads : Initialises(u, c) <=> u = t
    BY <1>2, InInitialiser
  <1>4. job[t].next = InitAt(c)
    BY <1>2, Positions DEF CallsFrom
  <1>5. ~Registered(t)
    BY <1>1, <1>4, ClassFacts DEF Registered, InitAt
  <1>6. PICK d \in Classes :
          \/ class[d] \in {"ready", "erroneous"}
          \/ \E u \in Threads : Initialises(u, d) /\ Registered(u)
    BY DEF ClassesInv, RegisterInv
  <1>7. d # c
    BY <1>3, <1>5, <1>6
  <1>8. class[d] # "uninitialised"
    BY <1>6, InInitialiser DEF Initialises
  <1> QED
    BY <1>3, <1>7, <1>8, ClassFacts

(* The parts of the invariant that speak of classes, jobs and codes only.  *)
LEMMA ClassesStill ==
  ASSUME ClassesInv, UNCHANGED classVars, handles \subseteq handles'
  PROVE  /\ TypesInv' /\ CodeInv' /\ OwnInv'
         /\ \A c \in Classes : InitialiserInv(c)'
  <1> USE DEF classVars
  <1>1. TypesInv'
    BY DEF ClassesInv, TypesInv
  <1>2. \A c \in Classes : InitialiserInv(c)'
    BY DEF ClassesInv, InitialiserInv, Initialises
  <1>3. CodeInv'
    BY DEF ClassesInv, CodeInv, Initialises
  <1>4. OwnInv'
    BY DEF ClassesInv, OwnInv
  <1> QED
    BY <1>1, <1>2, <1>3, <1>4

LEMMA AdvanceNativeStep ==
  ASSUME ClassesInv, Inv', NEW t \in Threads, AdvanceNative(t)
  PROVE  ClassesInv'
  <1>1. Advance(t) /\ frame'[t] # InJava /\ UNCHANGED classVars
    BY DEF AdvanceNative
  <1>2. ~Return(t)
    <2>1. frame \in [Threads -> Frames]
      BY DEF ClassesInv, Inv, TypeInv
    <2> QED
      BY <1>1, <2>1 DEF Return
  <1>3. CallGoesOn(t) /\ frame[t] # InJava
    BY <1>1, <1>2, AdvanceGoesOn, AdvanceInNative DEF ClassesInv
  <1> DEFINE g == frame'[t]
  <1>4. /\ Same(frame[t], g)
        /\ \A u \in Threads \ {t} : frame'[u] = frame[u]
        /\ handles' = handles
        /\ initialised => initialised'
        /\ initialised' # initialised =>
             frame[t].op = "initialize" /\ g.mode = "returning"
        /\ frame[t].op = "initialize" /\ g.mode = "returning" => initialised'
        /\ \/ process' = "running"
           \/ process' = "corrupted" /\ initialised /\ IsAt(t, "register")
    BY <1>3 DEF CallGoesOn
  <1> HIDE DEF g
  <1>5. /\ TypesInv' /\ CodeInv' /\ OwnInv'
        /\ \A c \in Classes : InitialiserInv(c)'
    BY <1>1, <1>4, ClassesStill
  <1>6. JobInv(t)'
    <2>1. JobOK(job[t], frame[t], at[t], initialised, handles)
      BY DEF ClassesInv, JobInv
    <2>2. JobOK(job[t], g, at[t], initialised', handles)
      BY <1>3, <1>4, <2>1 DEF JobOK, Same, GoodArg
    <2> QED
      BY <1>1, <1>4, <2>2 DEF JobInv, classVars, g
  <1>7. ASSUME NEW u \in Threads \ {t}
        PROVE  JobInv(u)'
    BY <1>1, <1>4, Monotone DEF ClassesInv, JobInv, classVars
  <1>8. NeverCrashes'
    <2>1. class' = class
      BY <1>1 DEF classVars
    <2> QED
      BY <1>4, <2>1, Collision DEF NeverCrashes
  <1>9. RegisterInv'
    <2>1. class' = class /\ job' = job
      BY <1>1 DEF classVars
    <2>2. ASSUME NEW u \in Threads, Registered(u)
          PROVE  Registered(u)'
      <3>1. CASE u = t
        BY <1>4, <2>1, <2>2, <3>1 DEF Registered, Same, g
      <3>2. CASE u # t
        BY <1>4, <2>1, <2>2, <3>2 DEF Registered
      <3> QED
        BY <3>1, <3>2
    <2>3. CASE initialised
      BY <2>1, <2>2, <2>3 DEF ClassesInv, RegisterInv, Initialises
    <2>4. CASE initialised' /\ ~initialised
      <3>1. Registered(t)'
        BY <1>4, <2>4 DEF Registered, Same, g
      <3>2. \E c \in Classes : Initialises(t, c)'
        BY <1>3, <2>1, InNative, InInitialiser DEF Initialises
      <3> QED
        BY <3>1, <3>2 DEF RegisterInv
    <2> QED
      BY <2>3, <2>4 DEF RegisterInv
  <1> QED
    BY <1>5, <1>6, <1>7, <1>8, <1>9 DEF ClassesInv

(* A native method begins.                                                 *)
LEMMA CallBegins ==
  ASSUME ClassesInv, Inv', NEW t \in Threads, NEW g,
         frame[t] = InJava, frame' = [frame EXCEPT ![t] = g],
         CallsFrom(job[t], g.op), GoodArg(g), g.mode = "running",
         UNCHANGED << process, initialised, handles, classVars >>
  PROVE  ClassesInv'
  <1>1. /\ frame'[t] = g
        /\ \A u \in Threads \ {t} : frame'[u] = frame[u]
    BY DEF ClassesInv, Inv, TypeInv
  <1>2. /\ TypesInv' /\ CodeInv' /\ OwnInv'
        /\ \A c \in Classes : InitialiserInv(c)'
    BY ClassesStill
  <1>3. JobInv(t)'
    <2>1. JobOK(job[t], frame[t], at[t], initialised, handles)
      BY DEF ClassesInv, JobInv
    <2>2. JobOK(job[t], g, at[t], initialised, handles)
      BY <2>1 DEF JobOK
    <2> QED
      BY <1>1, <2>2 DEF JobInv, classVars
  <1>4. \A u \in Threads \ {t} : JobInv(u)'
    BY <1>1 DEF ClassesInv, JobInv, classVars
  <1>5. NeverCrashes'
    BY DEF ClassesInv, NeverCrashes, classVars
  <1>6. RegisterInv'
    <2>1. class' = class /\ job' = job
      BY DEF classVars
    <2>2. InJava.op = "none"
      BY JavaFrame
    <2>3. ASSUME NEW u \in Threads, Registered(u)
          PROVE  Registered(u)'
      <3>1. CASE u = t
        BY <2>1, <2>2, <2>3, <3>1 DEF Registered
      <3>2. CASE u # t
        BY <1>1, <2>1, <2>3, <3>2 DEF Registered
      <3> QED
        BY <3>1, <3>2
    <2> QED
      BY <2>1, <2>3 DEF ClassesInv, RegisterInv, Initialises
  <1> QED
    BY <1>2, <1>3, <1>4, <1>5, <1>6 DEF ClassesInv

LEMMA FrameFields ==
  ASSUME NEW op, NEW n, NEW arg
  PROVE  /\ Frame(op, n, arg).op = op /\ Frame(op, n, arg).arg = arg
         /\ Frame(op, n, arg).mode = "running"
  BY DEF Frame

LEMMA CallNativeStep ==
  ASSUME ClassesInv, NEW t \in Threads, CallNative(t)
  PROVE  ClassesInv'
  <1>1. UNCHANGED classVars
    BY DEF CallNative
  <1>2. CASE Doing(t, "initialize") /\ CallInitialize(t)
    <2> DEFINE g == Frame("initialize", 0, << >>)
    <2>1. /\ g.op = "initialize" /\ g.mode = "running"
      BY FrameFields
    <2>2. /\ frame[t] = InJava /\ frame' = [frame EXCEPT ![t] = g]
          /\ UNCHANGED << process, initialised, handles >>
      BY <1>2 DEF CallInitialize, javaVars
    <2>3. Inv'
      BY <1>2, CallInitializeStep DEF ClassesInv
    <2> HIDE DEF g
    <2>4. CallsFrom(job[t], g.op)
      BY <1>2, <2>1, AtStep DEF CallsFrom
    <2>5. GoodArg(g)
      BY <2>1 DEF GoodArg
    <2> QED
      BY <1>1, <2>1, <2>2, <2>3, <2>4, <2>5, CallBegins
  <1>3. ASSUME NEW step, NEW op \in Operations, NEW arg \in Arguments(op),
               Doing(t, step), Call(t, op, arg),
               \/ step = "select"  /\ op = "getIntFuncAddr"
               \/ step = "llvm"    /\ op = "toLLVMAssemblyCode"
               \/ step = "machine" /\ op = "toMachineAssemblyCode"
               \/ step = "compile" /\ op = "compileToFunc",
               step = "select" => arg.id = 1,
               step \in {"llvm", "machine", "compile"} => arg.bitcode = Good,
               step = "machine" => arg.arch = "x86-64"
        PROVE  ClassesInv'
    <2> DEFINE g == Frame(op, calls + 1, arg)
    <2>1. g.op = op /\ g.mode = "running" /\ g.arg = arg
      BY FrameFields
    <2>2. /\ frame[t] = InJava /\ frame' = [frame EXCEPT ![t] = g]
          /\ UNCHANGED << process, initialised, handles >>
      BY <1>3 DEF Call
    <2>3. Inv'
      BY <1>3, CallStep DEF ClassesInv
    <2> HIDE DEF g
    <2>4. CallsFrom(job[t], g.op)
      BY <1>3, <2>1, AtStep DEF CallsFrom
    <2>5. GoodArg(g)
      BY <1>3, <2>1 DEF GoodArg
    <2> QED
      BY <1>1, <2>1, <2>2, <2>3, <2>4, <2>5, CallBegins
  <1>4. /\ "getIntFuncAddr" \in Operations
        /\ "toLLVMAssemblyCode" \in Operations
        /\ "toMachineAssemblyCode" \in Operations
        /\ "compileToFunc" \in Operations
    BY StepsOf
  <1>5. /\ [id |-> 1] \in Arguments("getIntFuncAddr")
        /\ [bitcode |-> Good] \in Arguments("toLLVMAssemblyCode")
        /\ [bitcode |-> Good] \in Arguments("compileToFunc")
        /\ [bitcode |-> Good, arch |-> "x86-64"]
             \in Arguments("toMachineAssemblyCode")
    BY ResourceAssumption, InputAssumption DEF Arguments
  <1>6. CASE Doing(t, "select") /\ Call(t, "getIntFuncAddr", [id |-> 1])
    BY <1>3, <1>4, <1>5, <1>6
  <1>7. CASE /\ Doing(t, "llvm")
             /\ Call(t, "toLLVMAssemblyCode", [bitcode |-> Good])
    BY <1>3, <1>4, <1>5, <1>7
  <1>8. CASE /\ Doing(t, "machine")
             /\ Call(t, "toMachineAssemblyCode",
                     [bitcode |-> Good, arch |-> "x86-64"])
    BY <1>3, <1>4, <1>5, <1>8
  <1>9. CASE Doing(t, "compile") /\ Call(t, "compileToFunc", [bitcode |-> Good])
    BY <1>3, <1>4, <1>5, <1>9
  <1> QED
    BY <1>2, <1>6, <1>7, <1>8, <1>9 DEF CallNative

-----------------------------------------------------------------------------
(* A thread goes on in its initialiser.                                    *)

(* What every such step keeps.                                             *)
LEMMA NextStepKeeps ==
  ASSUME ClassesInv, NEW t \in Threads,
         job[t].next \in 1 .. Len(StaticInit[job[t].class]),
         NextStep(t), UNCHANGED << class, initialised >>,
         \A u \in Threads \ {t} : frame'[u] = frame[u],
         frame[t] # InJava /\ initialised =>
           job'[t].next > InitAt(job[t].class) \/ frame[t].op # "initialize"
  PROVE  /\ job' \in [Threads -> Jobs]
         /\ job'[t] = [class |-> job[t].class, next |-> job[t].next + 1]
         /\ \A u \in Threads \ {t} : job'[u] = job[u]
         /\ \A c \in Classes : InitialiserInv(c)'
         /\ RegisterInv'
  <1>0. job[t].next > 0 /\ job[t] \in Jobs
    <2>1. job[t] \in Jobs
      BY DEF ClassesInv, TypesInv
    <2>2. CASE job[t] = NoJob
      <3>1. job[t].next = 0
        BY <2>2, ClassFacts
      <3> QED
        BY <3>1
    <2> QED
      BY <2>1, <2>2 DEF Jobs
  <1>1. /\ job[t] \in [class : Classes, next : 0 .. 12]
        /\ job[t].class \in Classes
        /\ \A u \in Threads : Initialises(u, job[t].class) <=> u = t
    BY <1>0, InInitialiser
  <1>2. job[t].next \in 1 .. 11
    BY <1>1, Positions
  <1>3. /\ job' \in [Threads -> Jobs]
        /\ job'[t] = [class |-> job[t].class, next |-> job[t].next + 1]
        /\ \A u \in Threads \ {t} : job'[u] = job[u]
    BY <1>1, <1>2, NextJob
  <1>4. job'[t].class = job[t].class /\ job'[t].next = job[t].next + 1
    BY <1>3
  <1>5. \A u \in Threads, c \in Classes :
          Initialises(u, c)' <=> Initialises(u, c)
    BY <1>2, <1>3, <1>4 DEF Initialises
  <1>6. \A c \in Classes : InitialiserInv(c)'
    BY <1>5 DEF ClassesInv, InitialiserInv
  <1>7. ASSUME NEW u \in Threads, Registered(u), initialised
        PROVE  Registered(u)'
    <2>1. CASE u # t
      BY <1>3, <1>7, <2>1 DEF Registered
    <2>2. CASE u = t
      <3>1. InJava.op = "none"
        BY JavaFrame
      <3>2. job[t].next > InitAt(job[t].class) =>
              job'[t].next > InitAt(job[t].class)
        BY <1>2, <1>4 DEF InitAt
      <3> QED
        BY <1>4, <1>7, <2>2, <3>1, <3>2 DEF Registered
    <2> QED
      BY <2>1, <2>2
  <1>8. RegisterInv'
    BY <1>5, <1>7 DEF ClassesInv, RegisterInv
  <1> QED
    BY <1>3, <1>6, <1>8

(* A step that is no call and no injection.                                *)
LEMMA PlainStepKeeps ==
  ASSUME ClassesInv, Inv', NEW t \in Threads, NEW step, Doing(t, step),
         step \in {"load", "address", "prepare"},
         NextStep(t), api' \in BOOLEAN,
         UNCHANGED << process, initialised, frame, handles, class, at, code >>
  PROVE  ClassesInv'
  <1> DEFINE j == job[t]
             k == job[t].next
  <1>1. /\ frame[t] = InJava
        /\ j \in [class : Classes, next : 0 .. 12] /\ j.class \in Classes
        /\ k \in 1 .. Len(StaticInit[j.class]) /\ k \in 1 .. 11
        /\ StaticInit[j.class][k] = step
        /\ JobInv(t)
    BY AtStep
  <1>2. /\ job' \in [Threads -> Jobs]
        /\ job'[t] = [class |-> j.class, next |-> k + 1]
        /\ \A u \in Threads \ {t} : job'[u] = job[u]
        /\ \A c \in Classes : InitialiserInv(c)'
        /\ RegisterInv'
    BY <1>1, NextStepKeeps
  <1>3. TypesInv'
    BY <1>2 DEF ClassesInv, TypesInv
  <1>4. job'[t].class = j.class /\ job'[t].next = k + 1
    BY <1>2
  <1>5. /\ step = "load" => k = 1
        /\ k # InitAt(j.class)
        /\ j.class = "IntAddJVMCITest" => k \notin {2, 8}
        /\ j.class = "CodegenTest" => k \notin {4, 8}
        /\ k \notin Injections(j.class)
    BY <1>1, Positions, InjectionFacts
  <1>6. JobInv(t)'
    <2>1. JobOK(j, InJava, at[t], initialised, handles)
      BY <1>1 DEF JobInv
    <2>2. job'[t].next > InitAt(j.class) => initialised
      BY <1>1, <1>4, <1>5, <2>1 DEF JobOK, InitAt
    <2>3. Selected(job'[t]) => Selected(j)
      BY <1>1, <1>4, <1>5 DEF Selected
    <2>4. Compiled(job'[t]) => Compiled(j)
      BY <1>1, <1>4, <1>5, ClassFacts DEF Compiled
    <2>5. job'[t].next <= Len(StaticInit[job'[t].class]) + 1
      BY <1>1, <1>4, InjectionFacts
    <2>6. InJava.op = "none"
      BY JavaFrame
    <2>7. JobOK(job'[t], InJava, at[t], initialised, handles)
      BY <1>4, <2>1, <2>2, <2>3, <2>4, <2>5, <2>6 DEF JobOK
    <2> QED
      BY <1>1, <2>7 DEF JobInv
  <1>7. \A u \in Threads \ {t} : JobInv(u)'
    BY <1>2 DEF ClassesInv, JobInv
  <1>8. CodeInv'
    <2>1. ASSUME NEW u \in Threads, NEW c \in Classes, NEW i \in Injections(c),
                 Initialises(u, c)', i < job'[u].next
          PROVE  Initialises(u, c) /\ i < job[u].next
      <3>1. CASE u = t
        <4>1. c = j.class /\ i # k /\ i < k + 1
          BY <1>4, <1>5, <2>1, <3>1 DEF Initialises
        <4>2. i \in Nat
          BY InjectionFacts
        <4> QED
          BY <1>1, <3>1, <4>1, <4>2 DEF Initialises
      <3>2. CASE u # t
        BY <1>2, <2>1, <3>2 DEF Initialises
      <3> QED
        BY <3>1, <3>2
    <2> QED
      BY <2>1 DEF ClassesInv, CodeInv
  <1>9. OwnInv'
    <2>1. \A u \in Threads : Compiled(job'[u]) => Compiled(job[u])
      BY <1>1, <1>2, <1>4, <1>5, ClassFacts DEF Compiled
    <2> QED
      BY <2>1 DEF ClassesInv, OwnInv
  <1>10. NeverCrashes'
    BY DEF ClassesInv, NeverCrashes
  <1> QED
    BY <1>2, <1>3, <1>6, <1>7, <1>8, <1>9, <1>10 DEF ClassesInv

LEMMA TakeAddressStep ==
  ASSUME ClassesInv, NEW t \in Threads, TakeAddress(t)
  PROVE  ClassesInv'
  <1>1. Inv'
    BY GetFuncAddrStep DEF TakeAddress, ClassesInv
  <1>2. /\ Doing(t, "address") /\ NextStep(t)
        /\ UNCHANGED << process, initialised, frame, handles, class, at, code >>
        /\ api' = api
    BY DEF TakeAddress, GetFuncAddr
  <1>3. api' \in BOOLEAN
    BY <1>2 DEF ClassesInv, TypesInv
  <1> QED
    BY <1>1, <1>2, <1>3, PlainStepKeeps

LEMMA PrepareStep ==
  ASSUME ClassesInv, NEW t \in Threads, Prepare(t)
  PROVE  ClassesInv'
  <1>1. Inv'
    BY Stutter DEF Prepare, ClassesInv
  <1>2. /\ Doing(t, "prepare") /\ NextStep(t)
        /\ UNCHANGED << process, initialised, frame, handles, class, at, code >>
        /\ api' = api
    BY DEF Prepare, vars, javaVars
  <1>3. api' \in BOOLEAN
    BY <1>2 DEF ClassesInv, TypesInv
  <1> QED
    BY <1>1, <1>2, <1>3, PlainStepKeeps

LEMMA ReturnToClassStep ==
  ASSUME ClassesInv, NEW t \in Threads, ReturnToClass(t)
  PROVE  ClassesInv'
  <1> DEFINE j == job[t]
             k == job[t].next
             f == frame[t]
  <1>1. /\ f.mode = "returning" /\ frame' = [frame EXCEPT ![t] = InJava]
        /\ handles' = IF f.op = "compileToFunc" THEN handles \cup {f.n}
                      ELSE handles
        /\ UNCHANGED << process, initialised, api, class, code >>
        /\ NextStep(t)
        /\ at' = [at EXCEPT ![t] = CASE f.op = "getIntFuncAddr" -> 0
                                     [] f.op = "compileToFunc"  -> f.n
                                     [] OTHER                   -> at[t]]
    BY DEF ReturnToClass, Return
  <1>2. Inv'
    BY ReturnStep DEF ReturnToClass, ClassesInv
  <1>3. /\ frame \in [Threads -> Frames]
        /\ at \in [Threads -> {NoAddress} \cup Nat]
    BY DEF ClassesInv, Inv, TypeInv, TypesInv
  <1>4. f # InJava
    <2>1. InJava.mode = "running"
      BY DEF InJava, Frame
    <2> QED
      BY <1>1, <2>1
  <1>5. CallsFrom(j, f.op) /\ k > 0 /\ JobInv(t)
    BY <1>4, InNative DEF ClassesInv
  <1>6. /\ j \in [class : Classes, next : 0 .. 12] /\ j.class \in Classes
        /\ k \in 1 .. Len(StaticInit[j.class])
    BY <1>5, InInitialiser DEF CallsFrom
  <1>7. k \in 1 .. 11
    BY <1>6, Positions
  <1>8. /\ f.op = "initialize" => k = InitAt(j.class)
        /\ k = InitAt(j.class) => f.op = "initialize"
        /\ f.op = "getIntFuncAddr" <=> j.class = "IntAddJVMCITest" /\ k = 2
        /\ f.op = "compileToFunc" <=>
             \/ j.class = "IntAddJVMCITest" /\ k = 8
             \/ j.class = "CodegenTest" /\ k \in {4, 8}
        /\ j.class = "IntAddJVMCITest" => k \in {2, 3, 6, 7, 8}
        /\ j.class = "CodegenTest" => k \in {2, 4, 8}
        /\ k \notin Injections(j.class)
    <2>1. LET step == StaticInit[j.class][k]
          IN  \/ step = "initialize" /\ f.op = "initialize"
              \/ step = "select"     /\ f.op = "getIntFuncAddr"
              \/ step = "llvm"       /\ f.op = "toLLVMAssemblyCode"
              \/ step = "machine"    /\ f.op = "toMachineAssemblyCode"
              \/ step = "compile"    /\ f.op = "compileToFunc"
      BY <1>5 DEF CallsFrom
    <2>2. k \notin Injections(j.class)
      BY <1>6, <2>1, InjectionFacts
    <2>3. CASE j.class = "IntAddJVMCITest"
      BY <1>6, <2>1, <2>2, <2>3, Positions DEF InitAt
    <2>4. CASE j.class = "CodegenTest"
      BY <1>6, <2>1, <2>2, <2>4, Positions DEF InitAt
    <2> QED
      BY <1>6, <2>3, <2>4, ClassFacts
  <1>9. \A u \in Threads \ {t} : frame'[u] = frame[u] /\ at'[u] = at[u]
    BY <1>1, <1>3
  <1>10. frame'[t] = InJava
    BY <1>1, <1>3
  <1>11. /\ f.op = "getIntFuncAddr" => at'[t] = 0
         /\ f.op = "compileToFunc" => at'[t] = f.n
         /\ f.op \notin {"getIntFuncAddr", "compileToFunc"} => at'[t] = at[t]
    BY <1>1, <1>3
  <1>12. f.n \in Nat /\ (f.op = "compileToFunc" => f.n > 0)
    <2>1. ScopeInv(f) /\ f \in Frames
      BY <1>3 DEF ClassesInv, Inv, ThreadInv
    <2>2. f.n \in Nat
      BY <2>1 DEF Frames
    <2>3. f.op = "compileToFunc" => f.n # 0
      BY <2>1 DEF ScopeInv
    <2> QED
      BY <2>2, <2>3
  <1>13. f.op = "initialize" => initialised
    BY <1>1, <1>5 DEF JobInv, JobOK
  <1>14. NoAddress \notin Nat
    BY DEF NoAddress
  <1>15. k + 1 > InitAt(j.class) \/ f.op # "initialize"
    BY <1>7, <1>8 DEF InitAt
  <1>16. job'[t].next = k + 1
    <2>1. job[t].next \in 0 .. 11
      BY <1>7
    <2>2. job'[t] = [class |-> job[t].class, next |-> job[t].next + 1]
      BY <1>1, <1>6, <2>1, NextJob
    <2> QED
      BY <2>2
  <1>17. /\ job' \in [Threads -> Jobs]
         /\ job'[t] = [class |-> j.class, next |-> k + 1]
         /\ \A u \in Threads \ {t} : job'[u] = job[u]
         /\ \A c \in Classes : InitialiserInv(c)'
         /\ RegisterInv'
    BY <1>1, <1>6, <1>9, <1>15, <1>16, NextStepKeeps
  <1>18. job'[t].class = j.class
    BY <1>17
  <1>19. at' \in [Threads -> {NoAddress} \cup Nat]
    <2>1. at'[t] \in {NoAddress} \cup Nat
      BY <1>3, <1>11, <1>12
    <2> QED
      BY <1>1, <1>3, <1>9, <2>1
  <1>20. TypesInv'
    BY <1>1, <1>17, <1>19 DEF ClassesInv, TypesInv
  <1>21. handles \subseteq handles'
    BY <1>1
  <1> HIDE DEF j, k, f
  <1>22. JobInv(t)'
    <2>1. JobOK(j, f, at[t], initialised, handles)
      BY <1>5 DEF JobInv, j, f
    <2>2. k + 1 > InitAt(j.class) => initialised
      BY <1>7, <1>8, <1>13, <2>1 DEF JobOK, InitAt, k, j
    <2>3. at'[t] \in {NoAddress, 0} \cup handles'
      BY <1>1, <1>11, <1>21, <2>1 DEF JobOK, f
    <2>4. Selected(job'[t]) => at'[t] = 0
      <3> SUFFICES ASSUME Selected(job'[t]) PROVE at'[t] = 0
        OBVIOUS
      <3>1. j.class = "IntAddJVMCITest" /\ k + 1 \in 3 .. 8
        BY <1>16, <1>18 DEF Selected
      <3>2. CASE k = 2
        BY <1>8, <1>11, <3>1, <3>2
      <3>3. CASE k # 2
        <4>1. Selected(j) /\ f.op \notin {"getIntFuncAddr", "compileToFunc"}
          BY <1>7, <1>8, <3>1, <3>3 DEF Selected, j, k
        <4> QED
          BY <1>11, <2>1, <4>1 DEF JobOK
      <3> QED
        BY <3>2, <3>3
    <2>5. Compiled(job'[t]) => f.op = "compileToFunc"
      BY <1>7, <1>8, <1>16, <1>18 DEF Compiled
    <2>6. Compiled(job'[t]) => at'[t] \in handles'
      BY <1>1, <1>11, <2>5 DEF f
    <2>7. job'[t].next <= Len(StaticInit[job'[t].class]) + 1
      BY <1>6, <1>16, <1>18, InjectionFacts DEF j, k
    <2>8. InJava.op = "none"
      BY JavaFrame
    <2>9. JobOK(job'[t], InJava, at'[t], initialised, handles')
      BY <1>16, <1>18, <2>2, <2>3, <2>4, <2>6, <2>7, <2>8 DEF JobOK
    <2> QED
      BY <1>1, <1>10, <2>9 DEF JobInv
  <1>23. ASSUME NEW u \in Threads \ {t}
         PROVE  JobInv(u)'
    <2>1. JobOK(job[u], frame[u], at[u], initialised, handles')
      BY <1>21, Monotone DEF ClassesInv, JobInv
    <2> QED
      BY <1>1, <1>9, <1>17, <2>1 DEF JobInv
  <1>24. CodeInv'
    <2>1. ASSUME NEW u \in Threads, NEW c \in Classes, NEW i \in Injections(c),
                 Initialises(u, c)', i < job'[u].next
          PROVE  Initialises(u, c) /\ i < job[u].next
      <3>1. CASE u = t
        <4>1. c = j.class /\ i # k /\ i < k + 1
          BY <1>8, <1>16, <1>18, <2>1, <3>1 DEF Initialises
        <4>2. i \in Nat
          BY InjectionFacts
        <4> QED
          BY <1>7, <3>1, <4>1, <4>2 DEF Initialises, j, k
      <3>2. CASE u # t
        BY <1>17, <2>1, <3>2 DEF Initialises
      <3> QED
        BY <3>1, <3>2
    <2> QED
      BY <1>1, <1>21, <2>1 DEF ClassesInv, CodeInv
  <1>25. OwnInv'
    <2>1. Compiled(job'[t]) => f.op = "compileToFunc" /\ at'[t] = f.n
      BY <1>7, <1>8, <1>11, <1>16, <1>18 DEF Compiled
    <2>2. f.n \notin handles
      BY DEF ClassesInv, Inv, NumberInv, f
    <2>3. ASSUME NEW u \in Threads \ {t}, Compiled(job'[u])
          PROVE  at'[u] = at[u] /\ Compiled(job[u]) /\ at[u] \in handles
      <3>1. at'[u] = at[u] /\ Compiled(job[u])
        BY <1>9, <1>17, <2>3
      <3> QED
        BY <3>1 DEF ClassesInv, JobInv, JobOK
    <2>4. ASSUME NEW c \in Classes, NEW i \in Injections(c),
                 f.op = "compileToFunc"
          PROVE  code[c][i] # f.n
      BY <1>12, <1>14, <2>2, <2>4 DEF ClassesInv, CodeInv
    <2>5. \A c, d \in Classes : \A i \in Injections(c), m \in Injections(d) :
            code'[c][i] > 0 /\ code'[c][i] = code'[d][m] => c = d /\ i = m
      BY <1>1 DEF ClassesInv, OwnInv
    <2>6. ASSUME NEW u \in Threads, Compiled(job'[u]),
                 NEW c \in Classes, NEW i \in Injections(c)
          PROVE  code'[c][i] # at'[u]
      <3>1. CASE u = t
        BY <1>1, <2>1, <2>4, <2>6, <3>1
      <3>2. CASE u # t
        BY <1>1, <2>3, <2>6, <3>2 DEF ClassesInv, OwnInv
      <3> QED
        BY <3>1, <3>2
    <2>7. ASSUME NEW u \in Threads, NEW v \in Threads,
                 Compiled(job'[u]), Compiled(job'[v]), at'[u] = at'[v]
          PROVE  u = v
      <3>1. CASE u # t /\ v # t
        BY <2>3, <2>7, <3>1 DEF ClassesInv, OwnInv
      <3>2. CASE u = t \/ v = t
        BY <2>1, <2>2, <2>3, <2>7, <3>2
      <3> QED
        BY <3>1, <3>2
    <2> QED
      BY <2>5, <2>6, <2>7 DEF OwnInv
  <1>26. NeverCrashes'
    BY <1>1 DEF ClassesInv, NeverCrashes
  <1> QED
    BY <1>2, <1>17, <1>20, <1>22, <1>23, <1>24, <1>25, <1>26 DEF ClassesInv

LEMMA InjectStep ==
  ASSUME ClassesInv, NEW t \in Threads, Inject(t)
  PROVE  ClassesInv'
  <1> DEFINE j == job[t]
             k == job[t].next
             b == job[t].class
  <1>1. /\ Doing(t, "inject") /\ NextStep(t)
        /\ code' = [code EXCEPT ![b][k] = at[t]]
        /\ UNCHANGED << vars, api, class, at, uses >>
    BY DEF Inject
  <1>2. UNCHANGED << process, initialised, frame, handles >>
    BY <1>1 DEF vars, javaVars
  <1>3. Inv'
    BY <1>1, Stutter DEF ClassesInv
  <1>4. /\ frame[t] = InJava
        /\ j \in [class : Classes, next : 0 .. 12] /\ b \in Classes
        /\ k \in 1 .. Len(StaticInit[b]) /\ k \in 1 .. 11
        /\ StaticInit[b][k] = "inject"
        /\ JobInv(t)
    BY <1>1, AtStep
  <1>5. /\ job' \in [Threads -> Jobs]
        /\ job'[t] = [class |-> b, next |-> k + 1]
        /\ \A u \in Threads \ {t} : job'[u] = job[u]
        /\ \A c \in Classes : InitialiserInv(c)'
        /\ RegisterInv'
    BY <1>1, <1>2, <1>4, NextStepKeeps
  <1>6. job'[t].class = b /\ job'[t].next = k + 1
    BY <1>5
  <1>7. /\ b = "IntAddJVMCITest" => k \in {4, 11}
        /\ b = "CodegenTest" => k \in {6, 10}
        /\ k # InitAt(b)
        /\ k \in Injections(b)
    BY <1>4, Positions, InjectionFacts
  <1>8. JobOK(j, InJava, at[t], initialised, handles)
    BY <1>4 DEF JobInv
  <1>9. Selected(j) \/ Compiled(j)
    BY <1>4, <1>7, ClassFacts DEF Selected, Compiled
  <1>10. at[t] # NoAddress /\ (at[t] = 0 \/ Compiled(j))
    BY <1>8, <1>9, Handles DEF JobOK, NoAddress
  <1>11. ~Compiled(job'[t])
    BY <1>4, <1>6, <1>7 DEF Compiled
  <1>12. code = [c \in Classes |-> [i \in Injections(c) |-> code[c][i]]]
    BY DEF ClassesInv, TypesInv
  <1>13. code'[b][k] = at[t]
    BY <1>1, <1>4, <1>7, <1>12
  <1>14. \A c \in Classes : \A i \in Injections(c) :
           (c = b /\ i = k) \/ code'[c][i] = code[c][i]
    BY <1>1, <1>4, <1>12
  <1>15. code' = [c \in Classes |-> [i \in Injections(c) |-> code'[c][i]]]
    BY <1>1, <1>4, <1>7, <1>12
  <1> HIDE DEF j, k, b
  <1>16. TypesInv'
    BY <1>1, <1>5, <1>15 DEF ClassesInv, TypesInv
  <1>17. JobInv(t)'
    <2>1. k + 1 > InitAt(b) => initialised
      BY <1>4, <1>7, <1>8 DEF JobOK, InitAt, j, k, b
    <2>2. Selected(job'[t]) => Selected(j)
      BY <1>4, <1>6, <1>7 DEF Selected, j, k, b
    <2>3. k + 1 <= Len(StaticInit[b]) + 1
      BY <1>4, InjectionFacts
    <2>4. InJava.op = "none"
      BY JavaFrame
    <2>5. JobOK(job'[t], InJava, at[t], initialised, handles)
      BY <1>6, <1>8, <1>11, <2>1, <2>2, <2>3, <2>4 DEF JobOK
    <2> QED
      BY <1>1, <1>2, <1>4, <2>5 DEF JobInv
  <1>18. \A u \in Threads \ {t} : JobInv(u)'
    BY <1>1, <1>2, <1>5 DEF ClassesInv, JobInv
  <1>19. CodeInv'
    <2>1. ASSUME NEW c \in Classes, NEW i \in Injections(c)
          PROVE  /\ code'[c][i] \in {NoAddress, 0} \cup handles
                 /\ class[c] = "ready" => code'[c][i] # NoAddress
      <3>1. at[t] \in {NoAddress, 0} \cup handles
        BY <1>8 DEF JobOK
      <3> QED
        BY <1>10, <1>13, <1>14, <3>1 DEF ClassesInv, CodeInv
    <2>2. ASSUME NEW u \in Threads, NEW c \in Classes, NEW i \in Injections(c),
                 Initialises(u, c)', i < job'[u].next
          PROVE  code'[c][i] # NoAddress
      <3>1. CASE c = b /\ i = k
        BY <1>10, <1>13, <3>1
      <3>2. CASE ~(c = b /\ i = k)
        <4>1. Initialises(u, c) /\ i < job[u].next
          <5>1. CASE u = t
            <6>1. c = b /\ i # k /\ i < k + 1
              BY <1>6, <2>2, <3>2, <5>1 DEF Initialises
            <6>2. i \in Nat
              BY InjectionFacts
            <6> QED
              BY <1>4, <5>1, <6>1, <6>2 DEF Initialises, b, k
          <5>2. CASE u # t
            BY <1>5, <2>2, <5>2 DEF Initialises
          <5> QED
            BY <5>1, <5>2
        <4> QED
          BY <1>14, <3>2, <4>1 DEF ClassesInv, CodeInv
      <3> QED
        BY <3>1, <3>2
    <2> QED
      BY <1>1, <1>2, <2>1, <2>2 DEF CodeInv
  <1>20. OwnInv'
    <2>1. ASSUME NEW c \in Classes, NEW d \in Classes, NEW i \in Injections(c),
                 NEW m \in Injections(d),
                 code'[c][i] > 0, code'[c][i] = code'[d][m]
          PROVE  c = d /\ i = m
      <3>1. CASE c = b /\ i = k /\ ~(d = b /\ m = k)
        <4>1. at[t] > 0 /\ code[d][m] = at[t]
          BY <1>13, <1>14, <2>1, <3>1
        <4>2. Compiled(job[t])
          BY <1>10, <4>1 DEF j
        <4> QED
          BY <4>1, <4>2 DEF ClassesInv, OwnInv
      <3>2. CASE d = b /\ m = k /\ ~(c = b /\ i = k)
        <4>1. at[t] > 0 /\ code[c][i] = at[t]
          BY <1>13, <1>14, <2>1, <3>2
        <4>2. Compiled(job[t])
          BY <1>10, <4>1 DEF j
        <4> QED
          BY <4>1, <4>2 DEF ClassesInv, OwnInv
      <3>3. CASE ~(c = b /\ i = k) /\ ~(d = b /\ m = k)
        <4>1. code'[c][i] = code[c][i] /\ code'[d][m] = code[d][m]
          BY <1>14, <3>3
        <4> QED
          BY <2>1, <4>1 DEF ClassesInv, OwnInv
      <3> QED
        BY <3>1, <3>2, <3>3
    <2>2. ASSUME NEW u \in Threads, Compiled(job'[u])
          PROVE  /\ u # t /\ Compiled(job[u])
                 /\ at'[u] = at[u] /\ at[u] \in handles
      <3>1. u # t /\ Compiled(job[u]) /\ at'[u] = at[u]
        BY <1>1, <1>5, <1>11, <2>2
      <3> QED
        BY <3>1 DEF ClassesInv, JobInv, JobOK
    <2>3. ASSUME NEW u \in Threads, Compiled(job'[u]),
                 NEW c \in Classes, NEW i \in Injections(c)
          PROVE  code'[c][i] # at'[u]
      <3>1. CASE c = b /\ i = k
        <4>1. code'[c][i] = at[t] /\ at'[u] = at[u] /\ at[u] \in handles
          BY <1>13, <2>2, <2>3, <3>1
        <4>2. CASE at[t] = 0
          BY <4>1, <4>2, Handles
        <4>3. CASE Compiled(j)
          BY <2>2, <2>3, <4>1, <4>3 DEF ClassesInv, OwnInv, j
        <4> QED
          BY <1>10, <4>2, <4>3
      <3>2. CASE ~(c = b /\ i = k)
        BY <1>14, <2>2, <2>3, <3>2 DEF ClassesInv, OwnInv
      <3> QED
        BY <3>1, <3>2
    <2>4. \A u, v \in Threads :
            Compiled(job'[u]) /\ Compiled(job'[v]) /\ at'[u] = at'[v] => u = v
      BY <2>2 DEF ClassesInv, OwnInv
    <2> QED
      BY <2>1, <2>3, <2>4 DEF OwnInv
  <1>21. NeverCrashes'
    BY <1>1, <1>2 DEF ClassesInv, NeverCrashes
  <1> QED
    BY <1>3, <1>5, <1>16, <1>17, <1>18, <1>19, <1>20, <1>21 DEF ClassesInv

-----------------------------------------------------------------------------
(* An initialiser begins, ends or fails, and a class is used.              *)

(* A thread gets a job that is not past the first step of an initialiser.  *)
LEMMA JobChanges ==
  ASSUME ClassesInv, Inv', NEW t \in Threads, NEW n \in Jobs,
         frame[t] = InJava, job' = [job EXCEPT ![t] = n],
         n.next \in 0 .. 1,
         UNCHANGED << process, initialised, frame, handles, api, at, code >>
  PROVE  /\ job' \in [Threads -> Jobs]
         /\ job'[t] = n
         /\ \A u \in Threads \ {t} : job'[u] = job[u]
         /\ \A u \in Threads : JobInv(u)'
         /\ OwnInv'
  <1>1. job \in [Threads -> Jobs]
    BY DEF ClassesInv, TypesInv
  <1>2. /\ job' \in [Threads -> Jobs]
        /\ job'[t] = n
        /\ \A u \in Threads \ {t} : job'[u] = job[u]
    BY <1>1
  <1>3. ~Compiled(n) /\ ~Selected(n) /\ ~(n.next > InitAt(n.class))
    BY DEF Compiled, Selected, InitAt
  <1>4. n # NoJob => n.next <= Len(StaticInit[n.class]) + 1
    BY InjectionFacts DEF Jobs
  <1>5. JobInv(t)'
    <2>1. JobOK(job[t], InJava, at[t], initialised, handles)
      BY DEF ClassesInv, JobInv
    <2>2. InJava.op = "none"
      BY JavaFrame
    <2>3. JobOK(n, InJava, at[t], initialised, handles)
      BY <1>3, <1>4, <2>1, <2>2 DEF JobOK
    <2> QED
      BY <1>2, <2>3 DEF JobInv
  <1>6. \A u \in Threads \ {t} : JobInv(u)'
    BY <1>2 DEF ClassesInv, JobInv
  <1>7. \A u \in Threads : Compiled(job'[u]) => u # t /\ Compiled(job[u])
    BY <1>2, <1>3
  <1>8. OwnInv'
    BY <1>7 DEF ClassesInv, OwnInv
  <1> QED
    BY <1>2, <1>5, <1>6, <1>8

(* A thread that initialises nothing gets another job of that kind.        *)
LEMMA IdleJob ==
  ASSUME ClassesInv, Inv', NEW t \in Threads, NEW n \in Jobs,
         frame[t] = InJava, job' = [job EXCEPT ![t] = n],
         job[t].next = 0, n.next = 0,
         UNCHANGED << process, initialised, frame, handles, api, class, at,
                      code >>
  PROVE  ClassesInv'
  <1>1. /\ job' \in [Threads -> Jobs]
        /\ job'[t] = n
        /\ \A u \in Threads \ {t} : job'[u] = job[u]
        /\ \A u \in Threads : JobInv(u)'
        /\ OwnInv'
    <2>1. n.next \in 0 .. 1
      OBVIOUS
    <2>2. UNCHANGED << process, initialised, frame, handles, api, at, code >>
      OBVIOUS
    <2> QED
      BY <2>1, <2>2, JobChanges
  <1>2. \A u \in Threads, c \in Classes :
          Initialises(u, c)' <=> Initialises(u, c)
    BY <1>1 DEF Initialises
  <1>3. \A c \in Classes : InitialiserInv(c)'
    BY <1>2 DEF ClassesInv, InitialiserInv
  <1>4. \A u \in Threads, c \in Classes :
          Initialises(u, c) => u # t /\ job'[u] = job[u]
    BY <1>1 DEF Initialises
  <1>5. RegisterInv'
    <2>1. \A u \in Threads, c \in Classes :
            Initialises(u, c) /\ Registered(u) => Registered(u)'
      BY <1>4 DEF Registered
    <2> QED
      BY <1>2, <2>1 DEF ClassesInv, RegisterInv
  <1>6. CodeInv'
    BY <1>2, <1>4 DEF ClassesInv, CodeInv
  <1>7. TypesInv' /\ NeverCrashes'
    BY <1>1 DEF ClassesInv, TypesInv, NeverCrashes
  <1> QED
    BY <1>1, <1>3, <1>5, <1>6, <1>7 DEF ClassesInv

LEMMA RequestStep ==
  ASSUME ClassesInv, NEW t \in Threads, NEW c \in Classes, Request(t, c)
  PROVE  ClassesInv'
  <1> DEFINE n == [class |-> c, next |-> 0]
  <1>1. /\ frame[t] = InJava /\ job[t] = NoJob
        /\ job' = [job EXCEPT ![t] = n]
        /\ UNCHANGED << vars, api, class, at, code >>
    BY DEF Request, Free
  <1>2. Inv'
    BY <1>1, Stutter DEF ClassesInv
  <1>3. n \in Jobs /\ n.next = 0
    BY DEF Jobs
  <1>4. job[t].next = 0
    BY <1>1, ClassFacts
  <1>5. UNCHANGED << process, initialised, frame, handles, api, class, at,
                     code >>
    BY <1>1 DEF vars, javaVars
  <1> HIDE DEF n
  <1> QED
    BY <1>1, <1>2, <1>3, <1>4, <1>5, IdleJob

LEMMA EndOfUse ==
  ASSUME ClassesInv, NEW t \in Threads, RunMethod(t) \/ RefuseClass(t)
  PROVE  ClassesInv'
  <1>1. /\ frame[t] = InJava /\ job[t].next = 0
        /\ job' = [job EXCEPT ![t] = NoJob]
        /\ UNCHANGED << api, class, at, code >>
    BY DEF RunMethod, RefuseClass, Free
  <1>2. UNCHANGED vars
    BY CallFunctionStep DEF RunMethod, RefuseClass, ClassesInv
  <1>3. Inv'
    BY <1>2, Stutter DEF ClassesInv
  <1>4. NoJob \in Jobs /\ NoJob.next = 0
    BY ClassFacts DEF Jobs
  <1>5. UNCHANGED << process, initialised, frame, handles, api, class, at,
                     code >>
    BY <1>1, <1>2 DEF vars, javaVars
  <1> QED
    BY <1>1, <1>3, <1>4, <1>5, IdleJob

LEMMA BeginInitStep ==
  ASSUME ClassesInv, NEW t \in Threads, BeginInit(t)
  PROVE  ClassesInv'
  <1>1. job[t] # NoJob /\ job \in [Threads -> Jobs]
    BY DEF BeginInit, ClassesInv, TypesInv
  <1>2. job[t] \in [class : Classes, next : 0 .. 12]
    BY <1>1 DEF Jobs
  <1>3. PICK b \in Classes : b = job[t].class
    BY <1>2
  <1> DEFINE n == [class |-> b, next |-> 1]
  <1>4. /\ process = "running" /\ frame[t] = InJava
        /\ job[t] # NoJob /\ job[t].next = 0
        /\ class[b] = "uninitialised"
        /\ class' = [class EXCEPT ![b] = "initialising"]
        /\ NextStep(t)
        /\ UNCHANGED << vars, api, at, code, uses >>
    BY <1>3 DEF BeginInit, Free
  <1>5. Inv'
    BY <1>4, Stutter DEF ClassesInv
  <1>6. /\ job \in [Threads -> Jobs] /\ class \in [Classes -> States]
        /\ job[t] \in [class : Classes, next : 0 .. 12] /\ b \in Classes
    BY <1>2, <1>3 DEF ClassesInv, TypesInv
  <1>7. job' = [job EXCEPT ![t] = n]
    <2>1. job[t].next + 1 = 1
      BY <1>4
    <2>2. [job[t] EXCEPT !.next = job[t].next + 1] = n
      BY <1>3, <1>6, <2>1
    <2> QED
      BY <1>4, <2>2 DEF NextStep
  <1>8. UNCHANGED << process, initialised, frame, handles, api, at, code >>
    BY <1>4 DEF vars, javaVars
  <1>9. n \in Jobs /\ n.next \in 0 .. 1 /\ n.next = 1 /\ n.class = b
    BY DEF Jobs
  <1> HIDE DEF n
  <1>10. /\ job' \in [Threads -> Jobs]
         /\ job'[t] = n
         /\ \A u \in Threads \ {t} : job'[u] = job[u]
         /\ \A u \in Threads : JobInv(u)'
         /\ OwnInv'
    BY <1>4, <1>5, <1>7, <1>8, <1>9, JobChanges
  <1>11. class' \in [Classes -> States] /\ class'[b] = "initialising"
    BY <1>4, <1>6 DEF States
  <1>12. \A c \in Classes \ {b} : class'[c] = class[c]
    BY <1>4, <1>6
  <1>13. \A u \in Threads, c \in Classes :
           Initialises(u, c) => u # t /\ job'[u] = job[u]
    BY <1>4, <1>10 DEF Initialises
  <1>14. \A u \in Threads : Initialises(u, b)' <=> u = t
    <2>1. \A u \in Threads : ~Initialises(u, b)
      BY <1>4, <1>6 DEF ClassesInv, InitialiserInv
    <2>2. Initialises(t, b)'
      BY <1>9, <1>10 DEF Initialises
    <2> QED
      BY <1>10, <2>1, <2>2 DEF Initialises
  <1>15. \A u \in Threads, c \in Classes \ {b} :
           Initialises(u, c)' <=> Initialises(u, c)
    BY <1>4, <1>9, <1>10 DEF Initialises
  <1>16. ASSUME NEW c \in Classes
         PROVE  InitialiserInv(c)'
    <2>1. CASE c = b
      BY <1>11, <1>14, <2>1 DEF InitialiserInv
    <2>2. CASE c # b
      BY <1>12, <1>15, <2>2 DEF ClassesInv, InitialiserInv
    <2> QED
      BY <2>1, <2>2
  <1>17. RegisterInv'
    <2>1. ASSUME NEW u \in Threads, NEW c \in Classes,
                 Initialises(u, c), Registered(u)
          PROVE  Initialises(u, c)' /\ Registered(u)'
      BY <1>8, <1>13, <2>1 DEF Initialises, Registered
    <2>2. ASSUME NEW c \in Classes, class[c] \in {"ready", "erroneous"}
          PROVE  class'[c] = class[c]
      BY <1>4, <1>12, <2>2
    <2> QED
      BY <1>8, <2>1, <2>2 DEF ClassesInv, RegisterInv
  <1>18. CodeInv'
    <2>1. ASSUME NEW c \in Classes, class'[c] = "ready"
          PROVE  class[c] = "ready"
      BY <1>11, <1>12, <2>1
    <2>2. ASSUME NEW u \in Threads, NEW c \in Classes, NEW i \in Injections(c),
                 Initialises(u, c)', i < job'[u].next
          PROVE  Initialises(u, c) /\ i < job[u].next
      <3>1. CASE u = t
        <4>1. i \in Nat /\ i > 0
          BY InjectionFacts
        <4> QED
          BY <1>9, <1>10, <2>2, <3>1, <4>1
      <3>2. CASE u # t
        BY <1>10, <2>2, <3>2 DEF Initialises
      <3> QED
        BY <3>1, <3>2
    <2> QED
      BY <1>8, <2>1, <2>2 DEF ClassesInv, CodeInv
  <1>19. TypesInv'
    BY <1>8, <1>10, <1>11 DEF ClassesInv, TypesInv
  <1>20. NeverCrashes'
    BY <1>4, <1>8 DEF NeverCrashes
  <1> QED
    BY <1>5, <1>10, <1>16, <1>17, <1>18, <1>19, <1>20 DEF ClassesInv

(* The initialiser of t ends, with or without an error.                    *)
LEMMA InitEnds ==
  ASSUME ClassesInv, NEW t \in Threads, NEW n \in Jobs,
         process = "running", frame[t] = InJava, job[t].next > 0,
         n.next = 0, job' = [job EXCEPT ![t] = n],
         NEW state \in {"ready", "erroneous"},
         class' = [class EXCEPT ![job[t].class] = state],
         state = "ready" => job[t].next > Len(StaticInit[job[t].class]),
         UNCHANGED << vars, at, code >>, api' = api
  PROVE  ClassesInv'
  <1> DEFINE b == job[t].class
  <1>1. Inv'
    BY Stutter DEF ClassesInv
  <1>2. UNCHANGED << process, initialised, frame, handles, api, at, code >>
    BY DEF vars, javaVars
  <1>3. /\ b \in Classes /\ class[b] = "initialising"
        /\ \A u \in Threads : Initialises(u, b) <=> u = t
        /\ job[t] \in [class : Classes, next : 0 .. 12]
    BY InInitialiser
  <1>4. n.next \in 0 .. 1
    OBVIOUS
  <1>5. /\ job' \in [Threads -> Jobs]
        /\ job'[t] = n
        /\ \A u \in Threads \ {t} : job'[u] = job[u]
        /\ \A u \in Threads : JobInv(u)'
        /\ OwnInv'
    BY <1>1, <1>2, <1>4, JobChanges
  <1>6. class \in [Classes -> States]
    BY DEF ClassesInv, TypesInv
  <1>7. /\ class' \in [Classes -> States] /\ class'[b] = state
        /\ \A c \in Classes \ {b} : class'[c] = class[c]
    BY <1>3, <1>6 DEF States
  <1>8. \A u \in Threads, c \in Classes :
          Initialises(u, c)' <=> Initialises(u, c) /\ u # t
    BY <1>5 DEF Initialises
  <1> HIDE DEF b
  <1>9. ASSUME NEW c \in Classes
        PROVE  InitialiserInv(c)'
    <2>1. CASE c = b
      BY <1>3, <1>7, <1>8, <2>1 DEF InitialiserInv
    <2>2. CASE c # b
      <3>1. ~Initialises(t, c)
        BY <2>2 DEF Initialises, b
      <3> QED
        BY <1>7, <1>8, <2>2, <3>1 DEF ClassesInv, InitialiserInv
    <2> QED
      BY <2>1, <2>2
  <1>10. RegisterInv'
    <2> SUFFICES ASSUME initialised'
                 PROVE  \E c \in Classes :
                          \/ class'[c] \in {"ready", "erroneous"}
                          \/ \E u \in Threads :
                               Initialises(u, c)' /\ Registered(u)'
      BY DEF RegisterInv
    <2> QED
      BY <1>3, <1>7
  <1>11. CodeInv'
    <2>1. ASSUME NEW c \in Classes, NEW i \in Injections(c), class'[c] = "ready"
          PROVE  code[c][i] # NoAddress
      <3>1. CASE c = b
        <4>1. i < job[t].next /\ Initialises(t, c)
          <5>1. i \in 1 .. Len(StaticInit[b]) /\ Len(StaticInit[b]) \in 10 .. 11
            BY <1>3, <3>1, InjectionFacts
          <5>2. state = "ready" /\ job[t].next > Len(StaticInit[b])
            BY <1>7, <2>1, <3>1 DEF b
          <5> QED
            BY <1>3, <3>1, <5>1, <5>2
        <4> QED
          BY <4>1 DEF ClassesInv, CodeInv
      <3>2. CASE c # b
        BY <1>7, <2>1, <3>2 DEF ClassesInv, CodeInv
      <3> QED
        BY <3>1, <3>2
    <2>2. ASSUME NEW u \in Threads, NEW c \in Classes, Initialises(u, c)'
          PROVE  Initialises(u, c) /\ job'[u] = job[u]
      BY <1>5, <1>8, <2>2
    <2> QED
      BY <1>2, <2>1, <2>2 DEF ClassesInv, CodeInv
  <1>12. TypesInv'
    BY <1>2, <1>5, <1>7 DEF ClassesInv, TypesInv
  <1>13. NeverCrashes'
    BY <1>2 DEF NeverCrashes
  <1> QED
    BY <1>1, <1>5, <1>9, <1>10, <1>11, <1>12, <1>13 DEF ClassesInv

LEMMA InitErrorStep ==
  ASSUME ClassesInv, NEW t \in Threads, NEW step, Doing(t, step), InitError(t),
         UNCHANGED << vars, api, at, code >>
  PROVE  ClassesInv'
  <1>1. process = "running" /\ frame[t] = InJava /\ job[t].next > 0
    BY AtStep
  <1>2. NoJob \in Jobs /\ NoJob.next = 0
    BY ClassFacts DEF Jobs
  <1>3. /\ job' = [job EXCEPT ![t] = NoJob]
        /\ class' = [class EXCEPT ![job[t].class] = "erroneous"]
    BY DEF InitError
  <1> QED
    BY <1>1, <1>2, <1>3, InitEnds

LEMMA EndInitStep ==
  ASSUME ClassesInv, NEW t \in Threads, EndInit(t)
  PROVE  ClassesInv'
  <1> DEFINE n == [class |-> job[t].class, next |-> 0]
  <1>1. /\ process = "running" /\ frame[t] = InJava /\ job[t] # NoJob
        /\ job[t].next > Len(StaticInit[job[t].class])
        /\ class' = [class EXCEPT ![job[t].class] = "ready"]
        /\ job' = [job EXCEPT ![t].next = 0]
        /\ UNCHANGED << vars, api, at, code, uses >>
    BY DEF EndInit, Free
  <1>2. /\ job \in [Threads -> Jobs]
        /\ job[t] \in [class : Classes, next : 0 .. 12]
    BY <1>1 DEF ClassesInv, TypesInv, Jobs
  <1>3. job[t].next > 0
    BY <1>1, <1>2, InjectionFacts
  <1>4. n \in Jobs /\ n.next = 0
    BY <1>2 DEF Jobs
  <1>5. job' = [job EXCEPT ![t] = n]
    <2>1. [job[t] EXCEPT !.next = 0] = n
      BY <1>2
    <2> QED
      BY <1>1, <2>1
  <1> HIDE DEF n
  <1> QED
    BY <1>1, <1>3, <1>4, <1>5, InitEnds

LEMMA LoadStep ==
  ASSUME ClassesInv, NEW t \in Threads, Load(t)
  PROVE  ClassesInv'
  <1>1. Doing(t, "load") /\ UNCHANGED << vars, at, code, uses >>
    BY DEF Load
  <1>2. CASE api' = TRUE /\ NextStep(t) /\ UNCHANGED class
    <2>1. Inv'
      BY <1>1, Stutter DEF ClassesInv
    <2>2. UNCHANGED << process, initialised, frame, handles, class, at, code >>
      BY <1>1, <1>2 DEF vars, javaVars
    <2>3. api' \in BOOLEAN
      BY <1>2
    <2> QED
      BY <1>1, <1>2, <2>1, <2>2, <2>3, PlainStepKeeps
  <1>3. CASE ~api /\ InitError(t) /\ UNCHANGED api
    BY <1>1, <1>3, InitErrorStep
  <1> QED
    BY <1>2, <1>3 DEF Load

LEMMA ExitStep ==
  ASSUME ClassesInv, NEW t \in Threads, ThrowInInit(t)
  PROVE  ClassesInv'
  <1>1. /\ process = "running" /\ process' = "exited"
        /\ UNCHANGED << initialised, frame, live, vmVars, javaVars >>
        /\ UNCHANGED << class, job, api, at, code >>
    BY DEF ThrowInInit, Exit, Doing, Free
  <1> USE DEF vmVars, javaVars
  <1>2. TypeInv'
    BY <1>1 DEF ClassesInv, Inv, TypeInv, Processes
  <1>3. \A u \in Threads : ThreadInv(u)'
    BY <1>1 DEF ClassesInv, Inv, ThreadInv
  <1>4. NumberInv' /\ HandleInv'
    BY <1>1 DEF ClassesInv, Inv, NumberInv, HandleInv
  <1>5. OnlyHandlesOutlive'
    BY <1>1 DEF ClassesInv, Inv, OnlyHandlesOutlive
  <1>6. Inv'
    BY <1>2, <1>3, <1>4, <1>5 DEF Inv
  <1>7. TypesInv' /\ \A u \in Threads : JobInv(u)'
    BY <1>1 DEF ClassesInv, TypesInv, JobInv
  <1>8. \A c \in Classes : InitialiserInv(c)'
    BY <1>1 DEF ClassesInv, InitialiserInv, Initialises
  <1>9. RegisterInv'
    BY <1>1 DEF ClassesInv, RegisterInv, Initialises, Registered
  <1>10. CodeInv' /\ OwnInv'
    BY <1>1 DEF ClassesInv, CodeInv, OwnInv, Initialises
  <1>11. NeverCrashes'
    BY <1>1 DEF NeverCrashes
  <1> QED
    BY <1>6, <1>7, <1>8, <1>9, <1>10, <1>11 DEF ClassesInv

-----------------------------------------------------------------------------

LEMMA InitClassesInv == InitClasses => ClassesInv
  <1> SUFFICES ASSUME InitClasses PROVE ClassesInv
    OBVIOUS
  <1>1. /\ Init /\ api = FALSE
        /\ class = [c \in Classes |-> "uninitialised"]
        /\ job   = [t \in Threads |-> NoJob]
        /\ at    = [t \in Threads |-> NoAddress]
        /\ code  = [c \in Classes |-> [i \in Injections(c) |-> NoAddress]]
    BY DEF InitClasses
  <1>2. /\ process = "running" /\ initialised = FALSE /\ handles = {}
        /\ frame = [t \in Threads |-> InJava]
    BY <1>1 DEF Init
  <1>3. Inv
    BY <1>1, InitInv
  <1>4. /\ NoJob.next = 0 /\ NoJob.class = "none" /\ NoJob \in Jobs
        /\ InJava.op = "none"
    BY JavaFrame DEF NoJob, Jobs
  <1>5. TypesInv
    BY <1>1, <1>4 DEF TypesInv, States
  <1>6. ASSUME NEW t \in Threads
        PROVE  JobInv(t)
    <2>1. job[t] = NoJob /\ frame[t] = InJava /\ at[t] = NoAddress
      BY <1>1, <1>2
    <2>2. ~Selected(NoJob) /\ ~Compiled(NoJob) /\ ~(0 > InitAt(NoJob.class))
      BY <1>4 DEF Selected, Compiled, InitAt
    <2> QED
      BY <1>4, <2>1, <2>2 DEF JobInv, JobOK
  <1>7. \A t \in Threads, c \in Classes : ~Initialises(t, c)
    BY <1>1, <1>4 DEF Initialises
  <1>8. \A c \in Classes : InitialiserInv(c)
    BY <1>1, <1>7 DEF InitialiserInv
  <1>9. RegisterInv /\ NeverCrashes
    BY <1>2 DEF RegisterInv, NeverCrashes
  <1>10. CodeInv
    BY <1>1, <1>7 DEF CodeInv
  <1>11. OwnInv
    <2>1. ~(NoAddress > 0)
      BY DEF NoAddress
    <2>2. \A t \in Threads : ~Compiled(job[t])
      BY <1>1, <1>4 DEF Compiled
    <2> QED
      BY <1>1, <2>1, <2>2 DEF OwnInv
  <1> QED
    BY <1>3, <1>5, <1>6, <1>8, <1>9, <1>10, <1>11 DEF ClassesInv

LEMMA NextClassesInv == ClassesInv /\ [NextClasses]_allVars => ClassesInv'
  <1> SUFFICES ASSUME ClassesInv, [NextClasses]_allVars PROVE ClassesInv'
    OBVIOUS
  <1>1. CASE UNCHANGED allVars
    <2>1. UNCHANGED vars /\ UNCHANGED classVars
      BY <1>1 DEF allVars
    <2>2. Inv'
      BY <2>1, Stutter DEF ClassesInv
    <2>3. UNCHANGED << process, initialised, frame, handles >>
      BY <2>1 DEF vars, javaVars
    <2>4. /\ TypesInv' /\ CodeInv' /\ OwnInv'
          /\ \A c \in Classes : InitialiserInv(c)'
      BY <2>1, <2>3, ClassesStill
    <2>5. \A t \in Threads : JobInv(t)'
      BY <2>1, <2>3 DEF ClassesInv, JobInv, classVars
    <2>6. RegisterInv'
      BY <2>1, <2>3 DEF ClassesInv, RegisterInv, Registered, Initialises,
                        classVars
    <2>7. NeverCrashes'
      BY <2>1, <2>3 DEF ClassesInv, NeverCrashes, classVars
    <2> QED
      BY <2>2, <2>4, <2>5, <2>6, <2>7 DEF ClassesInv
  <1>2. ASSUME NEW t \in Threads, NEW c \in Classes, Request(t, c)
        PROVE  ClassesInv'
    BY <1>2, RequestStep
  <1>3. ASSUME NEW t \in Threads, Continue(t)
        PROVE  ClassesInv'
    <2>1. CASE ErrorInInit(t)
      BY <2>1, InitErrorStep DEF ErrorInInit
    <2>2. CASE AdvanceNative(t)
      <3>1. [Next]_vars
        BY <2>2 DEF AdvanceNative, Next
      <3>2. Inv'
        BY <3>1, NextInv DEF ClassesInv
      <3> QED
        BY <2>2, <3>2, AdvanceNativeStep
    <2> QED
      BY <1>3, <2>1, <2>2, BeginInitStep, LoadStep, CallNativeStep,
         ReturnToClassStep, TakeAddressStep, PrepareStep, InjectStep, ExitStep,
         EndInitStep, EndOfUse DEF Continue
  <1> QED
    BY <1>1, <1>2, <1>3 DEF NextClasses

(* A class is being initialised exactly while one thread is at a step of   *)
(* its initialiser.                                                        *)
THEOREM ClassesTypeCorrect == SpecClasses => []ClassesTypeOK
  <1>1. ClassesInv => ClassesTypeOK
    <2> SUFFICES ASSUME ClassesInv PROVE ClassesTypeOK
      OBVIOUS
    <2>1. ASSUME NEW c \in Classes
          PROVE  Cardinality({t \in Threads :
                                job[t].class = c /\ job[t].next > 0})
                   = IF class[c] = "initialising" THEN 1 ELSE 0
      <3> DEFINE S == {t \in Threads : job[t].class = c /\ job[t].next > 0}
      <3>1. S = {t \in Threads : Initialises(t, c)}
        BY DEF Initialises
      <3>2. InitialiserInv(c)
        BY DEF ClassesInv
      <3>3. CASE class[c] = "initialising"
        <4>1. PICK t \in Threads :
                \A u \in Threads : Initialises(u, c) <=> u = t
          BY <3>2, <3>3 DEF InitialiserInv
        <4>2. S = {t}
          BY <3>1, <4>1
        <4> QED
          BY <3>3, <4>2, FS_Singleton
      <3>4. CASE class[c] # "initialising"
        <4>1. S = {}
          BY <3>1, <3>2, <3>4 DEF InitialiserInv
        <4> QED
          BY <3>4, <4>1, FS_EmptySet
      <3> QED
        BY <3>3, <3>4
    <2>2. \A t \in Threads : at[t] \in {NoAddress, 0} \cup 1 .. calls
      BY DEF ClassesInv, JobInv, JobOK, Inv, TypeInv
    <2>3. api \in BOOLEAN /\ \A c \in Classes : class[c] \in States
      BY DEF ClassesInv, TypesInv
    <2> QED
      BY <2>1, <2>2, <2>3 DEF ClassesTypeOK, States
  <1> QED
    BY <1>1, InitClassesInv, NextClassesInv, PTL DEF SpecClasses

(* The classes never run into an error path of a native method, whatever   *)
(* threads initialise them; only their own two initialize() may collide.   *)
THEOREM ClassesNeverCrash == SpecClasses => []NeverCrashes
  <1>1. ClassesInv => NeverCrashes
    BY DEF ClassesInv
  <1> QED
    BY <1>1, InitClassesInv, NextClassesInv, PTL DEF SpecClasses

(* Every method of a class that can be used has a function, of its own,    *)
(* whose engine still exists.                                              *)
THEOREM ClassesInjected == SpecClasses => []ReadyIsInjected
  <1>1. ClassesInv => ReadyIsInjected
    <2> SUFFICES ASSUME ClassesInv PROVE ReadyIsInjected
      OBVIOUS
    <2> DEFINE injections == UNION {{<< c, i >> : i \in Injections(c)} :
                                     c \in Classes}
    <2>1. ASSUME NEW p \in injections
          PROVE  \E c \in Classes : \E i \in Injections(c) : p = << c, i >>
      OBVIOUS
    <2>2. process # "undefined"
      BY DEF ClassesInv, NeverCrashes
    <2>3. \A n \in handles : << "engine", n >> \in live
      BY <2>2 DEF ClassesInv, Inv, HandleInv
    <2>4. ASSUME NEW p \in injections, class[p[1]] = "ready"
          PROVE  \/ code[p[1]][p[2]] = 0
                 \/ << "engine", code[p[1]][p[2]] >> \in live
      <3>1. PICK c \in Classes : \E i \in Injections(c) : p = << c, i >>
        BY <2>1
      <3>2. PICK i \in Injections(c) : p = << c, i >>
        BY <3>1
      <3>3. code[c][i] \in {0} \cup handles
        BY <2>4, <3>2 DEF ClassesInv, CodeInv
      <3> QED
        BY <2>3, <3>2, <3>3
    <2>5. ASSUME NEW p \in injections, NEW q \in injections,
                 code[p[1]][p[2]] > 0, code[p[1]][p[2]] = code[q[1]][q[2]]
          PROVE  p = q
      <3>1. PICK c \in Classes : \E i \in Injections(c) : p = << c, i >>
        BY <2>1
      <3>2. PICK i \in Injections(c) : p = << c, i >>
        BY <3>1
      <3>3. PICK d \in Classes : \E m \in Injections(d) : q = << d, m >>
        BY <2>1
      <3>4. PICK m \in Injections(d) : q = << d, m >>
        BY <3>3
      <3>5. c = d /\ i = m
        BY <2>5, <3>2, <3>4 DEF ClassesInv, OwnInv
      <3> QED
        BY <3>2, <3>4, <3>5
    <2> QED
      BY <2>4, <2>5 DEF ReadyIsInjected
  <1> QED
    BY <1>1, InitClassesInv, NextClassesInv, PTL DEF SpecClasses

=============================================================================
