---------------------------- MODULE AsmInjector ----------------------------
(***************************************************************************)
(* io.github.maropu.jvmci.AsmInjector.injectFuncAddr, the assembler it     *)
(* drives, and the HotSpot VM around them: callers of the methods, the     *)
(* compile broker, and compiled callers that have inlined a method.        *)
(*                                                                         *)
(* An injection takes three steps of its thread, between which the VM      *)
(* moves: the method is looked up and marked, the code is assembled, the   *)
(* code is installed as the method's default code.                         *)
(***************************************************************************)
EXTENDS AMD64Assembler, X86Machine, FiniteSets

CONSTANTS
  Methods,          (* Java methods of two ints that code is injected in.   *)
  StaticMethods,    (* Those that are static: no receiver is passed.        *)
  Functions,        (* Addresses of native functions.                       *)
  StaticFunctions,  (* Those with one unused parameter before the two ints; *)
                    (* the others have two.                                 *)
  Injectors,        (* AsmInjector objects, each used by one thread.        *)
  MaxUses           (* How often injectFuncAddr is called on one of them:   *)
                    (* once, everywhere in the repository.                  *)

ASSUME InjectorAssumption == Functions \subseteq Int /\ MaxUses \in Nat

NoCode      == [targetCode |-> << >>]
NotInjected == [by |-> "none", nth |-> 0, addr |-> 0, runs |-> << "nothing" >>]

VARIABLES
  asm,         (* The assembler of each injector.                           *)
  pc,          (* The step each injector is at: idle, marked or assembled.  *)
  job,         (* Its arguments, [method, addr], or << >> when it is idle.  *)
  uses,        (* History: the addresses injected through it, in order.     *)
  marked,      (* Methods that are not inlinable and not compilable.        *)
  early,       (* History: methods that were being compiled, or had been    *)
               (* inlined, when they were marked.                           *)
  installed,   (* The injected default code of each method, or NoCode.      *)
  injected,    (* History: [by, nth use, addr] of that code, and what it    *)
               (* runs.                                                     *)
  interpreted, (* Methods that have run in the interpreter.                 *)
  compiling,   (* Methods the compile broker is compiling.                  *)
  javaCode,    (* Methods whose default code was compiled from bytecode.    *)
  inlined      (* Methods whose bytecode some compiled caller has inlined.  *)

injectorVars == << asm, pc, job, uses >>
methodVars   == << marked, early, installed, injected >>
vmVars       == << interpreted, compiling, javaCode, inlined >>
vars         == << injectorVars, methodVars, vmVars >>

Init ==
  /\ asm  = [i \in Injectors |-> NewAssembler]
  /\ pc   = [i \in Injectors |-> "idle"]
  /\ job  = [i \in Injectors |-> << >>]
  /\ uses = [i \in Injectors |-> << >>]
  /\ marked    = {}
  /\ early     = {}
  /\ installed = [m \in Methods |-> NoCode]
  /\ injected  = [m \in Methods |-> NotInjected]
  /\ interpreted = {}
  /\ compiling   = {}
  /\ javaCode    = {}
  /\ inlined     = {}

-----------------------------------------------------------------------------

(* Every caller injects static functions in static methods only.           *)
Fits(m, addr) == m \in StaticMethods <=> addr \in StaticFunctions

(* Mutant: the method is not marked.                                       *)
LookupOnly(i, m, addr) ==
  /\ pc[i] = "idle"
  /\ Len(uses[i]) < MaxUses
  /\ Fits(m, addr)
  /\ pc'   = [pc EXCEPT ![i] = "marked"]
  /\ job'  = [job EXCEPT ![i] = [method |-> m, addr |-> addr]]
  /\ uses' = [uses EXCEPT ![i] = Append(@, addr)]
  /\ UNCHANGED << asm, methodVars, vmVars >>

(* injectFuncAddr(addr, method): lookupJavaMethod and                      *)
(* setNotInlinableOrCompilable.                                            *)
LookupAndMark(i, m, addr) ==
  /\ pc[i] = "idle"
  /\ Len(uses[i]) < MaxUses
  /\ Fits(m, addr)
  /\ pc'     = [pc EXCEPT ![i] = "marked"]
  /\ job'    = [job EXCEPT ![i] = [method |-> m, addr |-> addr]]
  /\ uses'   = [uses EXCEPT ![i] = Append(@, addr)]
  /\ marked' = marked \cup {m}
  /\ early'  = IF m \in (compiling \cup inlined) \ marked
               THEN early \cup {m} ELSE early
  /\ UNCHANGED << asm, installed, injected, vmVars >>

(* getReturnReg(int.class): the register configuration says rax.           *)
ReturnReg == rax

(* Mutant: every injection has an assembler of its own.                    *)
EmitAfresh(a, addr) ==
  LET called == EmitCall(EmitPrologue(NewAssembler), addr)
  IN  EmitEpilogue(EmitIntRet(called, ReturnReg))

(* emitPrologue, emitCall, emitIntRet and emitEpilogue; nothing is emitted *)
(* after a call that throws.                                               *)
EmitInjection(a, addr) ==
  LET called == EmitCall(EmitPrologue(a), addr)
  IN  IF called.raised THEN called
      ELSE EmitEpilogue(EmitIntRet(called, ReturnReg))

(* The exception of a call that throws ends the injection; the method      *)
(* stays marked.                                                           *)
Assemble(i) ==
  /\ pc[i] = "marked"
  /\ asm' = [asm EXCEPT ![i] = EmitInjection(asm[i], job[i].addr)]
  /\ \/ /\ ~asm'[i].raised
        /\ pc' = [pc EXCEPT ![i] = "assembled"]
        /\ UNCHANGED job
     \/ /\ asm'[i].raised
        /\ pc'  = [pc EXCEPT ![i] = "idle"]
        /\ job' = [job EXCEPT ![i] = << >>]
  /\ UNCHANGED << uses, methodVars, vmVars >>

Unused == [f \in Functions |-> IF f \in StaticFunctions THEN 1 ELSE 2]

(* How a call of m with arguments a and b ends, if it runs the code.       *)
Call(m, code) ==
  Run(code,
      IF m \in StaticMethods THEN << "a", "b" >> ELSE << "this", "a", "b" >>,
      Unused)

ReturnsResultOf(end, addr) ==
  /\ end.status = "returned"
  /\ end.reg[rax] = IntResult(addr, <<"argument", "a">>, <<"argument", "b">>)
  /\ end.reg[rsp] = Stack(0)
  /\ end.reg[rbp] = CallerFrame
  /\ Len(end.calls) = 1

(* The function that a call runs, if it ends with the result of it.        *)
Effect(end) ==
  IF Len(end.calls) = 1 /\ ReturnsResultOf(end, end.calls[1].target)
  THEN << "function", end.calls[1].target >> ELSE << "nothing" >>

(* asm.finish and codeCache.setDefaultCode, which replaces the default     *)
(* code, or fails, for instance because the code cache is full.            *)
Install(i) ==
  LET m == job[i].method
      code == Finish(asm[i])
  IN  /\ pc[i] = "assembled"
      /\ installed' = [installed EXCEPT ![m] = code]
      /\ injected'  = [injected EXCEPT ![m] =
                         [by |-> i, nth |-> Len(uses[i]), addr |-> job[i].addr,
                          runs |-> Effect(Call(m, code.targetCode))]]
      /\ javaCode'  = javaCode \ {m}
      /\ pc'  = [pc EXCEPT ![i] = "idle"]
      /\ job' = [job EXCEPT ![i] = << >>]
      /\ UNCHANGED << asm, uses, marked, early,
                      interpreted, compiling, inlined >>

(* Mutant: a failed injection keeps its method.                            *)
InstallFailsSilently(i) ==
  /\ pc[i] = "assembled"
  /\ pc' = [pc EXCEPT ![i] = "idle"]
  /\ UNCHANGED << asm, job, uses, methodVars, vmVars >>

(* The exception of setDefaultCode ends the injection.                     *)
InstallFails(i) ==
  /\ pc[i] = "assembled"
  /\ pc'  = [pc EXCEPT ![i] = "idle"]
  /\ job' = [job EXCEPT ![i] = << >>]
  /\ UNCHANGED << asm, uses, methodVars, vmVars >>

-----------------------------------------------------------------------------
(* The virtual machine.                                                    *)

HasCode(m) == installed[m] # NoCode

Interpret(m) ==
  /\ ~HasCode(m) /\ m \notin javaCode
  /\ interpreted' = interpreted \cup {m}
  /\ UNCHANGED << injectorVars, methodVars, compiling, javaCode, inlined >>

(* A method that has run, or a loop in it, is hot: it may be compiled.     *)
StartCompile(m) ==
  /\ m \in interpreted \ (marked \cup compiling)
  /\ compiling' = compiling \cup {m}
  /\ UNCHANGED << injectorVars, methodVars, interpreted, javaCode, inlined >>

(* The compiled bytecode replaces whatever the default code is.            *)
FinishCompile(m) ==
  /\ m \in compiling
  /\ compiling' = compiling \ {m}
  /\ javaCode'  = javaCode \cup {m}
  /\ UNCHANGED << injectorVars, methodVars, interpreted, inlined >>

(* A hot caller, or a hot loop of one by on-stack replacement, is compiled *)
(* with the bytecode of the method in line.  A caller gets hot by calling  *)
(* the method, whatever its code is.                                       *)
Inline(m) ==
  /\ m \notin marked
  /\ inlined' = inlined \cup {m}
  /\ UNCHANGED << injectorVars, methodVars, interpreted, compiling, javaCode >>

Next ==
  \/ \E i \in Injectors, m \in Methods, addr \in Functions :
        LookupAndMark(i, m, addr)
  \/ \E i \in Injectors : Assemble(i) \/ Install(i) \/ InstallFails(i)
  \/ \E m \in Methods :
        Interpret(m) \/ StartCompile(m) \/ FinishCompile(m) \/ Inline(m)

Spec == Init /\ [][Next]_vars

-----------------------------------------------------------------------------

(* The variables have their types: an injector has a job while it is at    *)
(* one, and a method that had been compiled early is a marked one.         *)
TypeOK ==
  /\ pc \in [Injectors -> {"idle", "marked", "assembled"}]
  /\ \A i \in Injectors :
       IF pc[i] = "idle" THEN job[i] = << >>
       ELSE job[i] \in [method : Methods, addr : Functions]
  /\ \A m \in Methods : injected[m].addr \in Functions \cup {0}
  /\ early \subseteq marked
  /\ UNION {marked, interpreted, compiling, javaCode, inlined} \subseteq Methods

CallOf(m) == Call(m, installed[m].targetCode)

Injected == {m \in Methods : HasCode(m)}

(* The code injected by a fresh injector calls the function it was given,  *)
(* with the Java arguments, and returns the function's result to the Java  *)
(* caller with the caller's frame pointer and stack as they were.          *)
RunsItsFunction ==
  \A m \in {x \in Injected : injected[x].nth = 1} :
     ReturnsResultOf(CallOf(m), injected[m].addr)

FrameFits(sp, frameSize, slot) ==
  /\ sp + frameSize = 8                        \* above the return address
  /\ slot.offset + frameSize >= 0
  /\ sp + frameSize + slot.offset + slot.size <= -8  \* below the saved rbp
  /\ (sp + 8) % 16 = 0

FrameIsAsDeclared(m) ==
  FrameFits(CallOf(m).calls[1].sp, installed[m].totalFrameSize,
            installed[m].deoptRescueSlot)

Addressed(disassembly) == {disassembly[k].at : k \in DOMAIN disassembly}

(* "Initial instruction MUST be 5 bytes or longer so that NativeJump::     *)
(* patch_verified_entry will be able to patch out the entry code safely":  *)
(* no instruction but the first starts in the first five bytes, so that no *)
(* thread stopped in the code resumes in the middle of the patch.          *)
EntryIsPatchable ==
  \A m \in Injected :
     Addressed(Disassembly(installed[m].targetCode)) \cap (1 .. 4) = {}

Targets(calls) == {calls[k].target : k \in DOMAIN calls}

(* What a call of m runs, for every caller of it: its bytecode, if that is *)
(* compiled or some caller has inlined it; otherwise what its code runs.   *)
Runs(m) ==
  IF ~HasCode(m) \/ m \in javaCode \cup inlined THEN << "bytecode" >>
  ELSE injected[m].runs

Method == INSTANCE InjectedMethod
            WITH runs <- [m \in Methods |-> Runs(m)], exposed <- early

(* An injection takes effect at once, when the code is installed, and for  *)
(* good: bytes, registers, frames and other injectors do not show, nor     *)
(* does the compile broker, unless it had begun to compile or inline the   *)
(* method before it was marked.  The callers rule that out: they inject    *)
(* before the method can be called.                                        *)
IsInjectedMethod == Method!Spec

(* An injector keeps its assembler: what it injects after its first use    *)
(* starts with the code of the first, so that the first function runs.     *)
ReuseRunsFirstFunction ==
  \A m \in Injected : Targets(CallOf(m).calls) = {uses[injected[m].by][1]}

(* At the call the frame of the code is the one the VM was told of: it     *)
(* walks the stack by totalFrameSize and, to deoptimise, saves a value in  *)
(* the rescue slot, which must be free; rsp is aligned for the C function. *)
(* This holds for the first use, and the second still fits the frame of    *)
(* the first; the third does not.                                          *)
FrameHoldsForTwoUses ==
  \A m \in Injected : FrameIsAsDeclared(m) <=> injected[m].nth <= 2

(* The call that throws for want of a register leaves the prologue behind  *)
(* and nothing else: no prefix, load or site without its instruction.      *)
ThrowLeavesPrologue ==
  [][\A i \in Injectors :
       asm'[i].raised /\ ~asm[i].raised =>
         LET left == EmitPrologue(asm[i])
         IN  << asm'[i].code, asm'[i].sites, asm'[i].frameSize >>
               = << left.code, left.sites, left.frameSize >>]_vars

=============================================================================
