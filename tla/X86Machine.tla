----------------------------- MODULE X86Machine -----------------------------
(***************************************************************************)
(* What the processor and the two calling conventions make of an installed *)
(* code; external to the repository.  Compiled Java code enters it with    *)
(* its arguments in rsi, rdx, rcx (this first, for an instance method) and *)
(* the return address at the top of the stack.  A C function finds its     *)
(* arguments in rdi, rsi, rdx, rcx, wants rsp to be a multiple of 16 at    *)
(* the call instruction, keeps rsp and rbp and leaves its result in rax.   *)
(*                                                                         *)
(* A value is a tuple tagged with where it comes from.  A stack address is *)
(* relative to the slot of the return address.                             *)
(***************************************************************************)
EXTENDS Integers, Sequences, X86

StackBytes == 128

Stack(n)   == <<"stack", n>>
Garbage    == <<"garbage", 0>>
ReturnAddress == <<"return address", 0>>
CallerFrame   == <<"frame of the caller", 0>>
IntResult(target, x, y) == <<"int", target, x, y>>

(* The registers compiled Java code passes its arguments in.               *)
JavaArguments == << rsi, rdx, rcx >>

(* The state in which the first instruction of a method runs.              *)
Entered(arguments) ==
  LET passed(r) == {k \in DOMAIN arguments : r = JavaArguments[k]} IN
  [ reg    |-> [r \in GeneralRegisters |->
                  CASE r = rsp -> Stack(0)
                    [] r = rbp -> CallerFrame
                    [] passed(r) # {} ->
                         << "argument",
                            arguments[CHOOSE k \in passed(r) : TRUE] >>
                    [] OTHER -> Garbage],
    mem    |-> [n \in -StackBytes .. 0 |->
                  IF n = 0 THEN ReturnAddress ELSE Garbage],
    status |-> "running",
    calls  |-> << >> ]

CallerSaved == {rax, rcx, rdx, rsi, rdi, r8, r9, r10, 11}

(* A native function with two int parameters after "unused" pointers.      *)
NativeCall(m, target, unused) ==
  LET in == << m.reg[rdi], m.reg[rsi], m.reg[rdx], m.reg[rcx] >>
      result == IntResult(target, in[unused + 1], in[unused + 2])
  IN  [m EXCEPT
         !.reg = [r \in GeneralRegisters |->
                    CASE r = rax -> result
                      [] r \in CallerSaved \ {rax} -> Garbage
                      [] OTHER -> m.reg[r]],
         !.calls = Append(@, [target |-> target, sp |-> m.reg[rsp][2]])]

Stopped(m, status) == [m EXCEPT !.status = status]

(* One instruction, with rsp at the stack address sp.  unused[f] is the    *)
(* number of leading parameters that function f ignores; a call of         *)
(* anything but such a function is a fault.                                *)
Executed(m, ins, sp, unused) ==
  CASE sp \notin -StackBytes + 32 .. 0 -> Stopped(m, "fault")
    [] ins[1] = "NOP5" -> m
    [] ins[1] = "PUSH" ->
         [m EXCEPT !.reg[rsp] = Stack(sp - 8), !.mem[sp - 8] = m.reg[ins[2]]]
    [] ins[1] = "POP" /\ sp < 0 ->
         [m EXCEPT !.reg[rsp] = Stack(sp + 8), !.reg[ins[2]] = m.mem[sp]]
    [] ins[1] = "MOV" ->
         [m EXCEPT !.reg[ins[3]] = m.reg[ins[4]]]
    [] ins[1] = "SUB" /\ ins[2] = rsp ->
         [m EXCEPT !.reg[rsp] = Stack(sp - ins[3])]
    [] ins[1] = "LOAD" ->
         [m EXCEPT !.reg[ins[2]] = <<"constant", ins[3]>>]
    [] ins[1] = "CALL" ->
         LET target == m.reg[ins[2]]
         IN  IF target[1] = "constant" /\ target[2] \in DOMAIN unused
             THEN NativeCall(m, target[2], unused[target[2]])
             ELSE Stopped(m, "fault")
    [] ins[1] = "RET" ->
         Stopped(m, IF sp = 0 /\ m.mem[0] = ReturnAddress
                    THEN "returned" ELSE "fault")
    [] ins[1] = "CALLREL" -> Stopped(m, "deoptimised")
    [] OTHER -> Stopped(m, "fault")

Step(m, ins, unused) ==
  IF m.status # "running" THEN m
  ELSE IF m.reg[rsp][1] # "stack" THEN Stopped(m, "fault")
  ELSE Executed(m, ins, m.reg[rsp][2], unused)

(* The state in which a call of the code with these arguments ends.        *)
RunInstructions(ins, arguments, unused) ==
  LET after[i \in 0 .. Len(ins)] ==
        IF i = 0 THEN Entered(arguments)
        ELSE Step(after[i - 1], ins[i], unused)
  IN  after[Len(ins)]

Run(code, arguments, unused) ==
  RunInstructions(Instructions(code), arguments, unused)

=============================================================================
