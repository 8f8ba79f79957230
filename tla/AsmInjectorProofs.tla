------------------------- MODULE AsmInjectorProofs -------------------------
(***************************************************************************)
(* Theorems about AsmInjector, for every number of injectors, methods,     *)
(* functions and uses of an injector.                                      *)
(*                                                                         *)
(* First the machine: what a step of it does with each instruction, and    *)
(* what a call of nine given instructions comes to.  Then the assembler:   *)
(* the first injection emits these nine instructions, and what is emitted  *)
(* later comes after them.  Then the inductive invariant, which relates    *)
(* the assembler of every injector to the addresses injected through it    *)
(* and the code of every method to one of them; the properties follow from *)
(* it, the refinement of InjectedMethod last.                              *)
(***************************************************************************)
EXTENDS AsmInjector, AssemblerProofs

-----------------------------------------------------------------------------
(* The machine.                                                            *)

(* m runs, with rsp at the stack address sp.                               *)
Running(m, sp) ==
  /\ m = [reg |-> m.reg, mem |-> m.mem, status |-> m.status,
          calls |-> m.calls]
  /\ m.reg = [r \in GeneralRegisters |-> m.reg[r]]
  /\ m.mem = [n \in -StackBytes .. 0 |-> m.mem[n]]
  /\ m.status = "running"
  /\ m.reg[rsp] = Stack(sp)
  /\ sp \in -StackBytes + 32 .. 0

(* What n has of m.                                                        *)
SameRegisters(m, n, but) ==
  \A r \in GeneralRegisters \ but : n.reg[r] = m.reg[r]

LEMMA StepIs ==
  ASSUME NEW m, NEW sp, Running(m, sp), NEW ins, NEW unused
  PROVE  Step(m, ins, unused) = Executed(m, ins, sp, unused)
  <1>1. m.reg[rsp][1] = "stack" /\ m.reg[rsp][2] = sp
    <2>1. m.reg[rsp] = Stack(sp)
      BY DEF Running
    <2> QED
      BY <2>1 DEF Stack
  <1>2. m.status = "running"
    BY DEF Running
  <1> QED
    BY <1>1, <1>2, Zenon DEF Step

(* One lemma for every instruction of an injection.                        *)
LEMMA StepNop ==
  ASSUME NEW m, NEW sp, Running(m, sp), NEW unused
  PROVE  Step(m, <<"NOP5">>, unused) = m
  <1> DEFINE ins == <<"NOP5">>
  <1>1. ins[1] = "NOP5"
    OBVIOUS
  <1>2. sp \in -StackBytes + 32 .. 0
    BY DEF Running
  <1> HIDE DEF ins
  <1>3. Executed(m, ins, sp, unused) = m
    BY <1>1, <1>2, Zenon DEF Executed
  <1> QED
    BY <1>3, StepIs DEF ins

LEMMA StepPush ==
  ASSUME NEW m, NEW sp, Running(m, sp), NEW r \in GeneralRegisters,
         NEW unused, NEW next \in -StackBytes + 32 .. 0, next = sp - 8,
         NEW ins, ins[1] = "PUSH", ins[2] = r,
         NEW n, n = Step(m, ins, unused)
  PROVE  /\ Running(n, next) /\ n.calls = m.calls
         /\ SameRegisters(m, n, {rsp})
         /\ n.mem[next] = m.reg[r]
         /\ \A k \in -StackBytes .. 0 : k # next => n.mem[k] = m.mem[k]
  <1> DEFINE new == [m EXCEPT !.reg[rsp] = Stack(sp - 8),
                              !.mem[sp - 8] = m.reg[r]]
  <1>1. sp \in -StackBytes + 32 .. 0
    BY DEF Running
  <1>2. n = new
    <2>2. ins[1] # "NOP5"
      OBVIOUS
    <2>3. Executed(m, ins, sp, unused)
            = [m EXCEPT !.reg[rsp] = Stack(sp - 8),
                        !.mem[sp - 8] = m.reg[ins[2]]]
      BY <1>1, <2>2, Zenon DEF Executed
    <2> QED
      BY <2>3, StepIs
  <1>3. rsp \in GeneralRegisters /\ sp - 8 \in -StackBytes .. 0
    BY DEF rsp, GeneralRegisters, StackBytes
  <1>4. Running(new, sp - 8)
    <2> DEFINE reg == [m.reg EXCEPT ![rsp] = Stack(sp - 8)]
               mem == [m.mem EXCEPT ![sp - 8] = m.reg[r]]
    <2>0. m = [reg |-> m.reg, mem |-> m.mem, status |-> m.status,
               calls |-> m.calls]
      BY DEF Running
    <2>1. new = [reg |-> reg, mem |-> mem, status |-> m.status,
                 calls |-> m.calls]
      <3> DEFINE mid == [m EXCEPT !.reg[rsp] = Stack(sp - 8)]
      <3>1. mid = [reg |-> reg, mem |-> m.mem, status |-> m.status,
                   calls |-> m.calls]
        BY <2>0
      <3>2. new = [mid EXCEPT !.mem[sp - 8] = m.reg[r]]
        BY Zenon
      <3> HIDE DEF mid, new, reg
      <3> QED
        BY <3>1, <3>2
    <2>2. reg = [q \in GeneralRegisters |-> reg[q]] /\ reg[rsp] = Stack(sp - 8)
      BY <1>3 DEF Running
    <2>3. mem = [k \in -StackBytes .. 0 |-> mem[k]]
      BY DEF Running
    <2> HIDE DEF new, reg, mem
    <2> QED
      BY <2>1, <2>2, <2>3 DEF Running
  <1>5. /\ new.calls = m.calls
        /\ new.mem[sp - 8] = m.reg[r]
        /\ \A k \in -StackBytes .. 0 : k # sp - 8 => new.mem[k] = m.mem[k]
    BY <1>3 DEF Running
  <1>6. SameRegisters(m, new, {rsp})
    BY <1>3 DEF Running, SameRegisters
  <1> QED
    BY <1>2, <1>4, <1>5, <1>6

LEMMA StepMove ==
  ASSUME NEW m, NEW sp, Running(m, sp), NEW w,
         NEW to \in GeneralRegisters, NEW from \in GeneralRegisters,
         NEW next \in -StackBytes + 32 .. 0,
         to = rsp => m.reg[from] = Stack(next),
         to # rsp => next = sp, NEW unused,
         NEW ins, ins[1] = "MOV", ins[3] = to, ins[4] = from,
         NEW n, n = Step(m, ins, unused)
  PROVE  /\ Running(n, next) /\ n.calls = m.calls /\ n.mem = m.mem
         /\ SameRegisters(m, n, {to})
         /\ n.reg[to] = m.reg[from]
  <1> DEFINE new == [m EXCEPT !.reg[to] = m.reg[from]]
  <1>1. sp \in -StackBytes + 32 .. 0
    BY DEF Running
  <1>2. ins[1] \notin {"NOP5", "PUSH", "POP"}
    OBVIOUS
  <1>3. n = new
    <2>1. Executed(m, ins, sp, unused)
            = [m EXCEPT !.reg[ins[3]] = m.reg[ins[4]]]
      BY <1>1, <1>2, Zenon DEF Executed
    <2> QED
      BY <1>2, <2>1, StepIs
  <1>4. Running(new, next)
    BY DEF Running
  <1>5. /\ new.calls = m.calls /\ new.mem = m.mem /\ new.reg[to] = m.reg[from]
    BY DEF Running
  <1>6. SameRegisters(m, new, {to})
    BY DEF Running, SameRegisters
  <1> QED
    BY <1>3, <1>4, <1>5, <1>6

LEMMA StepPop ==
  ASSUME NEW m, NEW sp, Running(m, sp), sp <= -8,
         NEW r \in GeneralRegisters, r # rsp, NEW unused,
         NEW next, next = sp + 8,
         NEW ins, ins[1] = "POP", ins[2] = r,
         NEW n, n = Step(m, ins, unused)
  PROVE  /\ Running(n, next) /\ n.calls = m.calls /\ n.mem = m.mem
         /\ SameRegisters(m, n, {rsp, r})
         /\ n.reg[r] = m.mem[sp]
  <1> DEFINE new == [m EXCEPT !.reg[rsp] = Stack(sp + 8),
                              !.reg[r] = m.mem[sp]]
  <1>1. sp \in -StackBytes + 32 .. 0
    BY DEF Running
  <1>2. n = new
    <2>2. ins[1] \notin {"NOP5", "PUSH"}
      OBVIOUS
    <2>4. sp < 0
      BY <1>1 DEF StackBytes
    <2>3. Executed(m, ins, sp, unused)
            = [m EXCEPT !.reg[rsp] = Stack(sp + 8),
                        !.reg[ins[2]] = m.mem[sp]]
      BY <1>1, <2>2, <2>4, Zenon DEF Executed
    <2> QED
      BY <2>3, StepIs
  <1>3. rsp \in GeneralRegisters
    BY DEF rsp, GeneralRegisters
  <1>4. sp + 8 \in -StackBytes + 32 .. 0
    BY <1>1 DEF StackBytes
  <1>5. Running(new, sp + 8)
    <2> DEFINE first == [m.reg EXCEPT ![rsp] = Stack(sp + 8)]
               reg   == [first EXCEPT ![r] = m.mem[sp]]
    <2>0. m = [reg |-> m.reg, mem |-> m.mem, status |-> m.status,
               calls |-> m.calls]
      BY DEF Running
    <2>1. new = [reg |-> reg, mem |-> m.mem, status |-> m.status,
                 calls |-> m.calls]
      <3> DEFINE mid == [m EXCEPT !.reg[rsp] = Stack(sp + 8)]
      <3>1. mid = [reg |-> first, mem |-> m.mem, status |-> m.status,
                   calls |-> m.calls]
        BY <2>0
      <3>2. new = [mid EXCEPT !.reg[r] = m.mem[sp]]
        BY Zenon
      <3> HIDE DEF mid, new, first
      <3> QED
        BY <3>1, <3>2
    <2>2. /\ first = [q \in GeneralRegisters |-> first[q]]
          /\ first[rsp] = Stack(sp + 8)
      BY <1>3 DEF Running
    <2> HIDE DEF first
    <2>3. reg = [q \in GeneralRegisters |-> reg[q]] /\ reg[rsp] = Stack(sp + 8)
      BY <1>3, <2>2
    <2> HIDE DEF new, reg
    <2> QED
      BY <1>4, <2>1, <2>3 DEF Running
  <1>6. new.calls = m.calls /\ new.mem = m.mem /\ new.reg[r] = m.mem[sp]
    BY <1>3 DEF Running
  <1>7. SameRegisters(m, new, {rsp, r})
    BY <1>3 DEF Running, SameRegisters
  <1> QED
    BY <1>2, <1>5, <1>6, <1>7

LEMMA StepSub ==
  ASSUME NEW m, NEW sp, Running(m, sp), NEW c \in Nat,
         NEW next \in -StackBytes + 32 .. 0, next = sp - c, NEW unused,
         NEW ins, ins[1] = "SUB", ins[2] = rsp, ins[3] = c,
         NEW n, n = Step(m, ins, unused)
  PROVE  /\ Running(n, next) /\ n.calls = m.calls /\ n.mem = m.mem
         /\ SameRegisters(m, n, {rsp})
  <1> DEFINE new == [m EXCEPT !.reg[rsp] = Stack(sp - c)]
  <1>1. sp \in -StackBytes + 32 .. 0
    BY DEF Running
  <1>2. n = new
    <2>2. ins[1] \notin {"NOP5", "PUSH", "POP", "MOV"}
      OBVIOUS
    <2>3. Executed(m, ins, sp, unused)
            = [m EXCEPT !.reg[rsp] = Stack(sp - ins[3])]
      BY <1>1, <2>2, Zenon DEF Executed
    <2> QED
      BY <2>3, StepIs
  <1>3. rsp \in GeneralRegisters
    BY DEF rsp, GeneralRegisters
  <1>4. Running(new, next)
    <2> DEFINE reg == [m.reg EXCEPT ![rsp] = Stack(sp - c)]
    <2>1. new.reg = reg /\ new.mem = m.mem /\ new.status = "running"
      BY DEF Running
    <2>2. reg = [q \in GeneralRegisters |-> reg[q]] /\ reg[rsp] = Stack(next)
      BY <1>3 DEF Running
    <2>3. m.mem = [q \in -StackBytes .. 0 |-> m.mem[q]]
      BY DEF Running
    <2>4. new = [reg |-> new.reg, mem |-> new.mem, status |-> new.status,
                 calls |-> new.calls]
      BY DEF Running
    <2> HIDE DEF new, reg
    <2> QED
      BY <2>1, <2>2, <2>3, <2>4 DEF Running
  <1>5. new.calls = m.calls /\ new.mem = m.mem
    BY <1>3 DEF Running
  <1>6. SameRegisters(m, new, {rsp})
    BY <1>3 DEF Running, SameRegisters
  <1> QED
    BY <1>2, <1>4, <1>5, <1>6

LEMMA StepLoad ==
  ASSUME NEW m, NEW sp, Running(m, sp), NEW r \in GeneralRegisters, r # rsp,
         NEW c, NEW unused,
         NEW ins, ins[1] = "LOAD", ins[2] = r, ins[3] = c,
         NEW n, n = Step(m, ins, unused)
  PROVE  /\ Running(n, sp) /\ n.calls = m.calls /\ n.mem = m.mem
         /\ SameRegisters(m, n, {r})
         /\ n.reg[r] = <<"constant", c>>
  <1> DEFINE new == [m EXCEPT !.reg[r] = <<"constant", c>>]
  <1>1. sp \in -StackBytes + 32 .. 0
    BY DEF Running
  <1>2. n = new
    <2>2. ins[1] \notin {"NOP5", "PUSH", "POP", "MOV", "SUB"}
      OBVIOUS
    <2>3. Executed(m, ins, sp, unused)
            = [m EXCEPT !.reg[ins[2]] = <<"constant", ins[3]>>]
      BY <1>1, <2>2, Zenon DEF Executed
    <2> QED
      BY <2>3, StepIs
  <1>3. Running(new, sp)
    BY DEF Running
  <1>4. /\ new.calls = m.calls /\ new.mem = m.mem
        /\ new.reg[r] = <<"constant", c>>
    BY DEF Running
  <1>5. SameRegisters(m, new, {r})
    BY DEF Running, SameRegisters
  <1> QED
    BY <1>2, <1>3, <1>4, <1>5

(* A function that ignores u parameters gets x and y.                      *)
Passes(m, u, x, y) ==
  \/ u = 1 /\ x = m.reg[rsi] /\ y = m.reg[rdx]
  \/ u = 2 /\ x = m.reg[rdx] /\ y = m.reg[rcx]

CalledAt(f, sp) == [target |-> f, sp |-> sp]

Calls(m, n, f, sp) == n.calls = Append(m.calls, CalledAt(f, sp))

LEMMA NativeCallRuns ==
  ASSUME NEW m, NEW sp, Running(m, sp), NEW f, NEW u, NEW x, NEW y,
         Passes(m, u, x, y), NEW next, next = NativeCall(m, f, u)
  PROVE  /\ Running(next, sp) /\ next.mem = m.mem
         /\ Calls(m, next, f, sp)
         /\ next.reg[rbp] = m.reg[rbp]
         /\ next.reg[rax] = IntResult(f, x, y)
  <1> DEFINE in == << m.reg[rdi], m.reg[rsi], m.reg[rdx], m.reg[rcx] >>
             result == IntResult(f, in[u + 1], in[u + 2])
             reg == [r \in GeneralRegisters |->
                       CASE r = rax -> result
                         [] r \in CallerSaved \ {rax} -> Garbage
                         [] OTHER -> m.reg[r]]
             calls == Append(m.calls, CalledAt(f, sp))
             n == [m EXCEPT !.reg = reg, !.calls = calls]
  <1>1. m.reg[rsp][2] = sp
    <2>1. m.reg[rsp] = Stack(sp)
      BY DEF Running
    <2> QED
      BY <2>1 DEF Stack
  <1>2. next = n
    BY <1>1, Zenon DEF NativeCall, CalledAt
  <1>3. in[u + 1] = x /\ in[u + 2] = y
    BY DEF Passes
  <1>4. result = IntResult(f, x, y)
    BY <1>3
  <1> HIDE DEF in, result
  <1>5. /\ reg = [r \in GeneralRegisters |-> reg[r]]
        /\ reg[rax] = result
        /\ reg[rsp] = m.reg[rsp] /\ reg[rbp] = m.reg[rbp]
    <2>1. /\ rax \in GeneralRegisters /\ rsp \in GeneralRegisters
          /\ rbp \in GeneralRegisters
          /\ rsp # rax /\ rbp # rax
          /\ rsp \notin CallerSaved /\ rbp \notin CallerSaved
      BY DEF GeneralRegisters, CallerSaved, rax, rcx, rdx, rsp, rbp, rsi, rdi,
             r8, r9, r10
    <2> QED
      BY <2>1
  <1> HIDE DEF reg, calls
  <1>6. n = [reg |-> reg, mem |-> m.mem, status |-> m.status,
             calls |-> calls]
    <2>1. m = [reg |-> m.reg, mem |-> m.mem, status |-> m.status,
               calls |-> m.calls]
      BY DEF Running
    <2> DEFINE mid == [m EXCEPT !.reg = reg]
    <2>2. mid = [reg |-> reg, mem |-> m.mem, status |-> m.status,
                 calls |-> m.calls]
      BY <2>1
    <2>3. n = [mid EXCEPT !.calls = calls]
      BY Zenon
    <2> HIDE DEF mid, n
    <2> QED
      BY <2>2, <2>3
  <1> HIDE DEF n
  <1>7. Running(n, sp)
    BY <1>5, <1>6 DEF Running
  <1> QED
    BY <1>2, <1>4, <1>5, <1>6, <1>7 DEF calls, Calls

LEMMA StepCall ==
  ASSUME NEW m, NEW sp, Running(m, sp), NEW r \in GeneralRegisters,
         NEW unused, NEW f \in DOMAIN unused,
         m.reg[r] = <<"constant", f>>,
         NEW u, u = unused[f], NEW x, NEW y, Passes(m, u, x, y),
         NEW ins, ins[1] = "CALL", ins[2] = r,
         NEW n, n = Step(m, ins, unused)
  PROVE  /\ Running(n, sp) /\ n.mem = m.mem
         /\ Calls(m, n, f, sp)
         /\ n.reg[rbp] = m.reg[rbp]
         /\ n.reg[rax] = IntResult(f, x, y)
  <1>1. sp \in -StackBytes + 32 .. 0
    BY DEF Running
  <1>3. ins[1] \notin {"NOP5", "PUSH", "POP", "MOV", "SUB", "LOAD"}
    OBVIOUS
  <1>4. m.reg[r][1] = "constant" /\ m.reg[r][2] = f
    OBVIOUS
  <1>5. Executed(m, ins, sp, unused) = NativeCall(m, f, u)
    BY <1>1, <1>3, <1>4, Zenon DEF Executed
  <1>6. n = NativeCall(m, f, u)
    BY <1>5, StepIs
  <1> QED
    BY <1>6, NativeCallRuns

LEMMA StepRet ==
  ASSUME NEW m, Running(m, 0), m.mem[0] = ReturnAddress, NEW unused
  PROVE  Step(m, <<"RET">>, unused)
           = [m EXCEPT !.status = "returned"]
  <1> DEFINE ins == <<"RET">>
  <1>1. 0 \in -StackBytes + 32 .. 0
    BY DEF Running
  <1>2. ins[1] = "RET"
    OBVIOUS
  <1>3. ins[1] \notin {"NOP5", "PUSH", "POP", "MOV", "SUB", "LOAD", "CALL"}
    OBVIOUS
  <1> HIDE DEF ins
  <1>4. Executed(m, ins, 0, unused) = Stopped(m, "returned")
    BY <1>1, <1>2, <1>3, Zenon DEF Executed
  <1> QED
    BY <1>4, StepIs DEF ins, Stopped

-----------------------------------------------------------------------------
(* A run of several instructions.                                          *)

IsRun(after, n, ins, arguments, unused) ==
  after = [i \in 0 .. n |->
             IF i = 0 THEN Entered(arguments)
             ELSE Step(after[i - 1], ins[i], unused)]

LEMMA RunsExist ==
  ASSUME NEW ins, NEW arguments, NEW unused
  PROVE  \A n \in Nat : \E f : IsRun(f, n, ins, arguments, unused)
  <1> DEFINE S == {n \in Nat : \E f : IsRun(f, n, ins, arguments, unused)}
             first == Entered(arguments)
             St(m, i) == Step(m, ins[i], unused)
  <1>1. 0 \in S
    <2> DEFINE f == [i \in 0 .. 0 |-> first]
    <2>1. IsRun(f, 0, ins, arguments, unused)
      BY DEF IsRun
    <2> QED
      BY <2>1
  <1>2. ASSUME NEW n \in Nat, n \in S
        PROVE  n + 1 \in S
    <2>1. PICK f : IsRun(f, n, ins, arguments, unused)
      BY <1>2
    <2>2. f = [i \in 0 .. n |-> IF i = 0 THEN first ELSE St(f[i - 1], i)]
      BY <2>1 DEF IsRun
    <2> HIDE DEF first, St
    <2>3. f[0] = first /\ \A i \in 1 .. n : f[i] = St(f[i - 1], i)
      BY <2>2
    <2> DEFINE g == [i \in 0 .. n + 1 |->
                       IF i = n + 1 THEN St(f[n], n + 1) ELSE f[i]]
               h == [i \in 0 .. n + 1 |->
                       IF i = 0 THEN first ELSE St(g[i - 1], i)]
    <2>4. \A i \in 0 .. n : g[i] = f[i]
      OBVIOUS
    <2>5. g[n + 1] = St(f[n], n + 1)
      OBVIOUS
    <2>6. ASSUME NEW i \in 0 .. n + 1
          PROVE  g[i] = h[i]
      <3>1. CASE i = 0
        BY <2>3, <2>4, <3>1
      <3>2. CASE i \in 1 .. n
        <4>1. /\ g[i] = f[i] /\ g[i - 1] = f[i - 1]
              /\ h[i] = St(g[i - 1], i)
          BY <2>4, <3>2
        <4> QED
          BY <2>3, <3>2, <4>1
      <3>3. CASE i = n + 1
        <4>1. g[i - 1] = f[n] /\ h[i] = St(g[i - 1], n + 1)
          BY <2>4, <3>3
        <4> QED
          BY <2>5, <3>3, <4>1
      <3> QED
        BY <3>1, <3>2, <3>3
    <2>7. g = h
      BY <2>6
    <2> HIDE DEF g
    <2>8. IsRun(g, n + 1, ins, arguments, unused)
      BY <2>7 DEF IsRun, first, St
    <2> QED
      BY <2>8
  <1> HIDE DEF S
  <1>3. Nat \subseteq S
    BY <1>1, <1>2, Induction
  <1> QED
    BY <1>3 DEF S

LEMMA RunIs ==
  ASSUME NEW ins, Len(ins) \in Nat, NEW arguments, NEW unused
  PROVE  \E f : /\ IsRun(f, Len(ins), ins, arguments, unused)
                /\ RunInstructions(ins, arguments, unused) = f[Len(ins)]
  <1>1. \E f : IsRun(f, Len(ins), ins, arguments, unused)
    BY RunsExist
  <1>2. RunInstructions(ins, arguments, unused)
          = (CHOOSE f : IsRun(f, Len(ins), ins, arguments, unused))[Len(ins)]
    BY Zenon DEF RunInstructions, IsRun
  <1> QED
    BY <1>1, <1>2, Zenon

(* A machine that has stopped stays as it is.                              *)
LEMMA RunStays ==
  ASSUME NEW ins, Len(ins) \in Nat, NEW arguments, NEW unused, NEW f,
         IsRun(f, Len(ins), ins, arguments, unused),
         NEW k \in 0 .. Len(ins), f[k].status # "running"
  PROVE  f[Len(ins)] = f[k]
  <1> DEFINE n == Len(ins)
             S == {i \in Nat : k + i <= n => f[k + i] = f[k]}
  <1>1. 0 \in S
    OBVIOUS
  <1>2. ASSUME NEW i \in Nat, i \in S
        PROVE  i + 1 \in S
    <2> SUFFICES ASSUME k + (i + 1) <= n
                 PROVE  f[k + (i + 1)] = f[k]
      OBVIOUS
    <2>1. /\ k + (i + 1) \in 1 .. n /\ (k + (i + 1)) - 1 = k + i
          /\ f[k + i] = f[k]
      BY <1>2
    <2> DEFINE j == k + (i + 1)
    <2>2. f[j] = Step(f[j - 1], ins[j], unused)
      BY <2>1 DEF IsRun
    <2> HIDE DEF j
    <2>3. f[j] = Step(f[k], ins[j], unused)
      BY <2>1, <2>2 DEF j
    <2> QED
      BY <2>3 DEF Step, j
  <1> HIDE DEF S
  <1>3. n - k \in S
    BY <1>1, <1>2, Induction
  <1> QED
    BY <1>3 DEF S

(* The state in which a method is entered.                                 *)
LEMMA EnteredRuns ==
  ASSUME NEW arguments, DOMAIN arguments \subseteq 1 .. 3
  PROVE  LET m == Entered(arguments)
         IN  /\ Running(m, 0) /\ m.calls = << >> /\ m.mem[0] = ReturnAddress
             /\ m.reg[rbp] = CallerFrame
  <1> DEFINE passed(r) == {k \in DOMAIN arguments : r = JavaArguments[k]}
             Of(r) == << "argument", arguments[CHOOSE k \in passed(r) : TRUE] >>
             reg == [r \in GeneralRegisters |->
                       CASE r = rsp -> Stack(0)
                         [] r = rbp -> CallerFrame
                         [] passed(r) # {} -> Of(r)
                         [] OTHER -> Garbage]
             mem == [n \in -StackBytes .. 0 |->
                       IF n = 0 THEN ReturnAddress ELSE Garbage]
             m == [reg |-> reg, mem |-> mem, status |-> "running",
                   calls |-> << >>]
  <1>1. Entered(arguments) = m
    BY Zenon DEF Entered
  <1>0. passed(rsp) = {} /\ passed(rbp) = {}
    BY DEF JavaArguments, rsp, rbp, rsi, rdx, rcx
  <1> HIDE DEF passed, Of
  <1>2. /\ reg = [r \in GeneralRegisters |-> reg[r]]
        /\ reg[rsp] = Stack(0) /\ reg[rbp] = CallerFrame
    BY <1>0, RegistersGeneral
  <1>3. 0 \in -StackBytes + 32 .. 0 /\ 0 \in -StackBytes .. 0
    BY DEF StackBytes
  <1>4. mem = [n \in -StackBytes .. 0 |-> mem[n]] /\ mem[0] = ReturnAddress
    BY <1>3
  <1> HIDE DEF reg, mem
  <1>5. Running(m, 0)
    BY <1>2, <1>3, <1>4 DEF Running
  <1>6. m.reg[rbp] = CallerFrame /\ m.calls = << >> /\ m.mem[0] = ReturnAddress
    BY <1>2, <1>4
  <1> QED
    BY <1>1, <1>5, <1>6

(* The registers of the arguments of a method of two ints.                 *)
LEMMA EnteredPasses ==
  /\ Passes(Entered(<< "a", "b" >>), 1, << "argument", "a" >>,
            << "argument", "b" >>)
  /\ Passes(Entered(<< "this", "a", "b" >>), 2, << "argument", "a" >>,
            << "argument", "b" >>)
  <1>1. ASSUME NEW arguments, NEW k \in DOMAIN arguments,
               DOMAIN arguments \subseteq 1 .. 3
        PROVE  Entered(arguments).reg[JavaArguments[k]]
                 = << "argument", arguments[k] >>
    <2> DEFINE r == JavaArguments[k]
               passed == {j \in DOMAIN arguments : r = JavaArguments[j]}
    <2>1. /\ \A i, j \in 1 .. 3 : JavaArguments[i] = JavaArguments[j] => i = j
          /\ r \in GeneralRegisters /\ r # rsp /\ r # rbp
      BY <1>1 DEF JavaArguments, rsi, rdx, rcx, rsp, rbp, GeneralRegisters
    <2>2. passed = {k}
      BY <1>1, <2>1
    <2>3. (CHOOSE j \in passed : TRUE) = k
      BY <2>2
    <2>4. Entered(arguments).reg[r]
            = << "argument", arguments[CHOOSE j \in passed : TRUE] >>
      BY <2>1, <2>2 DEF Entered
    <2> QED
      BY <2>3, <2>4
  <1>2. /\ DOMAIN << "a", "b" >> = 1 .. 2
        /\ DOMAIN << "this", "a", "b" >> = 1 .. 3
    OBVIOUS
  <1>3. /\ Entered(<< "a", "b" >>).reg[JavaArguments[1]] = << "argument", "a" >>
        /\ Entered(<< "a", "b" >>).reg[JavaArguments[2]] = << "argument", "b" >>
    <2> DEFINE args == << "a", "b" >>
    <2>1. /\ 1 \in DOMAIN args /\ 2 \in DOMAIN args
          /\ args[1] = "a" /\ args[2] = "b"
          /\ DOMAIN args \subseteq 1 .. 3
      OBVIOUS
    <2> HIDE DEF args
    <2> QED
      BY <1>1, <2>1 DEF args
  <1>4. /\ Entered(<< "this", "a", "b" >>).reg[JavaArguments[2]]
             = << "argument", "a" >>
        /\ Entered(<< "this", "a", "b" >>).reg[JavaArguments[3]]
             = << "argument", "b" >>
    <2> DEFINE args == << "this", "a", "b" >>
    <2>1. /\ 2 \in DOMAIN args /\ 3 \in DOMAIN args
          /\ args[2] = "a" /\ args[3] = "b"
          /\ DOMAIN args \subseteq 1 .. 3
      OBVIOUS
    <2> HIDE DEF args
    <2> QED
      BY <1>1, <2>1 DEF args
  <1>5. /\ JavaArguments[1] = rsi /\ JavaArguments[2] = rdx
        /\ JavaArguments[3] = rcx
    BY DEF JavaArguments
  <1> QED
    BY <1>3, <1>4, <1>5 DEF Passes

-----------------------------------------------------------------------------
(* The code of an injection.                                               *)

(* What comes first in a code in which f was injected first.               *)
IsInjection(ins, f) ==
  /\ Len(ins) \in Nat /\ Len(ins) >= 9
  /\ ins[1] = <<"NOP5">>
  /\ ins[2] = <<"PUSH", rbp>>
  /\ ins[3] = <<"MOV", TRUE, rbp, rsp>>
  /\ ins[4] = <<"SUB", rsp, 16>>
  /\ ins[5] = <<"LOAD", rax, f>>
  /\ ins[6] = <<"CALL", rax>>
  /\ ins[7] = <<"MOV", TRUE, rsp, rbp>>
  /\ ins[8] = <<"POP", rbp>>
  /\ ins[9] = <<"RET">>

(* What a call comes to whose code begins with these nine instructions.    *)
LEMMA InjectionRuns ==
  ASSUME NEW ins, NEW unused, NEW f \in DOMAIN unused, IsInjection(ins, f),
         NEW arguments, DOMAIN arguments \subseteq 1 .. 3, NEW x, NEW y,
         Passes(Entered(arguments), unused[f], x, y)
  PROVE  LET end == RunInstructions(ins, arguments, unused)
         IN  /\ end.status = "returned"
             /\ end.reg[rax] = IntResult(f, x, y)
             /\ end.reg[rsp] = Stack(0) /\ end.reg[rbp] = CallerFrame
             /\ end.calls = << CalledAt(f, -24) >>
  <1>1. Len(ins) \in Nat /\ Len(ins) >= 9
    BY DEF IsInjection
  <1>2. PICK m : /\ IsRun(m, Len(ins), ins, arguments, unused)
                 /\ RunInstructions(ins, arguments, unused) = m[Len(ins)]
    BY <1>1, RunIs
  <1> DEFINE m0 == m[0]
             m1 == m[1]
             m2 == m[2]
             m3 == m[3]
             m4 == m[4]
             m5 == m[5]
             m6 == m[6]
             m7 == m[7]
             m8 == m[8]
             m9 == m[9]
             push == ins[2]
             save == ins[3]
             sub  == ins[4]
             load == ins[5]
             call == ins[6]
             unwind == ins[7]
             pop  == ins[8]
  <1>3. m0 = Entered(arguments)
    BY <1>1, <1>2 DEF IsRun
  <1>4. /\ m1 = Step(m0, <<"NOP5">>, unused)
        /\ m2 = Step(m1, push, unused) /\ m3 = Step(m2, save, unused)
        /\ m4 = Step(m3, sub, unused)  /\ m5 = Step(m4, load, unused)
        /\ m6 = Step(m5, call, unused) /\ m7 = Step(m6, unwind, unused)
        /\ m8 = Step(m7, pop, unused)  /\ m9 = Step(m8, <<"RET">>, unused)
    <2>1. ASSUME NEW i \in 1 .. 9
          PROVE  m[i] = Step(m[i - 1], ins[i], unused)
      <3>1. i \in 0 .. Len(ins) /\ i # 0
        BY <1>1
      <3> QED
        BY <1>2, <3>1, Zenon DEF IsRun
    <2>2. ins[1] = <<"NOP5">> /\ ins[9] = <<"RET">>
      BY DEF IsInjection
    <2> QED
      BY <2>1, <2>2
  <1>7. /\ push[1] = "PUSH" /\ push[2] = rbp
        /\ save[1] = "MOV" /\ save[3] = rbp /\ save[4] = rsp
        /\ sub[1] = "SUB" /\ sub[2] = rsp /\ sub[3] = 16
        /\ load[1] = "LOAD" /\ load[2] = rax /\ load[3] = f
        /\ call[1] = "CALL" /\ call[2] = rax
        /\ unwind[1] = "MOV" /\ unwind[3] = rsp /\ unwind[4] = rbp
        /\ pop[1] = "POP" /\ pop[2] = rbp
    BY DEF IsInjection
  <1>8. /\ 9 \in 0 .. Len(ins)
        /\ m9.status # "running" => m[Len(ins)] = m9
    <2>1. 9 \in 0 .. Len(ins)
      BY <1>1
    <2> QED
      BY <1>1, <1>2, <2>1, RunStays
  <1> HIDE DEF m0, m1, m2, m3, m4, m5, m6, m7, m8, m9
  <1> HIDE DEF push, save, sub, load, call, unwind, pop
  <1>5. /\ rax \in GeneralRegisters /\ rsp \in GeneralRegisters
        /\ rbp \in GeneralRegisters
        /\ rsi \in GeneralRegisters /\ rdx \in GeneralRegisters
        /\ rcx \in GeneralRegisters
        /\ rax # rsp /\ rax # rbp /\ rsp # rbp
        /\ rsi \notin {rax, rsp, rbp} /\ rdx \notin {rax, rsp, rbp}
        /\ rcx \notin {rax, rsp, rbp}
    BY DEF GeneralRegisters, rax, rcx, rdx, rsp, rbp, rsi
  <1>6. /\ -8 \in -StackBytes + 32 .. 0 /\ -24 \in -StackBytes + 32 .. 0
        /\ 0 \in -StackBytes + 32 .. 0
        /\ -8 \in -StackBytes .. 0 /\ 0 \in -StackBytes .. 0
        /\ 0 - 8 = -8 /\ -8 - 16 = -24 /\ -8 + 8 = 0
    BY DEF StackBytes
  <1>10. /\ Running(m0, 0) /\ m0.calls = << >>
         /\ m0.mem[0] = ReturnAddress
         /\ m0.reg[rbp] = CallerFrame
         /\ Passes(m0, unused[f], x, y)
    BY <1>3, EnteredRuns
  <1>11. m1 = m0
    <2> QED
      BY <1>10, <1>4, <1>7, StepNop
  <1>12. /\ Running(m2, -8) /\ m2.calls = << >>
         /\ m2.mem[0] = ReturnAddress /\ m2.mem[-8] = CallerFrame
         /\ Passes(m2, unused[f], x, y)
    <2>2. /\ Running(m2, -8) /\ m2.calls = m1.calls
          /\ SameRegisters(m1, m2, {rsp})
          /\ m2.mem[-8] = m1.reg[rbp]
          /\ \A k \in -StackBytes .. 0 :
               k # -8 => m2.mem[k] = m1.mem[k]
      <3>1. Running(m1, 0)
        BY <1>10, <1>11
      <3> QED
        <4>1. /\ 0 - 8 = -8 /\ -8 \in -StackBytes + 32 .. 0
              /\ rbp \in GeneralRegisters
          BY <1>5, <1>6
        <4>2. /\ m2 = Step(m1, push, unused)
              /\ push[1] = "PUSH" /\ push[2] = rbp
          BY <1>4, <1>7
        <4> QED
          BY <3>1, <4>1, <4>2, StepPush
    <2>3. m2.mem[0] = m1.mem[0] /\ m2.mem[-8] = m1.reg[rbp]
      BY <1>6, <2>2
    <2>4. Passes(m2, unused[f], x, y)
      BY <1>5, <1>10, <1>11, <2>2 DEF Passes, SameRegisters
    <2> QED
      BY <1>6, <1>10, <1>11, <2>2, <2>3, <2>4
  <1>13. /\ Running(m3, -8) /\ m3.calls = << >> /\ m3.mem = m2.mem
         /\ m3.reg[rbp] = Stack(-8)
         /\ Passes(m3, unused[f], x, y)
    <2>0. /\ Running(m2, -8) /\ rbp \in GeneralRegisters
          /\ rsp \in GeneralRegisters /\ rbp # rsp
          /\ -8 \in -StackBytes + 32 .. 0
      BY <1>5, <1>6, <1>12
    <2>1. /\ m3 = Step(m2, save, unused)
          /\ save[1] = "MOV" /\ save[3] = rbp /\ save[4] = rsp
      BY <1>4, <1>7
    <2>2. /\ Running(m3, -8) /\ m3.calls = m2.calls
          /\ m3.mem = m2.mem
          /\ SameRegisters(m2, m3, {rbp})
          /\ m3.reg[rbp] = m2.reg[rsp]
      BY <2>0, <2>1, StepMove
    <2>3. m2.reg[rsp] = Stack(-8)
      BY <1>12 DEF Running
    <2>4. Passes(m3, unused[f], x, y)
      BY <1>5, <1>12, <2>2 DEF Passes, SameRegisters
    <2> QED
      BY <1>12, <2>2, <2>3, <2>4
  <1>14. /\ Running(m4, -24) /\ m4.calls = << >> /\ m4.mem = m2.mem
         /\ m4.reg[rbp] = Stack(-8)
         /\ Passes(m4, unused[f], x, y)
    <2>0. /\ Running(m3, -8) /\ 16 \in Nat /\ -24 = -8 - 16
          /\ -24 \in -StackBytes + 32 .. 0
      BY <1>6, <1>13
    <2>1. /\ m4 = Step(m3, sub, unused)
          /\ sub[1] = "SUB" /\ sub[2] = rsp /\ sub[3] = 16
      BY <1>4, <1>7
    <2>2. /\ Running(m4, -24) /\ m4.calls = m3.calls
          /\ m4.mem = m3.mem
          /\ SameRegisters(m3, m4, {rsp})
      BY <2>0, <2>1, StepSub
    <2>3. Passes(m4, unused[f], x, y) /\ m4.reg[rbp] = Stack(-8)
      BY <1>5, <1>13, <2>2 DEF Passes, SameRegisters
    <2> QED
      BY <1>6, <1>13, <2>2, <2>3
  <1>15. /\ Running(m5, -24) /\ m5.calls = << >> /\ m5.mem = m2.mem
         /\ m5.reg[rbp] = Stack(-8) /\ m5.reg[rax] = <<"constant", f>>
         /\ Passes(m5, unused[f], x, y)
    <2>0. Running(m4, -24) /\ rax \in GeneralRegisters /\ rax # rsp
      BY <1>5, <1>14
    <2>1. /\ m5 = Step(m4, load, unused)
          /\ load[1] = "LOAD" /\ load[2] = rax /\ load[3] = f
      BY <1>4, <1>7
    <2>2. /\ Running(m5, -24) /\ m5.calls = m4.calls
          /\ m5.mem = m4.mem
          /\ SameRegisters(m4, m5, {rax})
          /\ m5.reg[rax] = <<"constant", f>>
      BY <2>0, <2>1, StepLoad
    <2>3. Passes(m5, unused[f], x, y) /\ m5.reg[rbp] = Stack(-8)
      BY <1>5, <1>14, <2>2 DEF Passes, SameRegisters
    <2> QED
      BY <1>14, <2>2, <2>3
  <1>16. /\ Running(m6, -24) /\ m6.mem = m2.mem
         /\ m6.calls = << CalledAt(f, -24) >>
         /\ m6.reg[rbp] = Stack(-8) /\ m6.reg[rax] = IntResult(f, x, y)
    <2>0. /\ Running(m5, -24) /\ rax \in GeneralRegisters
          /\ m5.reg[rax] = <<"constant", f>> /\ f \in DOMAIN unused
          /\ unused[f] = unused[f] /\ Passes(m5, unused[f], x, y)
      BY <1>5, <1>15
    <2>1. /\ m6 = Step(m5, call, unused)
          /\ call[1] = "CALL" /\ call[2] = rax
      BY <1>4, <1>7
    <2>2. /\ Running(m6, -24) /\ m6.mem = m5.mem
          /\ Calls(m5, m6, f, -24)
          /\ m6.reg[rbp] = m5.reg[rbp]
          /\ m6.reg[rax] = IntResult(f, x, y)
      BY <2>0, <2>1, StepCall
    <2>3. Append(<< >>, CalledAt(f, -24)) = << CalledAt(f, -24) >>
      OBVIOUS
    <2> QED
      BY <1>15, <2>2, <2>3 DEF Calls
  <1>17. /\ Running(m7, -8) /\ m7.mem = m2.mem /\ m7.calls = m6.calls
         /\ m7.reg[rax] = IntResult(f, x, y)
    <2>1. /\ m7 = Step(m6, unwind, unused)
          /\ unwind[1] = "MOV" /\ unwind[3] = rsp /\ unwind[4] = rbp
      BY <1>4, <1>7
    <2>2. /\ Running(m7, -8) /\ m7.calls = m6.calls
          /\ m7.mem = m6.mem
          /\ SameRegisters(m6, m7, {rsp})
      BY <1>5, <1>6, <1>16, <2>1, StepMove
    <2>3. m7.reg[rax] = m6.reg[rax]
      BY <1>5, <2>2 DEF SameRegisters
    <2> QED
      BY <1>16, <2>2, <2>3
  <1>18. /\ Running(m8, 0) /\ m8.mem = m2.mem /\ m8.calls = m6.calls
         /\ m8.reg[rbp] = CallerFrame /\ m8.reg[rax] = IntResult(f, x, y)
    <2>1. /\ m8 = Step(m7, pop, unused)
          /\ pop[1] = "POP" /\ pop[2] = rbp
      BY <1>4, <1>7
    <2>2. /\ Running(m8, 0) /\ m8.calls = m7.calls
          /\ m8.mem = m7.mem
          /\ SameRegisters(m7, m8, {rsp, rbp})
          /\ m8.reg[rbp] = m7.mem[-8]
      BY <1>5, <1>17, <2>1, StepPop
    <2>3. m8.reg[rax] = m7.reg[rax]
      BY <1>5, <2>2 DEF SameRegisters
    <2> QED
      BY <1>6, <1>12, <1>17, <2>2, <2>3
  <1>19. m9 = [m8 EXCEPT !.status = "returned"]
    <2>2. m8.mem[0] = ReturnAddress
      BY <1>12, <1>18
    <2> QED
      BY <1>18, <1>4, <2>2, StepRet
  <1>20. /\ m9.status = "returned" /\ m9.calls = m8.calls
         /\ m9.reg = m8.reg
    BY <1>18, <1>19 DEF Running
  <1>21. m[Len(ins)] = m9
    BY <1>8, <1>20
  <1>22. m8.reg[rsp] = Stack(0)
    BY <1>18 DEF Running
  <1> QED
    BY <1>2, <1>16, <1>18, <1>20, <1>21, <1>22

-----------------------------------------------------------------------------
(* The assembler of an injector.                                           *)

FrameSlot(n) == [offset |-> -(16 + 8 * n), size |-> 8]

(* Whatever was assembled before, an injection goes on from there.         *)
Extends(a, b) ==
  /\ AsmOK(b) /\ CodeOK(b) /\ SitesOK(b)
  /\ Continues(a, b)
  /\ b.curStackSlot = a.curStackSlot + 8
  /\ b.deoptRescue = [offset |-> -(a.curStackSlot + 8), size |-> 8]

(* The call that throws leaves the prologue behind, and no call.           *)
LEMMA CalledAfter ==
  ASSUME NEW a, AsmOK(a), CodeOK(a), SitesOK(a), NEW addr \in Int
  PROVE  LET p == EmitPrologue(a)
             b == EmitCall(p, addr)
         IN  /\ Extends(a, p) /\ Extends(a, b)
             /\ b.raised <=> a.nextRegister >= 6
             /\ b.raised => EmitsNone(p, b)
             /\ ~b.raised =>
                  b.listing = Append(Append(p.listing,
                                       <<"LOAD", NextRegister(a), addr>>),
                                     <<"CALL", NextRegister(a)>>)
             /\ Len(a.listing) = 0 => EntryOK(b)
  <1> DEFINE p == EmitPrologue(a)
             b == EmitCall(p, addr)
             r == NextRegister(p)
  <1>1. /\ Quiet(a, p) /\ Keeps(a, p)
        /\ p.curStackSlot = a.curStackSlot + 8
        /\ p.deoptRescue = [offset |-> -(a.curStackSlot + 8), size |-> 8]
        /\ Len(a.listing) = 0 => EntryOK(p)
    <2>1. QWORD = 8
      BY DEF QWORD
    <2> QED
      BY <2>1, PrologueQuiet, EmitPrologueKeeps
  <1>2. AsmOK(p) /\ CodeOK(p) /\ p.nextRegister = a.nextRegister
    BY <1>1 DEF Quiet, Keeps
  <1>3. r = NextRegister(a)
    BY <1>2 DEF NextRegister
  <1> HIDE DEF p
  <1>4. /\ b.raised => EmitsNone(p, b)
        /\ ~b.raised => /\ Loads(p, b, r, addr)
                        /\ b.listing
                             = Append(Append(p.listing, <<"LOAD", r, addr>>),
                                      <<"CALL", r>>)
    BY <1>2, CallLoads
  <1>5. Draws(p, b)
    BY <1>2, EmitCallDraws
  <1> HIDE DEF b
  <1>6. Continues(p, b) /\ CodeOK(b)
    BY <1>4 DEF EmitsNone, Quiet, Loads
  <1>7. SitesOK(p) /\ SitesOK(b)
    <2>1. SitesOK(p)
      BY <1>1, QuietSites
    <2>2. b.raised => SitesOK(b)
      BY <1>4, <2>1, QuietSites DEF EmitsNone
    <2>3. ~b.raised => SitesOK(b)
      BY <1>4, <2>1, LoadsSites
    <2> QED
      BY <2>1, <2>2, <2>3
  <1>8. Continues(a, p) /\ Continues(a, b)
    BY <1>1, <1>6, ContinuesChain DEF Quiet
  <1>9. Len(a.listing) = 0 => EntryOK(b)
    BY <1>1, <1>6 DEF Continues
  <1>10. Extends(a, p) /\ Extends(a, b)
    BY <1>1, <1>2, <1>5, <1>6, <1>7, <1>8 DEF Extends, Draws
  <1> QED
    BY <1>2, <1>3, <1>4, <1>5, <1>9, <1>10 DEF p, b, Draws

LEMMA InjectionExtends ==
  ASSUME NEW a, AsmOK(a), CodeOK(a), SitesOK(a), NEW addr \in Int
  PROVE  LET b == EmitInjection(a, addr)
         IN  /\ Extends(a, b)
             /\ b.raised <=> a.nextRegister >= 6
             /\ b.raised => EmitsNone(EmitPrologue(a), b)
             /\ ~b.raised =>
                  /\ Continues(EmitCall(EmitPrologue(a), addr), b)
                  /\ b.listing
                       = Append(IntRetListing(
                                  EmitCall(EmitPrologue(a), addr).listing),
                                <<"CALLREL", DEADDEAD>>)
             /\ Len(a.listing) = 0 => EntryOK(b)
  <1> DEFINE p      == EmitPrologue(a)
             called == EmitCall(p, addr)
             ret    == EmitIntRet(called, ReturnReg)
             b      == EmitEpilogue(ret)
             ended  == EmitInjection(a, addr)
  <1>1. ended = IF called.raised THEN called ELSE b
    BY DEF EmitInjection
  <1>2. /\ Extends(a, called)
        /\ called.raised <=> a.nextRegister >= 6
        /\ called.raised => EmitsNone(p, called)
        /\ Len(a.listing) = 0 => EntryOK(called)
    BY CalledAfter
  <1> HIDE DEF p, called, ended
  <1>3. CASE called.raised
    BY <1>1, <1>2, <1>3 DEF ended, p
  <1>4. CASE ~called.raised
    <2>1. AsmOK(called) /\ CodeOK(called) /\ SitesOK(called)
      BY <1>2 DEF Extends
    <2>2. ReturnReg = rax /\ ReturnReg \in GeneralRegisters /\ ReturnReg \in Int
      BY RegistersGeneral, RegistersInt DEF ReturnReg
    <2>3. /\ Quiet(called, ret) /\ ret.listing = IntRetListing(called.listing)
          /\ Emits(called, ret) /\ Keeps(called, ret)
      BY <2>1, <2>2, IntRetQuiet, EmitIntRetKeeps
    <2> HIDE DEF ret
    <2>4. AsmOK(ret) /\ CodeOK(ret) /\ SitesOK(ret)
      BY <2>1, <2>3, QuietSites DEF Keeps, Quiet
    <2>5. /\ CodeOK(b) /\ SitesOK(b) /\ Continues(ret, b)
          /\ b.listing = Append(ret.listing, <<"CALLREL", DEADDEAD>>)
          /\ Emits(ret, b) /\ Keeps(ret, b)
      BY <2>4, EpilogueSites, EmitEpilogueKeeps
    <2> HIDE DEF b
    <2>6. Continues(called, b)
      BY <2>3, <2>5, ContinuesChain DEF Quiet
    <2>7. Continues(a, b) /\ (Len(a.listing) = 0 => EntryOK(b))
      <3>1. Continues(a, b)
        BY <1>2, <2>6, ContinuesChain DEF Extends
      <3> QED
        BY <1>2, <2>6, <3>1 DEF Continues
    <2>8. /\ b.curStackSlot = called.curStackSlot
          /\ b.deoptRescue = called.deoptRescue
          /\ b.raised = called.raised
      BY <2>3, <2>5 DEF Emits
    <2>9. Extends(a, b)
      BY <1>2, <2>5, <2>7, <2>8 DEF Extends, Keeps
    <2> QED
      BY <1>1, <1>2, <1>4, <2>3, <2>5, <2>6, <2>7, <2>8, <2>9
         DEF ended, p, called
  <1> QED
    BY <1>3, <1>4

(* The first injection of an injector has the code of one.                 *)
Then(l, x) == Append(l, x)

(* next is l with one more element, the n-th.                              *)
OneMore(l, x, next, n) ==
  /\ IsSequence(next) /\ Len(next) = n /\ next[n] = x
  /\ \A i \in 1 .. n - 1 : next[i] = l[i]

LEMMA ThenAppends ==
  ASSUME NEW l, IsSequence(l), NEW n, n = Len(l) + 1, NEW x
  PROVE  OneMore(l, x, Then(l, x), n)
  BY SequenceAppended DEF Then, OneMore

Reserves == <<"SUB", rsp, 16>>
LoadsIt(f) == <<"LOAD", rax, f>>
CallsIt == <<"CALL", rax>>

LEMMA InjectionListed ==
  ASSUME NEW f, NEW l0, IsSequence(l0), Len(l0) = 0, NEW l3, NEW l4, NEW l5,
         NEW l6, NEW l9, NEW l10, NEW x,
         l3 = EntryListing(l0), l4 = Then(l3, Reserves),
         l5 = Then(l4, LoadsIt(f)), l6 = Then(l5, CallsIt),
         l9 = IntRetListing(l6), l10 = Then(l9, x)
  PROVE  IsInjection(l10, f)
  <1> DEFINE x1 == <<"NOP5">>
             x2 == <<"PUSH", rbp>>
             x3 == <<"MOV", TRUE, rbp, rsp>>
             x4 == Reserves
             x5 == LoadsIt(f)
             x6 == CallsIt
             x7 == <<"MOV", TRUE, rsp, rbp>>
             x8 == <<"POP", rbp>>
             x9 == <<"RET">>
             l1 == Then(l0, x1)
             l2 == Then(l1, x2)
             l7 == Then(l6, x7)
             l8 == Then(l7, x8)
  <1>1. l3 = Then(l2, x3) /\ l9 = Then(l8, x9)
    BY DEF EntryListing, IntRetListing, Then
  <1>2. /\ l4 = Then(l3, x4) /\ l5 = Then(l4, x5) /\ l6 = Then(l5, x6)
        /\ l10 = Then(l9, x)
    OBVIOUS
  <1>3. /\ l1 = Then(l0, x1) /\ l2 = Then(l1, x2) /\ l7 = Then(l6, x7)
        /\ l8 = Then(l7, x8)
    OBVIOUS
  <1> HIDE DEF x1, x2, x3, x4, x5, x6, x7, x8, x9, l1, l2, l7, l8
  <1>4. OneMore(l0, x1, l1, 1)
    <2>1. IsSequence(l0) /\ 1 = Len(l0) + 1
      OBVIOUS
    <2>2. OneMore(l0, x1, Then(l0, x1), 1)
      BY <2>1, ThenAppends
    <2> QED
      BY <1>1, <1>2, <1>3, <2>2
  <1>5. OneMore(l1, x2, l2, 2)
    <2>1. IsSequence(l1) /\ 2 = Len(l1) + 1
      BY <1>4 DEF OneMore
    <2>2. OneMore(l1, x2, Then(l1, x2), 2)
      BY <2>1, ThenAppends
    <2> QED
      BY <1>1, <1>2, <1>3, <2>2
  <1>6. OneMore(l2, x3, l3, 3)
    <2>1. IsSequence(l2) /\ 3 = Len(l2) + 1
      BY <1>5 DEF OneMore
    <2>2. OneMore(l2, x3, Then(l2, x3), 3)
      BY <2>1, ThenAppends
    <2> QED
      BY <1>1, <1>2, <1>3, <2>2
  <1>7. OneMore(l3, x4, l4, 4)
    <2>1. IsSequence(l3) /\ 4 = Len(l3) + 1
      BY <1>6 DEF OneMore
    <2>2. OneMore(l3, x4, Then(l3, x4), 4)
      BY <2>1, ThenAppends
    <2> QED
      BY <1>1, <1>2, <1>3, <2>2
  <1>8. OneMore(l4, x5, l5, 5)
    <2>1. IsSequence(l4) /\ 5 = Len(l4) + 1
      BY <1>7 DEF OneMore
    <2>2. OneMore(l4, x5, Then(l4, x5), 5)
      BY <2>1, ThenAppends
    <2> QED
      BY <1>1, <1>2, <1>3, <2>2
  <1>9. OneMore(l5, x6, l6, 6)
    <2>1. IsSequence(l5) /\ 6 = Len(l5) + 1
      BY <1>8 DEF OneMore
    <2>2. OneMore(l5, x6, Then(l5, x6), 6)
      BY <2>1, ThenAppends
    <2> QED
      BY <1>1, <1>2, <1>3, <2>2
  <1>10. OneMore(l6, x7, l7, 7)
    <2>1. IsSequence(l6) /\ 7 = Len(l6) + 1
      BY <1>9 DEF OneMore
    <2>2. OneMore(l6, x7, Then(l6, x7), 7)
      BY <2>1, ThenAppends
    <2> QED
      BY <1>1, <1>2, <1>3, <2>2
  <1>11. OneMore(l7, x8, l8, 8)
    <2>1. IsSequence(l7) /\ 8 = Len(l7) + 1
      BY <1>10 DEF OneMore
    <2>2. OneMore(l7, x8, Then(l7, x8), 8)
      BY <2>1, ThenAppends
    <2> QED
      BY <1>1, <1>2, <1>3, <2>2
  <1>12. OneMore(l8, x9, l9, 9)
    <2>1. IsSequence(l8) /\ 9 = Len(l8) + 1
      BY <1>11 DEF OneMore
    <2>2. OneMore(l8, x9, Then(l8, x9), 9)
      BY <2>1, ThenAppends
    <2> QED
      BY <1>1, <1>2, <1>3, <2>2
  <1>13. OneMore(l9, x, l10, 10)
    <2>1. IsSequence(l9) /\ 10 = Len(l9) + 1
      BY <1>12 DEF OneMore
    <2>2. OneMore(l9, x, Then(l9, x), 10)
      BY <2>1, ThenAppends
    <2> QED
      BY <1>1, <1>2, <1>3, <2>2
  <1>14. /\ Len(l10) = 10
         /\ l10[1] = x1 /\ l10[2] = x2 /\ l10[3] = x3 /\ l10[4] = x4
         /\ l10[5] = x5 /\ l10[6] = x6 /\ l10[7] = x7 /\ l10[8] = x8
         /\ l10[9] = x9
    <2>1. l10[1] = x1
      BY <1>4, <1>5, <1>6, <1>7, <1>8, <1>9, <1>10, <1>11, <1>12,
         <1>13 DEF OneMore
    <2>2. l10[2] = x2
      BY <1>5, <1>6, <1>7, <1>8, <1>9, <1>10, <1>11, <1>12, <1>13 DEF OneMore
    <2>3. l10[3] = x3
      BY <1>6, <1>7, <1>8, <1>9, <1>10, <1>11, <1>12, <1>13 DEF OneMore
    <2>4. l10[4] = x4
      BY <1>7, <1>8, <1>9, <1>10, <1>11, <1>12, <1>13 DEF OneMore
    <2>5. l10[5] = x5
      BY <1>8, <1>9, <1>10, <1>11, <1>12, <1>13 DEF OneMore
    <2>6. l10[6] = x6
      BY <1>9, <1>10, <1>11, <1>12, <1>13 DEF OneMore
    <2>7. l10[7] = x7
      BY <1>10, <1>11, <1>12, <1>13 DEF OneMore
    <2>8. l10[8] = x8
      BY <1>11, <1>12, <1>13 DEF OneMore
    <2>9. l10[9] = x9
      BY <1>12, <1>13 DEF OneMore
    <2> QED
      BY <1>13, <2>1, <2>2, <2>3, <2>4, <2>5, <2>6, <2>7, <2>8, <2>9 DEF OneMore
  <1>15. Len(l10) \in Nat /\ Len(l10) >= 9
    BY <1>14
  <1> QED
    BY <1>14, <1>15, Zenon
       DEF IsInjection, x1, x2, x3, x4, x5, x6, x7, x8, x9, Reserves,
           LoadsIt, CallsIt

LEMMA FirstInjection ==
  ASSUME NEW f \in Int, NEW b, b = EmitInjection(NewAssembler, f)
  PROVE  ~b.raised /\ IsInjection(b.listing, f) /\ EntryOK(b)
  <1> DEFINE a == NewAssembler
             e == Entry(a)
             p == EmitPrologue(a)
             c == EmitCall(p, f)
  <1>1. AsmOK(a) /\ CodeOK(a) /\ SitesOK(a) /\ Len(a.listing) = 0
    BY NewAssemblerOK
  <1>2. /\ a.nextRegister = 0 /\ a.curStackSlot = 16 /\ a.frameSize = 16
        /\ a.listing = << >>
    BY DEF NewAssembler, InitialFrameSize
  <1> HIDE DEF a
  <1>3. /\ b.raised <=> a.nextRegister >= 6
        /\ ~b.raised => b.listing = Append(IntRetListing(c.listing),
                                           <<"CALLREL", DEADDEAD>>)
        /\ EntryOK(b)
    BY <1>1, InjectionExtends DEF a
  <1>4. ~b.raised
    BY <1>2, <1>3
  <1>5. c.listing = Append(Append(p.listing, <<"LOAD", NextRegister(a), f>>),
                           <<"CALL", NextRegister(a)>>)
    <2>1. c.raised <=> a.nextRegister >= 6
      BY <1>1, CalledAfter
    <2>2. ~c.raised
      BY <1>2, <2>1
    <2> QED
      BY <1>1, <2>2, CalledAfter
  <1>6. NextRegister(a) = rax
    BY <1>2 DEF NextRegister, Registers
  <1>7. p.listing = GrowFrame(e, QWORD).listing
    BY <1>1, PrologueQuiet
  <1>8. /\ AsmOK(e) /\ CodeOK(e) /\ e.curStackSlot = 16 /\ e.frameSize = 16
        /\ e.listing = EntryListing(a.listing)
    BY <1>1, <1>2, EntryQuiet DEF Emits, Quiet
  <1> HIDE DEF e, p, c
  <1>9. p.listing = Append(e.listing, <<"SUB", rsp, 16>>)
    <2>1. QWORD = 8 /\ QWORD \in Nat \ {0}
      BY DEF QWORD
    <2>2. AlignedFrame(16 + 8) - 16 = 16
      BY DEF AlignedFrame, StackAlignment
    <2>3. GrowFrame(e, QWORD).listing
            = IF e.curStackSlot + QWORD > e.frameSize
              THEN Append(e.listing, <<"SUB", rsp,
                     AlignedFrame(e.curStackSlot + QWORD) - e.frameSize>>)
              ELSE e.listing
      BY <1>8, <2>1, GrowFrameQuiet
    <2> QED
      BY <1>7, <1>8, <2>1, <2>2, <2>3
  <1>10. IsInjection(b.listing, f)
    <2> DEFINE l4 == p.listing
               l5 == Then(l4, LoadsIt(f))
               l9 == IntRetListing(c.listing)
    <2>1. IsSequence(a.listing)
      BY <1>1 DEF CodeOK, Decodes
    <2>2. /\ l4 = Then(e.listing, Reserves)
          /\ c.listing = Then(l5, CallsIt)
          /\ b.listing = Then(l9, <<"CALLREL", DEADDEAD>>)
      BY <1>3, <1>4, <1>5, <1>6, <1>9
         DEF Then, Reserves, LoadsIt, CallsIt
    <2>3. l5 = Then(l4, LoadsIt(f)) /\ l9 = IntRetListing(c.listing)
      OBVIOUS
    <2> HIDE DEF l4, l5, l9
    <2> QED
      BY <1>1, <1>8, <2>1, <2>2, <2>3, InjectionListed
  <1> QED
    BY <1>3, <1>4, <1>10

LEMMA InjectionStays ==
  ASSUME NEW a, NEW b, NEW f, Continues(a, b), IsInjection(a.listing, f)
  PROVE  IsInjection(b.listing, f)
  <1>1. \A k \in 1 .. 9 : k \in 1 .. Len(a.listing)
    BY DEF IsInjection
  <1>2. \A k \in 1 .. 9 : b.listing[k] = a.listing[k]
    BY <1>1 DEF Continues
  <1>3. Len(b.listing) \in Nat /\ Len(b.listing) >= 9
    BY DEF Continues, IsInjection
  <1>4. /\ b.listing[1] = a.listing[1] /\ b.listing[2] = a.listing[2]
        /\ b.listing[3] = a.listing[3] /\ b.listing[4] = a.listing[4]
        /\ b.listing[5] = a.listing[5] /\ b.listing[6] = a.listing[6]
        /\ b.listing[7] = a.listing[7] /\ b.listing[8] = a.listing[8]
        /\ b.listing[9] = a.listing[9]
    BY <1>2
  <1> QED
    BY <1>3, <1>4 DEF IsInjection

LEMMA InjectionDecoded ==
  ASSUME NEW a, NEW f, CodeOK(a), IsInjection(a.listing, f)
  PROVE  /\ IsInjection(Instructions(a.code), f)
         /\ a.code # << >>
  <1> DEFINE D == Decoded(a)
             l == a.listing
             ins == Instructions(a.code)
  <1>1. /\ IsSequence(D) /\ Len(D) = Len(l) /\ DOMAIN D = 1 .. Len(D)
        /\ \A k \in 1 .. Len(l) : D[k].ins = AsDecoded(l[k])
    BY SequenceAppended DEF CodeOK, Decodes, Decoding
  <1>2. ins = [i \in DOMAIN D |-> D[i].ins]
    BY DEF Instructions, InstructionsOf, Decoded
  <1>3. a.code # << >>
    <2>1. SUFFICES ASSUME a.code = << >> PROVE FALSE
      OBVIOUS
    <2>2. D = << >>
      <3>1. << >> \in Seq(Items)
        OBVIOUS
      <3>2. Disassembly(<< >>) = << >>
        BY <3>1, DecodingEmpty, DisassemblyIs
      <3> QED
        BY <2>1, <3>2 DEF Decoded
    <2> QED
      BY <1>1, <2>2 DEF IsInjection
  <1> HIDE DEF D, ins
  <1>4. Len(l) \in Nat /\ Len(l) >= 9
    BY DEF IsInjection
  <1>5. Len(ins) = Len(l)
    BY <1>1, <1>2, <1>4
  <1>6. \A k \in 1 .. 9 : ins[k] = AsDecoded(l[k])
    BY <1>1, <1>2, <1>4
  <1> HIDE DEF l
  <1>7. \A k \in 1 .. 9 : AsDecoded(l[k]) = l[k]
    <2>1. /\ l[1][1] # "CALL" /\ l[2][1] # "CALL" /\ l[3][1] # "CALL"
          /\ l[4][1] # "CALL" /\ l[5][1] # "CALL" /\ l[7][1] # "CALL"
          /\ l[8][1] # "CALL" /\ l[9][1] # "CALL"
          /\ l[6][2] = rax
      BY DEF IsInjection, l
    <2>2. ~(rax >= 8)
      BY DEF rax
    <2>3. \A k \in 1 .. 9 : l[k][1] # "CALL" \/ ~(l[k][2] >= 8)
      BY <2>1, <2>2
    <2> QED
      BY <2>3, OtherwiseDecoded
  <1>8. \A k \in 1 .. 9 : ins[k] = l[k]
    BY <1>6, <1>7
  <1>9. /\ ins[1] = l[1] /\ ins[2] = l[2] /\ ins[3] = l[3] /\ ins[4] = l[4]
        /\ ins[5] = l[5] /\ ins[6] = l[6] /\ ins[7] = l[7] /\ ins[8] = l[8]
        /\ ins[9] = l[9]
    BY <1>8
  <1>10. IsInjection(ins, f)
    BY <1>4, <1>5, <1>9 DEF IsInjection, l
  <1> QED
    BY <1>3, <1>10 DEF ins

-----------------------------------------------------------------------------
(* The installed code.                                                     *)

(* What is installed by the n-th use of an injector whose first injected f.*)
Installs(code, f, n) ==
  /\ code.targetCode # << >>
  /\ IsInjection(Instructions(code.targetCode), f)
  /\ Addressed(Disassembly(code.targetCode)) \cap (1 .. 4) = {}
  /\ code.totalFrameSize \in Nat
  /\ code.totalFrameSize = 32 <=> n <= 2
  /\ code.deoptRescueSlot = FrameSlot(n)

LEMMA EntryAddressed ==
  ASSUME NEW a, AsmOK(a), CodeOK(a), EntryOK(a)
  PROVE  Addressed(Disassembly(a.code)) \cap (1 .. 4) = {}
  <1> DEFINE D == Decoded(a)
             at == Addresses(a.code)
  <1>1. /\ IsSequence(D) /\ DOMAIN D = 1 .. Len(D) /\ Len(D) \in Nat
        /\ \A k \in 1 .. Len(D) :
             /\ StartOf(D, k) \in 1 .. Len(a.code)
             /\ D[k] = Located(InstructionAt(a.code, StartOf(D, k)),
                               StartOf(D, k), at)
    BY SequenceAppended DEF CodeOK, Decodes, Decoding
  <1>2. a.code \in Seq(Items)
    BY DEF AsmOK, IsAssembler
  <1>3. at[1] = 0
    BY <1>2, AddressesFacts
  <1>4. \A k \in 2 .. Len(D) : D[k].at >= 5
    BY DEF EntryOK
  <1>5. Addressed(Disassembly(a.code)) = {D[k].at : k \in DOMAIN D}
    BY DEF Addressed, Decoded
  <1> HIDE DEF D, at
  <1>6. 1 \in 1 .. Len(D) => D[1].at = 0
    <2>1. SUFFICES ASSUME 1 \in 1 .. Len(D) PROVE D[1].at = 0
      OBVIOUS
    <2>2. D[1] = Located(InstructionAt(a.code, StartOf(D, 1)), StartOf(D, 1),
                         at)
      BY <1>1, <2>1
    <2>3. StartOf(D, 1) = 1
      BY DEF StartOf
    <2>4. D[1] = Located(InstructionAt(a.code, 1), 1, at)
      BY <2>2, <2>3
    <2>5. D[1].at = at[1]
      BY <2>4 DEF Located
    <2> QED
      BY <1>3, <2>5
  <1>7. \A k \in 1 .. Len(D) : D[k].at \notin 1 .. 4
    <2> TAKE k \in 1 .. Len(D)
    <2>1. k = 1 \/ k \in 2 .. Len(D)
      BY <1>1
    <2> QED
      BY <1>4, <1>6, <2>1
  <1> QED
    BY <1>1, <1>5, <1>7

LEMMA FinishInstalls ==
  ASSUME NEW a, AsmOK(a), CodeOK(a), EntryOK(a),
         NEW f, IsInjection(a.listing, f),
         NEW n \in Nat \ {0}, a.curStackSlot = 16 + 8 * n,
         a.deoptRescue = FrameSlot(n),
         NEW code, code = Finish(a)
  PROVE  Installs(code, f, n)
  <1>1. /\ code.targetCode = a.code /\ code.totalFrameSize = a.frameSize
        /\ code.deoptRescueSlot = a.deoptRescue
    BY DEF Finish
  <1>2. IsInjection(Instructions(a.code), f) /\ a.code # << >>
    BY InjectionDecoded
  <1>3. a.frameSize \in Nat /\ (a.frameSize = 32 <=> n <= 2)
    <2>1. /\ a.frameSize \in Nat /\ a.frameSize % 16 = 0
          /\ a.frameSize - a.curStackSlot \in 0 .. 15
      BY DEF AsmOK, IsAssembler, FrameOK, StackAlignment
    <2> QED
      BY <2>1
  <1>4. Addressed(Disassembly(a.code)) \cap (1 .. 4) = {}
    BY EntryAddressed
  <1> QED
    BY <1>1, <1>2, <1>3, <1>4 DEF Installs

(* What a call of the code of an injection of f comes to.                  *)
LEMMA InstalledRuns ==
  ASSUME NEW code, NEW f \in Functions,
         IsInjection(Instructions(code), f),
         NEW m, NEW end, end = Call(m, code)
  PROVE  /\ end.calls = << CalledAt(f, -24) >>
         /\ Fits(m, f) => /\ ReturnsResultOf(end, f)
                          /\ Effect(end) = << "function", f >>
  <1> DEFINE ins == Instructions(code)
             args == IF m \in StaticMethods THEN << "a", "b" >>
                     ELSE << "this", "a", "b" >>
             u == Unused[f]
             in == Entered(args)
             unused == Unused
  <1>1. /\ end = RunInstructions(ins, args, unused)
        /\ f \in DOMAIN unused /\ unused[f] = u
        /\ u = IF f \in StaticFunctions THEN 1 ELSE 2
    BY DEF Call, Run, Unused
  <1>2. DOMAIN args \subseteq 1 .. 3
    BY DEF args
  <1>3. m \in StaticMethods =>
          Passes(in, 1, << "argument", "a" >>, << "argument", "b" >>)
    BY EnteredPasses
  <1>4. m \notin StaticMethods =>
          Passes(in, 2, << "argument", "a" >>, << "argument", "b" >>)
    BY EnteredPasses
  <1>5. \E x, y : Passes(in, u, x, y)
    <2>1. CASE u = 1
      BY <2>1 DEF Passes
    <2>2. CASE u = 2
      BY <2>2 DEF Passes
    <2> QED
      BY <1>1, <2>1, <2>2
  <1>6. Fits(m, f) =>
          Passes(in, u, << "argument", "a" >>, << "argument", "b" >>)
    BY <1>1, <1>3, <1>4 DEF Fits
  <1>7. IsInjection(ins, f)
    OBVIOUS
  <1> HIDE DEF ins, args, u, unused
  <1>8. ASSUME NEW x, NEW y, Passes(in, u, x, y)
        PROVE  /\ end.status = "returned"
               /\ end.reg[rax] = IntResult(f, x, y)
               /\ end.reg[rsp] = Stack(0) /\ end.reg[rbp] = CallerFrame
               /\ end.calls = << CalledAt(f, -24) >>
    <2>1. Passes(Entered(args), unused[f], x, y)
      BY <1>1, <1>8
    <2> QED
      BY <1>1, <1>2, <1>7, <2>1, InjectionRuns
  <1>9. end.calls = << CalledAt(f, -24) >>
    BY <1>5, <1>8
  <1>10. Len(end.calls) = 1 /\ end.calls[1].target = f
    <2>1. end.calls[1] = CalledAt(f, -24) /\ Len(end.calls) = 1
      BY <1>9
    <2> QED
      BY <2>1 DEF CalledAt
  <1>11. Fits(m, f) => ReturnsResultOf(end, f)
    BY <1>6, <1>8, <1>10 DEF ReturnsResultOf
  <1>12. Fits(m, f) => Effect(end) = << "function", f >>
    BY <1>10, <1>11, Zenon DEF Effect
  <1> QED
    BY <1>9, <1>11, <1>12

(* The frame of the code at the call.                                      *)
LEMMA InstalledFrame ==
  ASSUME NEW code, NEW f \in Functions, NEW n \in Nat \ {0},
         Installs(code, f, n), NEW m, NEW end, end = Call(m, code.targetCode)
  PROVE  FrameFits(end.calls[1].sp, code.totalFrameSize,
                   code.deoptRescueSlot) <=> n <= 2
  <1>1. end.calls = << CalledAt(f, -24) >>
    BY InstalledRuns DEF Installs
  <1>2. end.calls[1].sp = -24
    <2>1. end.calls[1] = CalledAt(f, -24)
      BY <1>1
    <2> QED
      BY <2>1 DEF CalledAt
  <1>3. /\ code.totalFrameSize \in Nat /\ (code.totalFrameSize = 32 <=> n <= 2)
        /\ code.deoptRescueSlot.offset = -(16 + 8 * n)
        /\ code.deoptRescueSlot.size = 8
    BY DEF Installs, FrameSlot
  <1> QED
    BY <1>2, <1>3 DEF FrameFits

-----------------------------------------------------------------------------
(* The inductive invariant.                                                *)

(* The prologues emitted by injector i: it is ahead of them by one while a *)
(* method is marked.                                                       *)
Prologues(i) == Len(uses[i]) - (IF pc[i] = "marked" THEN 1 ELSE 0)

(* An assembler after n prologues for the addresses s: it goes on from     *)
(* what it emitted before.                                                 *)
AssemblerAt(a, s, n) ==
  /\ AsmOK(a) /\ CodeOK(a) /\ SitesOK(a)
  /\ n \in Nat
  /\ a.curStackSlot = 16 + 8 * n
  /\ n = 0 => a = NewAssembler
  /\ n >= 1 => /\ IsInjection(a.listing, s[1])
               /\ EntryOK(a)
               /\ a.deoptRescue = FrameSlot(n)

AssemblerInv(i) == AssemblerAt(asm[i], uses[i], Prologues(i))

JobInv(i) ==
  /\ uses[i] \in Seq(Functions) /\ Len(uses[i]) <= MaxUses
  /\ pc[i] \in {"idle", "marked", "assembled"}
  /\ pc[i] = "idle" => job[i] = << >>
  /\ pc[i] # "idle" =>
       /\ job[i] \in [method : Methods, addr : Functions]
       /\ Len(uses[i]) >= 1 /\ job[i].addr = uses[i][Len(uses[i])]
       /\ Fits(job[i].method, job[i].addr)
       /\ job[i].method \in marked

(* The code of m is that of a use of an injector.                          *)
InstalledInv(m) ==
  LET h == injected[m]
      code == installed[m]
  IN  /\ h.by \in Injectors
      /\ h.nth \in 1 .. Len(uses[h.by])
      /\ h.addr = uses[h.by][h.nth]
      /\ Fits(m, h.addr)
      /\ Installs(code, uses[h.by][1], h.nth)
      /\ h.runs = Effect(Call(m, code.targetCode))
      /\ m \in marked

MethodInv(m) ==
  \/ installed[m] = NoCode /\ injected[m] = NotInjected
  \/ InstalledInv(m)

DomainInv ==
  /\ asm  = [i \in Injectors |-> asm[i]]
  /\ pc   = [i \in Injectors |-> pc[i]]
  /\ job  = [i \in Injectors |-> job[i]]
  /\ uses = [i \in Injectors |-> uses[i]]
  /\ installed = [m \in Methods |-> installed[m]]
  /\ injected  = [m \in Methods |-> injected[m]]

VMInv ==
  /\ UNION {marked, interpreted, compiling, javaCode, inlined} \subseteq Methods
  /\ early \subseteq marked
  /\ marked \cap (compiling \cup inlined) \subseteq early

Inv ==
  /\ DomainInv
  /\ \A i \in Injectors : AssemblerInv(i) /\ JobInv(i)
  /\ \A m \in Methods : MethodInv(m)
  /\ VMInv

-----------------------------------------------------------------------------
(* What the steps do to the assemblers and to the addresses injected.      *)

LEMMA NewAssemblerAt ==
  ASSUME NEW s
  PROVE  AssemblerAt(NewAssembler, s, 0)
  <1>1. NewAssembler.curStackSlot = 16 + 8 * 0
    BY DEF NewAssembler, InitialFrameSize
  <1> QED
    BY <1>1, NewAssemblerOK DEF AssemblerAt

LEMMA InjectionAt ==
  ASSUME NEW a, NEW s, NEW n, AssemblerAt(a, s, n),
         NEW addr \in Int, n = 0 => s[1] = addr,
         NEW b, b = EmitInjection(a, addr)
  PROVE  AssemblerAt(b, s, n + 1)
  <1>1. /\ AsmOK(a) /\ CodeOK(a) /\ SitesOK(a) /\ n \in Nat
        /\ a.curStackSlot = 16 + 8 * n
    BY DEF AssemblerAt
  <1>2. Extends(a, b)
    BY <1>1, InjectionExtends
  <1>3. /\ AsmOK(b) /\ CodeOK(b) /\ SitesOK(b) /\ Continues(a, b)
        /\ b.curStackSlot = a.curStackSlot + 8
        /\ b.deoptRescue = [offset |-> -(a.curStackSlot + 8), size |-> 8]
    BY <1>2 DEF Extends
  <1>4. b.deoptRescue = FrameSlot(n + 1)
    <2>1. -(a.curStackSlot + 8) = -(16 + 8 * (n + 1))
      BY <1>1
    <2> QED
      BY <1>3, <2>1 DEF FrameSlot
  <1>5. IsInjection(b.listing, s[1]) /\ EntryOK(b)
    <2>1. CASE n = 0
      <3>1. a = NewAssembler /\ s[1] = addr
        BY <2>1 DEF AssemblerAt
      <3> QED
        BY <3>1, FirstInjection
    <2>2. CASE n >= 1
      <3>1. IsInjection(a.listing, s[1]) /\ EntryOK(a)
        BY <2>2 DEF AssemblerAt
      <3> QED
        BY <1>3, <3>1, InjectionStays DEF Continues
    <2> QED
      BY <1>1, <2>1, <2>2
  <1>6. n + 1 \in Nat /\ n + 1 # 0 /\ b.curStackSlot = 16 + 8 * (n + 1)
    BY <1>1, <1>3
  <1> QED
    BY <1>3, <1>4, <1>5, <1>6 DEF AssemblerAt

(* An address that is injected does not move those injected before.        *)
Grows(s, t) ==
  /\ Len(s) \in Nat /\ Len(t) \in Nat /\ Len(s) <= Len(t)
  /\ \A k \in 1 .. Len(s) : t[k] = s[k]

LEMMA AppendGrows ==
  ASSUME NEW S, NEW s \in Seq(S), NEW x \in S
  PROVE  /\ Append(s, x) \in Seq(S) /\ Len(Append(s, x)) = Len(s) + 1
         /\ Append(s, x)[Len(s) + 1] = x
         /\ Grows(s, Append(s, x))
  BY DEF Grows

LEMMA AssemblerStays ==
  ASSUME NEW a, NEW s, NEW t, NEW n, AssemblerAt(a, s, n), Grows(s, t),
         n <= Len(s)
  PROVE  AssemblerAt(a, t, n)
  <1>1. n >= 1 => t[1] = s[1]
    BY DEF Grows, AssemblerAt
  <1> QED
    BY <1>1 DEF AssemblerAt

LEMMA InstalledStays ==
  ASSUME NEW m, InstalledInv(m),
         installed'[m] = installed[m], injected'[m] = injected[m],
         marked \subseteq marked',
         \A i \in Injectors : Grows(uses[i], uses'[i])
  PROVE  InstalledInv(m)'
  <1> DEFINE h == injected[m]
             i == h.by
  <1>1. i \in Injectors /\ h.nth \in 1 .. Len(uses[i])
    BY DEF InstalledInv
  <1>2. Grows(uses[i], uses'[i])
    BY <1>1
  <1>3. /\ h.nth \in 1 .. Len(uses'[i]) /\ 1 \in 1 .. Len(uses[i])
        /\ uses'[i][h.nth] = uses[i][h.nth] /\ uses'[i][1] = uses[i][1]
    BY <1>1, <1>2 DEF Grows
  <1> QED
    BY <1>1, <1>3 DEF InstalledInv

LEMMA MethodStays ==
  ASSUME NEW m, MethodInv(m),
         installed'[m] = installed[m], injected'[m] = injected[m],
         marked \subseteq marked',
         \A i \in Injectors : Grows(uses[i], uses'[i])
  PROVE  MethodInv(m)'
  <1>1. CASE InstalledInv(m)
    <2>1. InstalledInv(m)'
      BY <1>1, InstalledStays
    <2> QED
      BY <2>1 DEF MethodInv
  <1>2. CASE installed[m] = NoCode /\ injected[m] = NotInjected
    BY <1>2 DEF MethodInv
  <1> QED
    BY <1>1, <1>2 DEF MethodInv

-----------------------------------------------------------------------------
(* The steps.                                                              *)

LEMMA InitInv ==
  ASSUME Init
  PROVE  Inv
  <1>1. DomainInv
    BY DEF Init, DomainInv
  <1>2. ASSUME NEW i \in Injectors
        PROVE  AssemblerInv(i) /\ JobInv(i)
    <2>1. /\ asm[i] = NewAssembler /\ pc[i] = "idle" /\ job[i] = << >>
          /\ uses[i] = << >>
      BY DEF Init
    <2>2. << >> \in Seq(Functions) /\ Len(<< >>) = 0
      OBVIOUS
    <2>3. Prologues(i) = 0
      BY <2>1, <2>2 DEF Prologues
    <2>4. AssemblerInv(i)
      BY <2>1, <2>3, NewAssemblerAt DEF AssemblerInv
    <2>5. JobInv(i)
      BY <2>1, <2>2, InjectorAssumption DEF JobInv
    <2> QED
      BY <2>4, <2>5
  <1>3. \A m \in Methods : MethodInv(m)
    BY DEF Init, MethodInv
  <1>4. VMInv
    BY DEF Init, VMInv
  <1> QED
    BY <1>1, <1>2, <1>3, <1>4 DEF Inv

LEMMA InjectorStays ==
  ASSUME NEW i, AssemblerInv(i), JobInv(i),
         asm'[i] = asm[i], pc'[i] = pc[i], job'[i] = job[i],
         uses'[i] = uses[i], marked \subseteq marked'
  PROVE  AssemblerInv(i)' /\ JobInv(i)'
  <1>1. Prologues(i)' = Prologues(i)
    BY DEF Prologues
  <1>2. AssemblerInv(i)'
    BY <1>1 DEF AssemblerInv
  <1>3. JobInv(i)'
    BY DEF JobInv
  <1> QED
    BY <1>2, <1>3

LEMMA UsesStay ==
  ASSUME \A i \in Injectors : JobInv(i), uses' = uses
  PROVE  \A i \in Injectors : Grows(uses[i], uses'[i])
  BY DEF JobInv, Grows

LEMMA LookupInv ==
  ASSUME Inv, NEW i \in Injectors, NEW m \in Methods, NEW addr \in Functions,
         LookupAndMark(i, m, addr)
  PROVE  Inv'
  <1> DEFINE s == uses[i]
             t == Append(s, addr)
             j0 == [method |-> m, addr |-> addr]
  <1>1. /\ DomainInv /\ VMInv /\ AssemblerInv(i) /\ JobInv(i)
        /\ \A j \in Injectors : AssemblerInv(j) /\ JobInv(j)
        /\ \A x \in Methods : MethodInv(x)
    BY DEF Inv
  <1>2. /\ pc[i] = "idle" /\ Len(s) < MaxUses /\ Fits(m, addr)
        /\ pc'   = [pc EXCEPT ![i] = "marked"]
        /\ job'  = [job EXCEPT ![i] = j0]
        /\ uses' = [uses EXCEPT ![i] = t]
        /\ marked' = marked \cup {m}
        /\ early'  = IF m \in (compiling \cup inlined) \ marked
                     THEN early \cup {m} ELSE early
        /\ asm' = asm /\ installed' = installed /\ injected' = injected
        /\ interpreted' = interpreted /\ compiling' = compiling
        /\ javaCode' = javaCode /\ inlined' = inlined
    BY DEF LookupAndMark, vmVars
  <1>3. DomainInv'
    BY <1>1, <1>2 DEF DomainInv
  <1>4. /\ pc'[i] = "marked" /\ job'[i] = j0 /\ uses'[i] = t
        /\ asm'[i] = asm[i]
        /\ \A j \in Injectors : j # i =>
             /\ pc'[j] = pc[j] /\ job'[j] = job[j] /\ uses'[j] = uses[j]
             /\ asm'[j] = asm[j]
    BY <1>1, <1>2 DEF DomainInv
  <1>5. s \in Seq(Functions) /\ Len(s) \in Nat /\ MaxUses \in Nat
    BY <1>1, InjectorAssumption DEF JobInv
  <1>6. /\ t \in Seq(Functions) /\ Len(t) = Len(s) + 1
        /\ t[Len(s) + 1] = addr /\ Grows(s, t)
    BY <1>5, AppendGrows
  <1>7. AssemblerInv(i)'
    <2>1. Prologues(i) = Len(s) /\ Prologues(i)' = Len(s)
      BY <1>2, <1>4, <1>5, <1>6 DEF Prologues
    <2>2. AssemblerAt(asm[i], s, Len(s))
      BY <1>1, <2>1 DEF AssemblerInv
    <2>3. AssemblerAt(asm[i], t, Len(s))
      BY <1>5, <1>6, <2>2, AssemblerStays
    <2> QED
      BY <1>4, <2>1, <2>3 DEF AssemblerInv
  <1>8. JobInv(i)'
    <2>1. j0 \in [method : Methods, addr : Functions]
          /\ j0.method = m /\ j0.addr = addr
      OBVIOUS
    <2>2. Len(t) <= MaxUses /\ Len(t) >= 1 /\ t[Len(t)] = addr
      BY <1>2, <1>5, <1>6
    <2> HIDE DEF t, j0
    <2> QED
      BY <1>2, <1>4, <1>6, <2>1, <2>2 DEF JobInv
  <1> HIDE DEF t, j0
  <1>9. ASSUME NEW j \in Injectors PROVE AssemblerInv(j)' /\ JobInv(j)'
    <2>1. CASE j = i
      BY <1>7, <1>8, <2>1
    <2>2. CASE j # i
      BY <1>1, <1>2, <1>4, <2>2, InjectorStays
    <2> QED
      BY <2>1, <2>2
  <1>10. \A j \in Injectors : Grows(uses[j], uses'[j])
    <2> TAKE j \in Injectors
    <2>1. CASE j = i
      BY <1>4, <1>6, <2>1
    <2>2. CASE j # i
      BY <1>1, <1>4, <2>2 DEF JobInv, Grows
    <2> QED
      BY <2>1, <2>2
  <1>11. ASSUME NEW x \in Methods PROVE MethodInv(x)'
    BY <1>1, <1>2, <1>10, MethodStays
  <1>12. VMInv'
    BY <1>1, <1>2 DEF VMInv
  <1> QED
    BY <1>3, <1>9, <1>11, <1>12 DEF Inv

LEMMA AssembleInv ==
  ASSUME Inv, NEW i \in Injectors, Assemble(i)
  PROVE  Inv'
  <1> DEFINE b == EmitInjection(asm[i], job[i].addr)
             s == uses[i]
  <1>1. /\ DomainInv /\ VMInv /\ AssemblerInv(i) /\ JobInv(i)
        /\ \A j \in Injectors : AssemblerInv(j) /\ JobInv(j)
        /\ \A x \in Methods : MethodInv(x)
    BY DEF Inv
  <1>2. /\ pc[i] = "marked"
        /\ asm' = [asm EXCEPT ![i] = b]
        /\ uses' = uses /\ marked' = marked /\ early' = early
        /\ installed' = installed /\ injected' = injected
        /\ interpreted' = interpreted /\ compiling' = compiling
        /\ javaCode' = javaCode /\ inlined' = inlined
        /\ \/ pc' = [pc EXCEPT ![i] = "assembled"] /\ job' = job
           \/ /\ pc' = [pc EXCEPT ![i] = "idle"]
              /\ job' = [job EXCEPT ![i] = << >>]
    BY DEF Assemble, vmVars, methodVars
  <1> HIDE DEF b
  <1>3. DomainInv'
    BY <1>1, <1>2 DEF DomainInv
  <1>4. /\ asm'[i] = b /\ uses'[i] = uses[i]
        /\ \/ pc'[i] = "assembled" /\ job'[i] = job[i]
           \/ pc'[i] = "idle" /\ job'[i] = << >>
        /\ \A j \in Injectors : j # i =>
             /\ pc'[j] = pc[j] /\ job'[j] = job[j] /\ uses'[j] = uses[j]
             /\ asm'[j] = asm[j]
    BY <1>1, <1>2 DEF DomainInv
  <1>5. /\ s \in Seq(Functions) /\ Len(s) \in Nat /\ Len(s) >= 1
        /\ job[i].addr = s[Len(s)] /\ job[i].addr \in Int
    <2>1. pc[i] # "idle"
      BY <1>2
    <2>2. /\ job[i] \in [method : Methods, addr : Functions]
          /\ Len(s) >= 1 /\ job[i].addr = s[Len(s)]
          /\ s \in Seq(Functions)
      BY <1>1, <2>1 DEF JobInv
    <2>3. job[i].addr \in Functions
      BY <2>2
    <2> QED
      <3>1. job[i].addr \in Int
        BY <2>3, InjectorAssumption, Zenon
      <3>2. Len(s) \in Nat
        BY <2>2
      <3> QED
        BY <2>2, <3>1, <3>2
  <1>6. AssemblerInv(i)'
    <2>1. Prologues(i) = Len(s) - 1 /\ Prologues(i)' = Len(s)
      <3>1. pc[i] = "marked" /\ pc'[i] # "marked" /\ Len(uses'[i]) = Len(s)
        BY <1>2, <1>4
      <3> QED
        BY <1>5, <3>1 DEF Prologues
    <2>2. AssemblerAt(asm[i], s, Len(s) - 1)
      BY <1>1, <2>1 DEF AssemblerInv
    <2>3. Len(s) - 1 = 0 => s[1] = job[i].addr
      BY <1>5
    <2>4. AssemblerAt(b, s, Len(s) - 1 + 1)
      BY <1>5, <2>2, <2>3, InjectionAt DEF b
    <2>5. Len(s) - 1 + 1 = Len(s)
      BY <1>5
    <2> QED
      BY <1>4, <2>1, <2>4, <2>5 DEF AssemblerInv
  <1>7. JobInv(i)'
    BY <1>1, <1>2, <1>4 DEF JobInv
  <1>8. ASSUME NEW j \in Injectors PROVE AssemblerInv(j)' /\ JobInv(j)'
    <2>1. CASE j = i
      BY <1>6, <1>7, <2>1
    <2>2. CASE j # i
      BY <1>1, <1>2, <1>4, <2>2, InjectorStays
    <2> QED
      BY <2>1, <2>2
  <1>9. ASSUME NEW x \in Methods PROVE MethodInv(x)'
    BY <1>1, <1>2, UsesStay, MethodStays
  <1>10. VMInv'
    BY <1>1, <1>2 DEF VMInv
  <1> QED
    BY <1>3, <1>8, <1>9, <1>10 DEF Inv

(* An injector whose last method is assembled installs it or gives up.     *)
LEMMA EndsJob ==
  ASSUME NEW i, AssemblerInv(i), JobInv(i), pc[i] = "assembled",
         asm'[i] = asm[i], uses'[i] = uses[i],
         pc'[i] = "idle", job'[i] = << >>
  PROVE  AssemblerInv(i)' /\ JobInv(i)'
  <1>1. pc[i] # "marked" /\ pc'[i] # "marked"
    OBVIOUS
  <1>2. Prologues(i)' = Prologues(i)
    BY <1>1 DEF Prologues
  <1>3. AssemblerInv(i)'
    BY <1>2 DEF AssemblerInv
  <1>4. JobInv(i)'
    BY DEF JobInv
  <1> QED
    BY <1>3, <1>4

LEMMA AssembledInstalls ==
  ASSUME NEW i, AssemblerInv(i), JobInv(i), pc[i] = "assembled"
  PROVE  Installs(Finish(asm[i]), uses[i][1], Len(uses[i]))
  <1> DEFINE n == Len(uses[i])
  <1>1. pc[i] # "marked" /\ pc[i] # "idle"
    OBVIOUS
  <1>2. n >= 1 /\ n \in Nat \ {0}
    <2>1. n >= 1 /\ uses[i] \in Seq(Functions)
      BY <1>1 DEF JobInv
    <2> QED
      BY <2>1
  <1>3. Prologues(i) = n
    BY <1>1, <1>2 DEF Prologues
  <1>4. AssemblerAt(asm[i], uses[i], n)
    BY <1>3 DEF AssemblerInv
  <1> HIDE DEF n
  <1>5. Installs(Finish(asm[i]), uses[i][1], n)
    BY <1>2, <1>4, FinishInstalls DEF AssemblerAt
  <1> QED
    BY <1>5 DEF n

LEMMA InstallInv ==
  ASSUME Inv, NEW i \in Injectors, Install(i)
  PROVE  Inv'
  <1>0. PICK m : m = job[i].method
    OBVIOUS
  <1> DEFINE s == uses[i]
             n == Len(s)
             code == Finish(asm[i])
             runs == Effect(Call(m, code.targetCode))
             h == [by |-> i, nth |-> n, addr |-> job[i].addr, runs |-> runs]
  <1>1. /\ DomainInv /\ VMInv /\ AssemblerInv(i) /\ JobInv(i)
        /\ \A j \in Injectors : AssemblerInv(j) /\ JobInv(j)
        /\ \A x \in Methods : MethodInv(x)
    BY DEF Inv
  <1>2. /\ pc[i] = "assembled"
        /\ installed' = [installed EXCEPT ![m] = code]
        /\ injected' = [injected EXCEPT ![m] = h]
        /\ javaCode' = javaCode \ {m}
        /\ pc' = [pc EXCEPT ![i] = "idle"]
        /\ job' = [job EXCEPT ![i] = << >>]
        /\ asm' = asm /\ uses' = uses /\ marked' = marked /\ early' = early
        /\ interpreted' = interpreted /\ compiling' = compiling
        /\ inlined' = inlined
    BY <1>0 DEF Install
  <1>3. /\ s \in Seq(Functions) /\ n >= 1 /\ n \in Nat \ {0}
        /\ job[i].addr = s[n] /\ m \in Methods /\ m \in marked
        /\ Fits(m, job[i].addr)
    <2>1. pc[i] # "idle"
      BY <1>2
    <2>2. /\ job[i] \in [method : Methods, addr : Functions]
          /\ n >= 1 /\ job[i].addr = s[n] /\ s \in Seq(Functions)
          /\ m \in marked /\ Fits(m, job[i].addr)
      BY <1>0, <1>1, <2>1 DEF JobInv
    <2>3. m \in Methods
      BY <1>0, <2>2
    <2>4. n \in Nat \ {0}
      BY <2>2
    <2> QED
      BY <2>2, <2>3, <2>4
  <1>4. Installs(code, s[1], n)
    BY <1>1, <1>2, AssembledInstalls
  <1>5. /\ h.by = i /\ h.nth = n /\ h.addr = job[i].addr /\ h.runs = runs
        /\ n \in 1 .. n
    BY <1>3
  <1> HIDE DEF n, code, runs, h
  <1>6. DomainInv'
    BY <1>1, <1>2 DEF DomainInv
  <1>7. /\ pc'[i] = "idle" /\ job'[i] = << >>
        /\ asm'[i] = asm[i] /\ uses'[i] = uses[i]
        /\ \A j \in Injectors : j # i =>
             /\ pc'[j] = pc[j] /\ job'[j] = job[j] /\ uses'[j] = uses[j]
             /\ asm'[j] = asm[j]
    BY <1>1, <1>2 DEF DomainInv
  <1>8. /\ installed'[m] = code /\ injected'[m] = h
        /\ \A x \in Methods : x # m =>
             installed'[x] = installed[x] /\ injected'[x] = injected[x]
    BY <1>1, <1>2, <1>3 DEF DomainInv
  <1>9. ASSUME NEW j \in Injectors PROVE AssemblerInv(j)' /\ JobInv(j)'
    <2>1. CASE j = i
      BY <1>1, <1>2, <1>7, <2>1, EndsJob
    <2>2. CASE j # i
      BY <1>1, <1>2, <1>7, <2>2, InjectorStays
    <2> QED
      BY <2>1, <2>2
  <1>10. InstalledInv(m)'
    <2>1. /\ injected'[m].by = i /\ injected'[m].nth = n
          /\ injected'[m].addr = s[n] /\ injected'[m].runs = runs
      BY <1>3, <1>5, <1>8
    <2>2. runs = Effect(Call(m, code.targetCode))
      BY DEF runs
    <2>3. uses'[i] = s /\ m \in marked' /\ n \in 1 .. Len(s)
      BY <1>2, <1>3, <1>5, <1>7 DEF n
    <2>4. Fits(m, s[n])
      BY <1>3
    <2> HIDE DEF s
    <2> QED
      BY <1>4, <1>8, <2>1, <2>2, <2>3, <2>4 DEF InstalledInv
  <1>11. ASSUME NEW x \in Methods PROVE MethodInv(x)'
    <2>1. CASE x = m
      BY <1>10, <2>1 DEF MethodInv
    <2>2. CASE x # m
      <3>1. installed'[x] = installed[x] /\ injected'[x] = injected[x]
        BY <1>8, <2>2
      <3>2. marked \subseteq marked'
            /\ \A j \in Injectors : Grows(uses[j], uses'[j])
        BY <1>1, <1>2, UsesStay
      <3> QED
        BY <1>1, <3>1, <3>2, MethodStays
    <2> QED
      BY <2>1, <2>2
  <1>12. VMInv'
    BY <1>1, <1>2 DEF VMInv
  <1> QED
    BY <1>6, <1>9, <1>11, <1>12 DEF Inv

LEMMA InstallFailsInv ==
  ASSUME Inv, NEW i \in Injectors, InstallFails(i)
  PROVE  Inv'
  <1>1. /\ DomainInv /\ VMInv
        /\ \A j \in Injectors : AssemblerInv(j) /\ JobInv(j)
        /\ \A x \in Methods : MethodInv(x)
    BY DEF Inv
  <1>2. /\ pc[i] = "assembled"
        /\ pc' = [pc EXCEPT ![i] = "idle"]
        /\ job' = [job EXCEPT ![i] = << >>]
        /\ asm' = asm /\ uses' = uses /\ marked' = marked /\ early' = early
        /\ installed' = installed /\ injected' = injected
        /\ interpreted' = interpreted /\ compiling' = compiling
        /\ javaCode' = javaCode /\ inlined' = inlined
    BY DEF InstallFails, vmVars, methodVars
  <1>3. DomainInv'
    BY <1>1, <1>2 DEF DomainInv
  <1>4. /\ pc'[i] = "idle" /\ job'[i] = << >>
        /\ asm'[i] = asm[i] /\ uses'[i] = uses[i]
        /\ \A j \in Injectors : j # i =>
             /\ pc'[j] = pc[j] /\ job'[j] = job[j] /\ uses'[j] = uses[j]
             /\ asm'[j] = asm[j]
    BY <1>1, <1>2 DEF DomainInv
  <1>5. ASSUME NEW j \in Injectors PROVE AssemblerInv(j)' /\ JobInv(j)'
    <2>1. CASE j = i
      BY <1>1, <1>2, <1>4, <2>1, EndsJob
    <2>2. CASE j # i
      BY <1>1, <1>2, <1>4, <2>2, InjectorStays
    <2> QED
      BY <2>1, <2>2
  <1>6. ASSUME NEW x \in Methods PROVE MethodInv(x)'
    BY <1>1, <1>2, UsesStay, MethodStays
  <1>7. VMInv'
    BY <1>1, <1>2 DEF VMInv
  <1> QED
    BY <1>3, <1>5, <1>6, <1>7 DEF Inv

(* What leaves the injectors and the code they installed alone.            *)
LEMMA ApartInv ==
  ASSUME Inv, UNCHANGED << injectorVars, methodVars >>, VMInv'
  PROVE  Inv'
  <1>1. /\ DomainInv
        /\ \A j \in Injectors : AssemblerInv(j) /\ JobInv(j)
        /\ \A x \in Methods : MethodInv(x)
    BY DEF Inv
  <1>2. /\ asm' = asm /\ pc' = pc /\ job' = job /\ uses' = uses
        /\ marked' = marked /\ early' = early
        /\ installed' = installed /\ injected' = injected
    BY DEF injectorVars, methodVars
  <1>3. DomainInv'
    BY <1>1, <1>2 DEF DomainInv
  <1>4. ASSUME NEW j \in Injectors PROVE AssemblerInv(j)' /\ JobInv(j)'
    BY <1>1, <1>2, InjectorStays
  <1>5. ASSUME NEW x \in Methods PROVE MethodInv(x)'
    BY <1>1, <1>2, UsesStay, MethodStays
  <1> QED
    BY <1>3, <1>4, <1>5 DEF Inv

LEMMA VirtualMachineInv ==
  ASSUME Inv, NEW m \in Methods,
         Interpret(m) \/ StartCompile(m) \/ FinishCompile(m) \/ Inline(m)
  PROVE  Inv'
  <1>1. VMInv
    BY DEF Inv
  <1>2. UNCHANGED << injectorVars, methodVars >>
    BY DEF Interpret, StartCompile, FinishCompile, Inline
  <1>3. marked' = marked /\ early' = early
    BY <1>2 DEF methodVars
  <1>4. CASE Interpret(m)
    BY <1>1, <1>2, <1>3, <1>4, ApartInv DEF Interpret, VMInv
  <1>5. CASE StartCompile(m)
    BY <1>1, <1>2, <1>3, <1>5, ApartInv DEF StartCompile, VMInv
  <1>6. CASE FinishCompile(m)
    BY <1>1, <1>2, <1>3, <1>6, ApartInv DEF FinishCompile, VMInv
  <1>7. CASE Inline(m)
    BY <1>1, <1>2, <1>3, <1>7, ApartInv DEF Inline, VMInv
  <1> QED
    BY <1>4, <1>5, <1>6, <1>7

LEMMA NextInv ==
  ASSUME Inv, [Next]_vars
  PROVE  Inv'
  <1>1. CASE UNCHANGED vars
    <2>1. /\ UNCHANGED << injectorVars, methodVars >>
          /\ UNCHANGED << interpreted, compiling, javaCode, inlined >>
      BY <1>1 DEF vars, vmVars
    <2>2. VMInv'
      BY <2>1 DEF Inv, VMInv, methodVars
    <2> QED
      BY <2>1, <2>2, ApartInv
  <1>2. CASE Next
    BY <1>2, LookupInv, AssembleInv, InstallInv, InstallFailsInv,
       VirtualMachineInv DEF Next
  <1> QED
    BY <1>1, <1>2

(* The invariant holds whatever the injectors and the VM do in between.    *)
THEOREM Invariance == Spec => []Inv
  <1>1. Init => Inv
    BY InitInv
  <1>2. Inv /\ [Next]_vars => Inv'
    BY NextInv
  <1> QED
    BY <1>1, <1>2, PTL DEF Spec

-----------------------------------------------------------------------------
(* The properties.                                                         *)

LEMMA InvTypeOK ==
  ASSUME Inv
  PROVE  TypeOK
  <1>1. /\ DomainInv /\ VMInv
        /\ \A i \in Injectors : JobInv(i)
        /\ \A m \in Methods : MethodInv(m)
    BY DEF Inv
  <1>2. pc \in [Injectors -> {"idle", "marked", "assembled"}]
    BY <1>1 DEF DomainInv, JobInv
  <1>3. ASSUME NEW i \in Injectors
        PROVE  IF pc[i] = "idle" THEN job[i] = << >>
               ELSE job[i] \in [method : Methods, addr : Functions]
    BY <1>1 DEF JobInv
  <1>4. ASSUME NEW m \in Methods
        PROVE  injected[m].addr \in Functions \cup {0}
    <2>1. CASE installed[m] = NoCode /\ injected[m] = NotInjected
      BY <2>1 DEF NotInjected
    <2>2. CASE InstalledInv(m)
      <3>1. /\ injected[m].by \in Injectors
            /\ injected[m].nth \in 1 .. Len(uses[injected[m].by])
            /\ injected[m].addr = uses[injected[m].by][injected[m].nth]
        BY <2>2 DEF InstalledInv
      <3>2. uses[injected[m].by] \in Seq(Functions)
        BY <1>1, <3>1 DEF JobInv
      <3> QED
        BY <3>1, <3>2
    <2> QED
      BY <1>1, <1>4, <2>1, <2>2 DEF MethodInv
  <1> QED
    BY <1>1, <1>2, <1>3, <1>4 DEF TypeOK, VMInv

(* What is known of the code of a method that has one.                     *)
LEMMA InjectedIs ==
  ASSUME Inv, NEW m \in Injected
  PROVE  /\ m \in Methods /\ InstalledInv(m)
         /\ uses[injected[m].by] \in Seq(Functions)
         /\ injected[m].nth \in Nat \ {0}
         /\ uses[injected[m].by][1] \in Functions
  <1>1. m \in Methods /\ installed[m] # NoCode
    BY DEF Injected, HasCode
  <1>2. InstalledInv(m)
    BY <1>1 DEF Inv, MethodInv
  <1>3. /\ injected[m].by \in Injectors
        /\ injected[m].nth \in 1 .. Len(uses[injected[m].by])
    BY <1>2 DEF InstalledInv
  <1>4. uses[injected[m].by] \in Seq(Functions)
    BY <1>3 DEF Inv, JobInv
  <1>5. injected[m].nth \in Nat \ {0} /\ 1 \in 1 .. Len(uses[injected[m].by])
    BY <1>3, <1>4
  <1>6. uses[injected[m].by][1] \in Functions
    BY <1>4, <1>5
  <1> QED
    BY <1>1, <1>2, <1>4, <1>5, <1>6

(* A call of a method that has code calls the first function of its        *)
(* injector, at the frame that the first use reserved.                     *)
LEMMA InjectedCalls ==
  ASSUME Inv, NEW m \in Injected
  PROVE  LET f == uses[injected[m].by][1]
             end == CallOf(m)
         IN  /\ end.calls = << CalledAt(f, -24) >>
             /\ Fits(m, f) => /\ ReturnsResultOf(end, f)
                              /\ Effect(end) = << "function", f >>
             /\ FrameIsAsDeclared(m) <=> injected[m].nth <= 2
  <1> DEFINE f == uses[injected[m].by][1]
             end == CallOf(m)
             code == installed[m]
             n == injected[m].nth
  <1>1. f \in Functions /\ n \in Nat \ {0} /\ Installs(code, f, n)
    BY InjectedIs DEF InstalledInv
  <1>2. end = Call(m, code.targetCode)
    BY DEF CallOf
  <1> HIDE DEF f, n, code, end
  <1>3. IsInjection(Instructions(code.targetCode), f)
    BY <1>1 DEF Installs
  <1>4. /\ end.calls = << CalledAt(f, -24) >>
        /\ Fits(m, f) => /\ ReturnsResultOf(end, f)
                         /\ Effect(end) = << "function", f >>
    BY <1>1, <1>2, <1>3, InstalledRuns
  <1>5. FrameFits(end.calls[1].sp, code.totalFrameSize, code.deoptRescueSlot)
          <=> n <= 2
    BY <1>1, <1>2, InstalledFrame
  <1> QED
    BY <1>4, <1>5 DEF FrameIsAsDeclared, f, n, code, end

LEMMA InvRuns ==
  ASSUME Inv
  PROVE  /\ RunsItsFunction /\ EntryIsPatchable
         /\ ReuseRunsFirstFunction /\ FrameHoldsForTwoUses
  <1>1. ASSUME NEW m \in Injected, injected[m].nth = 1
        PROVE  ReturnsResultOf(CallOf(m), injected[m].addr)
    <2>1. /\ injected[m].addr = uses[injected[m].by][1]
          /\ Fits(m, injected[m].addr)
      BY <1>1, InjectedIs DEF InstalledInv
    <2> QED
      BY <2>1, InjectedCalls
  <1>2. ASSUME NEW m \in Injected
        PROVE  Addressed(Disassembly(installed[m].targetCode))
                 \cap (1 .. 4) = {}
    BY InjectedIs DEF InstalledInv, Installs
  <1>3. ASSUME NEW m \in Injected
        PROVE  Targets(CallOf(m).calls) = {uses[injected[m].by][1]}
    <2> DEFINE f == uses[injected[m].by][1]
               calls == CallOf(m).calls
               only == CalledAt(f, -24)
    <2>1. calls = << only >>
      BY InjectedCalls
    <2>2. only.target = f
      BY DEF CalledAt
    <2> HIDE DEF calls, only, f
    <2>3. DOMAIN calls = {1} /\ calls[1] = only
      BY <2>1
    <2>4. Targets(calls) = {calls[k].target : k \in DOMAIN calls}
      BY DEF Targets
    <2>5. Targets(calls) = {f}
      BY <2>2, <2>3, <2>4
    <2> QED
      BY <2>5 DEF calls, f
  <1>4. \A m \in Injected : FrameIsAsDeclared(m) <=> injected[m].nth <= 2
    BY InjectedCalls
  <1> QED
    BY <1>1, <1>2, <1>3, <1>4
       DEF RunsItsFunction, EntryIsPatchable, ReuseRunsFirstFunction,
           FrameHoldsForTwoUses

(* The variables have their types, whatever the injectors and the VM do in *)
(* between.                                                                *)
THEOREM InjectorTypeCorrect == Spec => []TypeOK
  <1>1. Inv => TypeOK
    BY InvTypeOK
  <1> QED
    BY <1>1, Invariance, PTL

(* The code of a fresh injector, decoded as the processor decodes it and   *)
(* run instruction by instruction, calls the function it was given with    *)
(* the Java arguments, returns its result, and restores stack and frame    *)
(* pointer: emitPrologue, emitCall, emitIntRet and emitEpilogue together,  *)
(* for any number of injectors, methods and functions.                     *)
THEOREM FreshInjectionRuns == Spec => []RunsItsFunction
  <1>1. Inv => RunsItsFunction
    BY InvRuns
  <1> QED
    BY <1>1, Invariance, PTL

(* No instruction of an installed code but the first starts within the     *)
(* bytes that the VM patches: what emitFatNop in emitPrologue is for.      *)
THEOREM EntriesPatchable == Spec => []EntryIsPatchable
  <1>1. Inv => EntryIsPatchable
    BY InvRuns
  <1> QED
    BY <1>1, Invariance, PTL

(* Whatever is injected through an injector, and however often, what is    *)
(* called is the function injected first.                                  *)
THEOREM FirstFunctionStays == Spec => []ReuseRunsFirstFunction
  <1>1. Inv => ReuseRunsFirstFunction
    BY InvRuns
  <1> QED
    BY <1>1, Invariance, PTL

(* The frame that finish declares is the one the code has at the call for  *)
(* the first two uses of an injector, and for no later one.                *)
THEOREM FrameTwice == Spec => []FrameHoldsForTwoUses
  <1>1. Inv => FrameHoldsForTwoUses
    BY InvRuns
  <1> QED
    BY <1>1, Invariance, PTL

-----------------------------------------------------------------------------
(* The call that throws.                                                   *)

LEMMA ThrowStep ==
  ASSUME Inv, [Next]_vars, NEW i \in Injectors, asm'[i].raised, ~asm[i].raised
  PROVE  LET left == EmitPrologue(asm[i])
         IN  << asm'[i].code, asm'[i].sites, asm'[i].frameSize >>
               = << left.code, left.sites, left.frameSize >>
  <1> DEFINE a == asm[i]
             b == EmitInjection(a, job[i].addr)
  <1>1. asm'[i] # asm[i]
    OBVIOUS
  <1>2. PICK j \in Injectors : Assemble(j)
    <2>1. asm' # asm
      BY <1>1
    <2> QED
      BY <2>1 DEF Next, vars, LookupAndMark, Install, InstallFails, Interpret,
                  StartCompile, FinishCompile, Inline, injectorVars
  <1>3. asm' = [asm EXCEPT ![j] = EmitInjection(asm[j], job[j].addr)]
        /\ pc[j] = "marked"
    BY <1>2 DEF Assemble
  <1>4. j = i
    BY <1>1, <1>3 DEF Inv, DomainInv
  <1>5. asm'[i] = b
    BY <1>3, <1>4 DEF Inv, DomainInv
  <1>6. AsmOK(a) /\ CodeOK(a) /\ SitesOK(a)
    BY DEF Inv, AssemblerInv, AssemblerAt
  <1>7. job[i].addr \in Int
    <2>1. pc[i] # "idle"
      BY <1>3, <1>4
    <2>2. job[i] \in [method : Methods, addr : Functions]
      BY <2>1 DEF Inv, JobInv
    <2>3. job[i].addr \in Functions
      BY <2>2
    <2> QED
      BY <2>3, InjectorAssumption, Zenon
  <1>8. b.raised => EmitsNone(EmitPrologue(a), b)
    BY <1>6, <1>7, InjectionExtends
  <1>9. b.raised
    BY <1>5
  <1> HIDE DEF b
  <1> QED
    BY <1>5, <1>8, <1>9 DEF EmitsNone

(* emitLoadLong draws its register before it emits anything, so that the   *)
(* call that finds none leaves the prologue and nothing else behind.       *)
THEOREM ThrowLeavesOnlyPrologue == Spec => ThrowLeavesPrologue
  <1>1. ASSUME Inv, [Next]_vars
        PROVE  [\A i \in Injectors :
                  asm'[i].raised /\ ~asm[i].raised =>
                    LET left == EmitPrologue(asm[i])
                    IN  << asm'[i].code, asm'[i].sites, asm'[i].frameSize >>
                          = << left.code, left.sites, left.frameSize >>]_vars
    BY <1>1, ThrowStep
  <1> QED
    BY <1>1, Invariance, PTL DEF ThrowLeavesPrologue, Spec

-----------------------------------------------------------------------------
(* The refinement: every injector is used once.                            *)

AllRuns == [m \in Methods |-> Runs(m)]

InjectedFunction ==
  \A m \in Injected : \E f \in Functions :
     injected[m].runs = << "function", f >>

LEMMA InvFunction ==
  ASSUME Inv, MaxUses = 1
  PROVE  InjectedFunction
  <1> SUFFICES ASSUME NEW m \in Injected
               PROVE  \E f \in Functions :
                        injected[m].runs = << "function", f >>
    BY DEF InjectedFunction
  <1> DEFINE h == injected[m]
             f == uses[h.by][1]
  <1>1. InstalledInv(m) /\ f \in Functions
    BY InjectedIs
  <1>2. h.nth = 1
    <2>1. /\ h.by \in Injectors /\ h.nth \in 1 .. Len(uses[h.by])
      BY <1>1 DEF InstalledInv
    <2>2. uses[h.by] \in Seq(Functions) /\ Len(uses[h.by]) <= 1
      BY <2>1 DEF Inv, JobInv
    <2> QED
      BY <2>1, <2>2
  <1>3. Fits(m, f) /\ h.runs = Effect(CallOf(m))
    BY <1>1, <1>2 DEF InstalledInv, CallOf
  <1>4. Effect(CallOf(m)) = << "function", f >>
    BY <1>3, InjectedCalls
  <1> QED
    BY <1>1, <1>3, <1>4

(* A method that is not marked runs its bytecode.                          *)
LEMMA UnmarkedRuns ==
  ASSUME Inv, NEW m \in Methods, m \notin marked
  PROVE  Runs(m) = << "bytecode" >> /\ ~HasCode(m)
  <1>1. ~InstalledInv(m)
    BY DEF InstalledInv
  <1>2. installed[m] = NoCode
    BY <1>1 DEF Inv, MethodInv
  <1> QED
    BY <1>2 DEF Runs, HasCode

LEMMA RefinedLookup ==
  ASSUME Inv, NEW i \in Injectors, NEW m \in Methods, NEW addr \in Functions,
         LookupAndMark(i, m, addr)
  PROVE  Method!Next \/ UNCHANGED << AllRuns, early >>
  <1>1. /\ installed' = installed /\ injected' = injected
        /\ javaCode' = javaCode /\ inlined' = inlined
        /\ early' = IF m \in (compiling \cup inlined) \ marked
                    THEN early \cup {m} ELSE early
    BY DEF LookupAndMark, vmVars
  <1>2. \A x \in Methods : Runs(x)' = Runs(x)
    BY <1>1 DEF Runs, HasCode
  <1>3. AllRuns' = AllRuns
    BY <1>2 DEF AllRuns
  <1>4. CASE m \in (compiling \cup inlined) \ marked
    <2>1. AllRuns[m] = Method!Bytecode
      BY <1>4, UnmarkedRuns DEF AllRuns, Method!Bytecode
    <2>2. Method!Expose(m)
      BY <1>1, <1>3, <1>4, <2>1 DEF Method!Expose, AllRuns
    <2> QED
      BY <2>2 DEF Method!Next
  <1>5. CASE m \notin (compiling \cup inlined) \ marked
    BY <1>1, <1>3, <1>5
  <1> QED
    BY <1>4, <1>5

LEMMA RefinedInstall ==
  ASSUME Inv, InjectedFunction', NEW i \in Injectors, Install(i)
  PROVE  Method!Next
  <1>0. PICK m : m = job[i].method
    OBVIOUS
  <1> DEFINE code == Finish(asm[i])
  <1>1. /\ pc[i] = "assembled"
        /\ installed' = [installed EXCEPT ![m] = code]
        /\ javaCode' = javaCode \ {m}
        /\ early' = early /\ inlined' = inlined
        /\ \E h : injected' = [injected EXCEPT ![m] = h]
    BY <1>0 DEF Install
  <1>2. code # NoCode
    <2>1. code.targetCode # << >>
      BY <1>1, AssembledInstalls DEF Inv, Installs
    <2>2. NoCode.targetCode = << >>
      BY DEF NoCode
    <2> QED
      BY <2>1, <2>2
  <1> HIDE DEF code
  <1>3. m \in Methods /\ m \in marked
    <2>1. pc[i] # "idle"
      BY <1>1
    <2>2. /\ job[i] \in [method : Methods, addr : Functions]
          /\ m \in marked
      BY <1>0, <2>1 DEF Inv, JobInv
    <2> QED
      BY <1>0, <2>2
  <1>4. /\ installed'[m] = code
        /\ \A x \in Methods : x # m =>
             installed'[x] = installed[x] /\ injected'[x] = injected[x]
    BY <1>1, <1>3 DEF Inv, DomainInv
  <1>5. \A x \in Methods : x # m => Runs(x)' = Runs(x)
    BY <1>1, <1>4 DEF Runs, HasCode
  <1>6. AllRuns' = [AllRuns EXCEPT ![m] = Runs(m)']
    BY <1>3, <1>5 DEF AllRuns
  <1>7. CASE m \in inlined
    <2>1. Runs(m)' = Method!Bytecode
      BY <1>1, <1>7 DEF Runs, Method!Bytecode
    <2>2. m \in early
      BY <1>3, <1>7 DEF Inv, VMInv
    <2>3. Method!FallBack(m)
      BY <1>1, <1>6, <2>1, <2>2 DEF Method!FallBack, AllRuns
    <2> QED
      BY <1>3, <2>3 DEF Method!Next
  <1>8. CASE m \notin inlined
    <2>1. HasCode(m)' /\ Runs(m)' = injected'[m].runs
      BY <1>1, <1>2, <1>4, <1>8 DEF Runs, HasCode
    <2>2. m \in Injected'
      BY <1>3, <2>1 DEF Injected
    <2>3. PICK f \in Functions : injected'[m].runs = Method!Function(f)
      BY <2>2 DEF InjectedFunction, Method!Function
    <2>4. Method!Inject(m, f)
      BY <1>1, <1>6, <2>1, <2>3 DEF Method!Inject, AllRuns
    <2> QED
      BY <1>3, <2>4 DEF Method!Next
  <1> QED
    BY <1>7, <1>8

LEMMA RefinedVirtualMachine ==
  ASSUME Inv, NEW m \in Methods,
         Interpret(m) \/ StartCompile(m) \/ FinishCompile(m) \/ Inline(m)
  PROVE  Method!Next \/ UNCHANGED << AllRuns, early >>
  <1>1. /\ installed' = installed /\ injected' = injected /\ early' = early
    BY DEF Interpret, StartCompile, FinishCompile, Inline, methodVars
  <1>2. CASE Interpret(m) \/ StartCompile(m)
    <2>1. javaCode' = javaCode /\ inlined' = inlined
      BY <1>2 DEF Interpret, StartCompile
    <2>2. \A x \in Methods : Runs(x)' = Runs(x)
      BY <1>1, <2>1 DEF Runs, HasCode
    <2> QED
      BY <1>1, <2>2 DEF AllRuns
  <1>3. CASE FinishCompile(m)
    <2>1. m \in compiling /\ javaCode' = javaCode \cup {m} /\ inlined' = inlined
      BY <1>3 DEF FinishCompile
    <2>2. \A x \in Methods : x # m => Runs(x)' = Runs(x)
      BY <1>1, <2>1 DEF Runs, HasCode
    <2>3. Runs(m)' = << "bytecode" >>
      BY <1>1, <2>1 DEF Runs, HasCode
    <2>4. AllRuns' = [AllRuns EXCEPT ![m] = << "bytecode" >>]
      BY <2>2, <2>3 DEF AllRuns
    <2>5. CASE m \in marked
      <3>1. m \in early
        BY <2>1, <2>5 DEF Inv, VMInv
      <3>2. Method!FallBack(m)
        BY <1>1, <2>4, <3>1 DEF Method!FallBack, AllRuns, Method!Bytecode
      <3> QED
        BY <3>2 DEF Method!Next
    <2>6. CASE m \notin marked
      <3>1. Runs(m) = << "bytecode" >>
        BY <2>6, UnmarkedRuns
      <3>2. \A x \in Methods : Runs(x)' = Runs(x)
        BY <2>2, <2>3, <3>1
      <3> QED
        BY <1>1, <3>2 DEF AllRuns
    <2> QED
      BY <2>5, <2>6
  <1>4. CASE Inline(m)
    <2>1. /\ m \notin marked /\ inlined' = inlined \cup {m}
          /\ javaCode' = javaCode
      BY <1>4 DEF Inline
    <2>2. Runs(m) = << "bytecode" >> /\ ~HasCode(m)
      BY <2>1, UnmarkedRuns
    <2>3. \A x \in Methods : Runs(x)' = Runs(x)
      BY <1>1, <2>1, <2>2 DEF Runs, HasCode
    <2> QED
      BY <1>1, <2>3 DEF AllRuns
  <1> QED
    BY <1>2, <1>3, <1>4

LEMMA RefinedApart ==
  ASSUME UNCHANGED << installed, injected, javaCode, inlined, early >>
  PROVE  UNCHANGED << AllRuns, early >>
  <1>1. \A x \in Methods : Runs(x)' = Runs(x)
    BY DEF Runs, HasCode
  <1> QED
    BY <1>1 DEF AllRuns

LEMMA RefinedNext ==
  ASSUME Inv, InjectedFunction', [Next]_vars
  PROVE  Method!Next \/ UNCHANGED << AllRuns, early >>
  <1>1. ASSUME NEW i \in Injectors, Assemble(i) \/ InstallFails(i)
        PROVE  UNCHANGED << AllRuns, early >>
    <2>1. UNCHANGED << installed, injected, javaCode, inlined, early >>
      BY <1>1 DEF Assemble, InstallFails, methodVars, vmVars
    <2> QED
      BY <2>1, RefinedApart
  <1>2. CASE UNCHANGED vars
    <2>1. UNCHANGED << installed, injected, javaCode, inlined, early >>
      BY <1>2 DEF vars, methodVars, vmVars
    <2> QED
      BY <2>1, RefinedApart
  <1>3. CASE Next
    BY <1>1, <1>3, RefinedLookup, RefinedInstall, RefinedVirtualMachine
       DEF Next
  <1> QED
    BY <1>2, <1>3

LEMMA InitRefines ==
  ASSUME Init
  PROVE  Method!Init
  <1>1. \A m \in Methods : Runs(m) = Method!Bytecode
    BY DEF Init, Runs, HasCode, Method!Bytecode
  <1> QED
    BY <1>1 DEF Init, Method!Init

(* When every injector is used once, as everywhere in the repository, the  *)
(* injectors, the assemblers, the bytes they emit, the processor that runs *)
(* them and the compile broker implement an atomic exchange of what a      *)
(* method runs, which lasts unless the VM was compiling or had inlined the *)
(* method when it was marked.                                              *)
THEOREM InjectionIsAtomic ==
  ASSUME MaxUses = 1
  PROVE  Spec => IsInjectedMethod
  <1>1. Init => Method!Init
    BY InitRefines
  <1>2. Inv => InjectedFunction
    BY InvFunction
  <1>3. Inv /\ InjectedFunction' /\ [Next]_vars
          => [Method!Next]_<< AllRuns, early >>
    BY RefinedNext
  <1> QED
    BY <1>1, <1>2, <1>3, Invariance, PTL
       DEF Spec, IsInjectedMethod, Method!Spec, AllRuns

=============================================================================
