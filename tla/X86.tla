-------------------------------- MODULE X86 --------------------------------
(***************************************************************************)
(* The part of the AMD64 instruction set that AMD64Assembler emits, as the *)
(* processor reads it.  It is external to the repository and independent   *)
(* of the assembler: it decodes bytes, whatever they were meant to be.     *)
(*                                                                         *)
(* A code is a sequence of items [w |-> width in bytes, v |-> value], one  *)
(* for every call of a CodeBuffer emit method.  Opcode, prefix, ModRM and  *)
(* displacement are items of one byte; an immediate is one wider item.     *)
(*                                                                         *)
(* A register is its encoding.  An instruction is a tuple: its name, then  *)
(* its operands.                                                           *)
(***************************************************************************)
EXTENDS Integers, Sequences

rax == 0
rcx == 1
rdx == 2
rsp == 4
rbp == 5
rsi == 6
rdi == 7
r8  == 8
r9  == 9
r10 == 10

GeneralRegisters == 0 .. 15

(* Byte address of every item of a code, and of the end of the code.       *)
Addresses(code) ==
  LET at[i \in 1 .. Len(code) + 1] ==
        IF i = 1 THEN 0 ELSE at[i - 1] + code[i - 1].w
  IN  at

CodeSize(code) == Addresses(code)[Len(code) + 1]

(* The value of a single byte of the stream, or -1.                        *)
ByteAt(code, i) == IF i \in DOMAIN code /\ code[i].w = 1 THEN code[i].v ELSE -1

ImmediateAt(code, i, width) == i \in DOMAIN code /\ code[i].w = width

(* The bit of b that is worth n.                                           *)
Bit(b, n) == (b \div n) % 2

(* A REX prefix, if there is one: whether it widens the operands, what it  *)
(* adds to the fields reg and rm, and the item of the opcode after it.     *)
Prefix(code, i) ==
  IF ByteAt(code, i) \in \h40 .. \h4F
  THEN [ wide |-> Bit(code[i].v, 8) = 1, reg |-> 8 * Bit(code[i].v, 4),
         rm |-> 8 * Bit(code[i].v, 1), opcode |-> i + 1 ]
  ELSE [ wide |-> FALSE, reg |-> 0, rm |-> 0, opcode |-> i ]

(* The fields of a ModRM byte, none of which matches when there is none.   *)
ModRM(b) ==
  IF b = -1 THEN [mod |-> -1, reg |-> -1, rm |-> -1]
  ELSE [mod |-> b \div 64, reg |-> (b \div 8) % 8, rm |-> b % 8]

(* The instruction with the prefix rex, opcode op at item o and, if it has *)
(* one, the ModRM byte f; and the index of the item after it.  <<"BAD">>   *)
(* is a sequence of bytes this module does not know.                       *)
Instruction(code, rex, o, op, f) ==
  CASE op \in \h50 .. \h57 ->
         [ins |-> <<"PUSH", rex.rm + (op - \h50)>>, next |-> o + 1]
    [] op \in \h58 .. \h5F ->
         [ins |-> <<"POP", rex.rm + (op - \h58)>>, next |-> o + 1]
    [] op = \h8B /\ f.mod = 3 ->
         [ins |-> <<"MOV", rex.wide, rex.reg + f.reg, rex.rm + f.rm>>,
          next |-> o + 2]
    [] op = \h81 /\ f.mod = 3 /\ f.reg = 5 /\ rex.wide
       /\ ImmediateAt(code, o + 2, 4) ->
         [ins |-> <<"SUB", rex.rm + f.rm, code[o + 2].v>>, next |-> o + 3]
    [] op \in \hB8 .. \hBF /\ rex.wide /\ ImmediateAt(code, o + 1, 8) ->
         [ins |-> <<"LOAD", rex.rm + (op - \hB8), code[o + 1].v>>,
          next |-> o + 2]
    [] op = \hFF /\ f.mod = 3 /\ f.reg = 2 ->
         [ins |-> <<"CALL", rex.rm + f.rm>>, next |-> o + 2]
    [] op = \hFF /\ f.mod = 1 /\ f.reg = 0 /\ f.rm # rsp
       /\ ByteAt(code, o + 2) # -1 ->
         [ins |-> <<"INC", rex.rm + f.rm, code[o + 2].v>>, next |-> o + 3]
    [] op = \hE8 /\ ImmediateAt(code, o + 1, 4) ->
         [ins |-> <<"CALLREL", code[o + 1].v>>, next |-> o + 2]
    [] op = \hC3 ->
         [ins |-> <<"RET">>, next |-> o + 1]
    [] \A k \in 1 .. 5 : ByteAt(code, o + k - 1)
                           = << \h0F, \h1F, \h44, \h00, \h00 >>[k] ->
         [ins |-> <<"NOP5">>, next |-> o + 5]
    [] OTHER ->
         [ins |-> <<"BAD">>, next |-> Len(code) + 1]

AfterPrefix(code, rex) ==
  Instruction(code, rex, rex.opcode, ByteAt(code, rex.opcode),
              ModRM(ByteAt(code, rex.opcode + 1)))

InstructionAt(code, i) == AfterPrefix(code, Prefix(code, i))

(* The instructions met when a code runs straight through, each with its   *)
(* byte address and its size.                                              *)
Located(d, i, at) ==
  [at |-> at[i], size |-> at[d.next] - at[i], ins |-> d.ins, next |-> d.next]

DisassemblyFrom(code, at) ==
  LET from[i \in 1 .. Len(code) + 1] ==
        IF i > Len(code) THEN << >>
        ELSE LET d == Located(InstructionAt(code, i), i, at)
             IN  << d >> \o from[d.next]
  IN  from[1]

Disassembly(code) == DisassemblyFrom(code, Addresses(code))

InstructionsOf(disassembly) ==
  [i \in DOMAIN disassembly |-> disassembly[i].ins]

Instructions(code) == InstructionsOf(Disassembly(code))

=============================================================================
