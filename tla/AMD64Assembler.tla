--------------------------- MODULE AMD64Assembler ---------------------------
(***************************************************************************)
(* io.github.maropu.jvmci.amd64.AMD64Assembler on top of AssemblerBase:    *)
(* what each operation emits and does to the frame, the registers and the  *)
(* sites.  No variables: AssemblerClient.tla calls the operations.         *)
(***************************************************************************)
EXTENDS Integers, Sequences, Emission

(* super(16, 16, rax, rcx, rdi, r8, r9, r10)                               *)
InitialFrameSize == 16
StackAlignment   == 16

Registers     == << rax, rcx, rdi, r8, r9, r10 >>

DEADDEAD == -559038737   (* 0xDEADDEAD as an int *)

QWORD == 8    (* AMD64Kind.QWORD.getSizeInBytes() *)

EmitGrowStack(a, size) ==
  Emit(EmitBytes(Comment(a, <<"SUB", rsp, size>>), << \h48, \h81, \hEC >>),
       << IntItem(size) >>)

INSTANCE AssemblerBase

-----------------------------------------------------------------------------

(* emitREX emits nothing when no bit is set.  The bits or-ed together in   *)
(* it and below never overlap.                                             *)
EmitREX(a, w, r, x, b) ==
  LET wrxb == (IF w THEN 8 ELSE 0)
              + ((r \div 8) * 4) + ((x \div 8) * 2) + (b \div 8)
  IN  IF wrxb = 0 THEN a ELSE EmitBytes(a, << \h40 + wrxb >>)

(* Mutant: the operands are swapped.                                       *)
EmitModRMRegSwapped(a, w, opcode, r, m) ==
  EmitBytes(EmitREX(a, w, r, 0, m),
            << opcode, \hC0 + ((m % 8) * 8) + (r % 8) >>)

EmitModRMReg(a, w, opcode, r, m) ==
  EmitBytes(EmitREX(a, w, r, 0, m),
            << opcode, \hC0 + ((r % 8) * 8) + (m % 8) >>)

EmitMove(a, w, to, from) ==
  IF to = from THEN a
  ELSE EmitModRMReg(Comment(a, <<"MOV", w, to, from>>), w, \h8B, to, from)

(* Mutant: no NOP.                                                         *)
EmitNoNop(a) == a

EmitFatNop(a) ==
  EmitBytes(Comment(a, <<"NOP5">>), << \h0F, \h1F, \h44, \h00, \h00 >>)

EmitPrologue(a) ==
  LET nop    == EmitFatNop(a)
      pushed == EmitBytes(Comment(nop, <<"PUSH", rbp>>), << \h50 + rbp >>)
      moved  == EmitMove(pushed, TRUE, rbp, rsp)
      slot   == NewStackSlot(moved, QWORD)
  IN  SetDeoptRescueSlot(slot, LastSlot(slot))

(* Mutant: the sites are recorded after the call.                          *)
EmitEpilogueLate(a) ==
  LET said     == Comment(a, <<"CALLREL", DEADDEAD>>)
      emitted  == Emit(EmitBytes(said, << \hE8 >>), << IntItem(DEADDEAD) >>)
      marked   == RecordMark(emitted, "DEOPT_HANDLER_ENTRY")
  IN  RecordCall(marked, "handleDeoptStub", 5)

EmitEpilogue(a) ==
  LET marked   == RecordMark(a, "DEOPT_HANDLER_ENTRY")
      recorded == RecordCall(marked, "handleDeoptStub", 5)
  IN  Emit(EmitBytes(Comment(recorded, <<"CALLREL", DEADDEAD>>), << \hE8 >>),
           << IntItem(DEADDEAD) >>)

(* Mutant: the prefix is emitted before the register is drawn.             *)
EmitLoadLongEager(a, c) ==
  LET ret   == NextRegister(a)
      drawn == NewRegister(EmitBytes(a, << \h48 >>))
      said  == Comment(drawn, <<"LOAD", ret, c>>)
  IN  IF drawn.raised THEN drawn
      ELSE Emit(EmitBytes(said, << \hB8 + (ret % 8) >>), << LongItem(c) >>)

(* emitLoadLong returns NextRegister(a), unless newRegister throws.        *)
EmitLoadLong(a, c) ==
  LET ret   == NextRegister(a)
      drawn == NewRegister(a)
      rex   == EmitREX(Comment(drawn, <<"LOAD", ret, c>>), TRUE, 0, 0, ret)
  IN  IF drawn.raised THEN drawn
      ELSE Emit(EmitBytes(rex, << \hB8 + (ret % 8) >>), << LongItem(c) >>)

(* For r8 and above the prefix byte 0x41 follows the opcode 0xFF.          *)
EmitCall(a, addr) ==
  LET target == NextRegister(a)
      loaded == EmitLoadLong(a, addr)
      opcode == EmitBytes(Comment(loaded, <<"CALL", target>>), << \hFF >>)
  IN  IF loaded.raised THEN loaded
      ELSE IF target >= 8
      THEN EmitBytes(opcode, << \h41, \hD0 + (target - 8) >>)
      ELSE EmitBytes(opcode, << \hD0 + target >>)

(* Mutant: rsp is not restored from rbp.                                   *)
EmitIntRetKeepingFrame(a, register) ==
  LET result == EmitMove(a, FALSE, rax, register)
      popped == EmitBytes(Comment(result, <<"POP", rbp>>), << \h58 + rbp >>)
  IN  EmitBytes(Comment(popped, <<"RET">>), << \hC3 >>)

EmitIntRet(a, register) ==
  LET result  == EmitMove(a, FALSE, rax, register)
      unwound == EmitMove(result, TRUE, rsp, rbp)
      popped  == EmitBytes(Comment(unwound, <<"POP", rbp>>), << \h58 + rbp >>)
  IN  EmitBytes(Comment(popped, <<"RET">>), << \hC3 >>)

=============================================================================
