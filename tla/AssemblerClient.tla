-------------------------- MODULE AssemblerClient --------------------------
(***************************************************************************)
(* An AMD64Assembler and a client that calls its public operations, and    *)
(* newStackSlot, which is protected, in any order, also after one of them  *)
(* has thrown.                                                             *)
(***************************************************************************)
EXTENDS AMD64Assembler, FiniteSets

CONSTANTS
  Longs,            (* The values loaded and the addresses called.          *)
  ReturnRegisters,  (* The registers an int is returned from.               *)
  SlotSizes,        (* The sizes of the stack slots asked for.              *)
  MaxOperations     (* A bound on the number of operations called.          *)

VARIABLES
  asm,    (* The assembler: see NewAssembler.                               *)
  loads,  (* History: what the client was told of every register it was     *)
          (* given, [register, value], in order.                            *)
  ops     (* The number of operations called so far.                        *)

vars == << asm, loads, ops >>

ASSUME ClientAssumption ==
  /\ Longs \subseteq Int
  /\ ReturnRegisters \subseteq GeneralRegisters
  /\ SlotSizes \subseteq Nat \ {0}
  /\ MaxOperations \in Nat

Init ==
  /\ asm   = NewAssembler
  /\ loads = << >>
  /\ ops   = 0

(* An operation starts with no exception under way.                        *)
Called == [asm EXCEPT !.raised = FALSE]

Prologue == asm' = EmitPrologue(Called) /\ UNCHANGED loads
Epilogue == asm' = EmitEpilogue(Called) /\ UNCHANGED loads
Call(addr)  == asm' = EmitCall(Called, addr) /\ UNCHANGED loads
IntRet(r)   == asm' = EmitIntRet(Called, r) /\ UNCHANGED loads
NewSlot(n)  == asm' = NewStackSlot(Called, n) /\ UNCHANGED loads

LoadLong(c) ==
  /\ asm' = EmitLoadLong(Called, c)
  /\ loads' = IF asm'.raised THEN loads
              ELSE Append(loads, [register |-> NextRegister(asm), value |-> c])

Next ==
  /\ ops < MaxOperations
  /\ ops' = ops + 1
  /\ \/ Prologue
     \/ Epilogue
     \/ \E addr \in Longs : Call(addr)
     \/ \E c \in Longs : LoadLong(c)
     \/ \E r \in ReturnRegisters : IntRet(r)
     \/ \E n \in SlotSizes : NewSlot(n)

Spec == Init /\ [][Next]_vars

-----------------------------------------------------------------------------

Elements(s) == {s[i] : i \in DOMAIN s}

(* The assembler is a well-formed record and the counters are in range.    *)
TypeOK ==
  /\ Elements(asm.code) \subseteq
       [w : {1}, v : 0 .. 255] \cup [w : {4, 8}, v : Int]
  /\ asm.frameSize \in Nat
  /\ asm.curStackSlot \in Nat
  /\ asm.nextRegister \in Nat
  /\ asm.raised \in BOOLEAN
  /\ Elements(loads) \subseteq [register : GeneralRegisters, value : Longs]
  /\ ops \in 0 .. MaxOperations

CallsThroughHighRegister ==
  \E i \in DOMAIN asm.listing :
     asm.listing[i][1] = "CALL" /\ asm.listing[i][2] >= 8

(* As long as no call goes through r8 or above, the processor decodes the  *)
(* code into the instructions the comments name: prefixes, ModRM bytes and *)
(* immediates of every operation fit together in every order.  A register  *)
(* given to the client is loaded once in all of the code: the client's     *)
(* value is there, and no later load or call target replaces it.           *)
DecodesAsCommented ==
  LET ins == Instructions(asm.code)
      loadsOf(r) == {i \in DOMAIN ins : ins[i][1] = "LOAD" /\ ins[i][2] = r}
  IN  ~CallsThroughHighRegister =>
        /\ ins = asm.listing
        /\ \A k \in DOMAIN loads :
             {ins[i] : i \in loadsOf(loads[k].register)}
               = {<<"LOAD", loads[k].register, loads[k].value>>}
        /\ \A k \in DOMAIN loads : Cardinality(loadsOf(loads[k].register)) = 1

(* "CALL r/m64" beside emitCall, whatever the register.                    *)
EveryCallIsACall == Instructions(asm.code) = asm.listing

(* Each call site describes a five-byte call instruction at its position,  *)
(* each such instruction has one, and the deoptimisation handler is marked *)
(* at the same position; later emissions never shift them apart.           *)
SitesNameCalls ==
  LET relative ==
        {d \in Elements(Disassembly(asm.code)) : d.ins[1] = "CALLREL"}
      at(kind) == {s \in Elements(asm.sites) : s.kind = kind}
  IN  /\ {[at |-> s.pos, size |-> s.size] : s \in at("Call")}
           = {[at |-> d.at, size |-> d.size] : d \in relative}
      /\ {s.pos : s \in at("Mark")} = {d.at : d \in relative}

(* The stack slots handed out lie between the saved rbp and the current    *)
(* end of the frame, and do not overlap; the rescue slot is one of them;   *)
(* the frame is aligned and no larger than it has to be.                   *)
SlotsLaidOut ==
  /\ \A i \in DOMAIN asm.slots :
       LET slot == asm.slots[i]
       IN  /\ slot.offset >= -asm.curStackSlot
           /\ slot.offset + slot.size <= -InitialFrameSize
           /\ \A j \in 1 .. i - 1 :
                slot.offset + slot.size <= asm.slots[j].offset
  /\ asm.deoptRescue \in {NoSlot} \cup Elements(asm.slots)
  /\ asm.frameSize % StackAlignment = 0
  /\ asm.frameSize - asm.curStackSlot \in 0 .. StackAlignment - 1

(* The slots lie in the frame and do not overlap, and the size of it that  *)
(* HotSpot is told is the initial frame and what the code subtracts from   *)
(* rsp.                                                                    *)
SlotsFit ==
  LET ins == Instructions(asm.code)
      reserved[i \in 0 .. Len(ins)] ==
        IF i = 0 THEN InitialFrameSize
        ELSE reserved[i - 1] + (IF ins[i][1] = "SUB" THEN ins[i][3] ELSE 0)
  IN  SlotsLaidOut /\ asm.frameSize = reserved[Len(ins)]

(* No register is given to the client twice.                               *)
NoRegisterTwice ==
  \A k, l \in DOMAIN loads : loads[k].register = loads[l].register => k = l

=============================================================================
