--------------------------- MODULE AssemblerBase ---------------------------
(***************************************************************************)
(* io.github.maropu.jvmci.AssemblerBase: the part of an assembler that     *)
(* does not know the processor.  An assembler is a record, an operation a  *)
(* function from assemblers to assemblers, so that an operation made of    *)
(* others, and one that stops half way with an exception, are composed as  *)
(* in the code.                                                            *)
(***************************************************************************)
EXTENDS Integers, Sequences, Emission

CONSTANTS
  InitialFrameSize,     (* initialFrameSize                                 *)
  StackAlignment,       (* stackAlignment                                   *)
  Registers,            (* registers, in the order they are handed out      *)
  EmitGrowStack(_, _)   (* the abstract method emitGrowStack(size)          *)

NoSlot == [offset |-> 0, size |-> 0]   (* null *)

(* A new assembler.  "raised" says that the operation under way threw an   *)
(* ArrayIndexOutOfBoundsException.  Two fields are history: "listing", the *)
(* instructions the comments beside the emissions name, and "slots", the   *)
(* stack slots handed out.                                                 *)
NewAssembler ==
  [ code         |-> << >>,
    sites        |-> << >>,
    frameSize    |-> InitialFrameSize,
    curStackSlot |-> InitialFrameSize,
    deoptRescue  |-> NoSlot,
    nextRegister |-> 0,
    raised       |-> FALSE,
    listing      |-> << >>,
    slots        |-> << >> ]

-----------------------------------------------------------------------------

SetDeoptRescueSlot(a, slot) == [a EXCEPT !.deoptRescue = slot]

(* registers[nextRegister++]: the counter moves on even when the index is  *)
(* out of bounds.                                                          *)
NextRegister(a) == Registers[a.nextRegister + 1]

NewRegister(a) ==
  [a EXCEPT !.nextRegister = @ + 1,
            !.raised       = a.nextRegister >= Len(Registers)]

(* The frame size that holds n bytes.                                      *)
AlignedFrame(n) ==
  IF n % StackAlignment = 0 THEN n
  ELSE n + (StackAlignment - (n % StackAlignment))

GrowFrame(a, sizeInBytes) ==
  LET cur   == a.curStackSlot + sizeInBytes
      moved == [a EXCEPT !.curStackSlot = cur]
  IN  IF cur > a.frameSize
      THEN [EmitGrowStack(moved, AlignedFrame(cur) - a.frameSize)
              EXCEPT !.frameSize = AlignedFrame(cur)]
      ELSE moved

LastSlot(a) == a.slots[Len(a.slots)]

(* Mutant: the offset is taken before the frame grows.                     *)
NewStackSlotEarly(a, sizeInBytes) ==
  GrowFrame([a EXCEPT !.slots =
               Append(@, [offset |-> -a.curStackSlot, size |-> sizeInBytes])],
            sizeInBytes)

(* StackSlot.get(kind, -curStackSlot, true): the offset is from the top of *)
(* the frame, because true adds the frame size to it.                      *)
NewStackSlot(a, sizeInBytes) ==
  LET grown == GrowFrame(a, sizeInBytes)
  IN  [grown EXCEPT !.slots =
         Append(@, [offset |-> -grown.curStackSlot, size |-> sizeInBytes])]

RecordMark(a, id) ==
  [a EXCEPT !.sites =
     Append(@, [kind |-> "Mark", pos |-> Position(a), id |-> id])]

RecordCall(a, target, size) ==
  [a EXCEPT !.sites =
     Append(@, [kind |-> "Call", pos |-> Position(a), target |-> target,
                size |-> size])]

(* finish(method): a snapshot.  The assembler is left as it is.            *)
Finish(a) ==
  [ targetCode      |-> a.code,
    sites           |-> a.sites,
    totalFrameSize  |-> a.frameSize,
    deoptRescueSlot |-> a.deoptRescue ]

=============================================================================
