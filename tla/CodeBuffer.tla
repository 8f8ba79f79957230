----------------------------- MODULE CodeBuffer -----------------------------
(***************************************************************************)
(* io.github.maropu.jvmci.CodeBuffer: a growable buffer over a heap        *)
(* ByteBuffer.  The ByteBuffer is its backing array, whose length is also  *)
(* its limit, and its position.  Every emit method first calls ensureSize, *)
(* which replaces the array by one four times the size needed; align moves *)
(* the position without calling it.                                        *)
(*                                                                         *)
(* int arithmetic wraps around at MaxInt, so the model covers what growing *)
(* a very large buffer does.  Each Java exception an operation can end     *)
(* with is an outcome in "raised".                                         *)
(***************************************************************************)
EXTENDS Integers, Sequences

CONSTANTS
  Byte,         (* The values of a byte, 0 among them.                      *)
  Values,       (* The numbers callers pass to the emit methods.            *)
  Encode(_, _), (* Encode(v, n): the n bytes a put of width n writes for v. *)
  Widths,       (* Sizes in bytes of byte, short, int/float, long/double.   *)
  Alignments,   (* The arguments callers pass to align.                     *)
  InitialSize,  (* ByteBuffer.allocate(32).                                 *)
  MaxInt        (* Integer.MAX_VALUE: 2^31 - 1.                             *)

VARIABLES
  array,        (* data.array(): the bytes, and Len(array) the limit.       *)
  position,     (* data.position().                                         *)
  raised        (* The exception the last operation ended with, or "none".  *)

vars == << array, position, raised >>

(* finish(): a copy of the array up to the position.                       *)
Finish == SubSeq(array, 1, position)

Stream == INSTANCE ByteStream WITH out <- Finish

ASSUME ByteAssumption   == 0 \in Byte
ASSUME WidthAssumption  == Widths \subseteq Nat \ {0}
ASSUME AlignAssumption  == Alignments \subseteq 1 .. MaxInt
ASSUME EncodeAssumption ==
  \A v \in Values, n \in Widths : Encode(v, n) \in [1 .. n -> Byte]

ASSUME SizeAssumption ==
  /\ MaxInt \in Nat
  /\ (MaxInt + 1) % 4 = 0
  /\ InitialSize \in 0 .. MaxInt
  /\ InitialSize % 4 = 0

(* The int an integer n wraps around to.                                   *)
WrapInt(n) == ((n + MaxInt + 1) % (2 * (MaxInt + 1))) - (MaxInt + 1)

(* Arrays.copyOf: truncated, or extended with zeros.                       *)
CopyOf(s, n) == [i \in 1 .. n |-> IF i <= Len(s) THEN s[i] ELSE 0]

Exceptions == {"NegativeArraySize", "OutOfMemory", "IllegalArgument",
               "BufferOverflow"}

-----------------------------------------------------------------------------

Init ==
  /\ array    = [i \in 1 .. InitialSize |-> 0]
  /\ position = 0
  /\ raised   = "none"

Grows(length) == length >= Len(array)

(* Mutants: arithmetic without a width; room for twice the bytes; the size *)
(* computed from the position.                                             *)
NewSizeUnbounded(length)  == length * 4
NewSizeDoubled(length)    == WrapInt(length * 2)
NewSizeOfPosition(length) == WrapInt(position * 4)

NewSize(length) == WrapInt(length * 4)

(* Mutant: a new array without the old one's bytes.                        *)
EnsuredArrayZeroed(length) ==
  IF Grows(length) THEN [i \in 1 .. NewSize(length) |-> 0] ELSE array

(* ensureSize(length) either leaves an array in which the emit method then *)
(* puts its bytes, or raises before "data" is assigned.                    *)
EnsuredArray(length) ==
  IF Grows(length) THEN CopyOf(array, NewSize(length)) ELSE array

EnsureSizeRaises(length, exception) ==
  /\ Grows(length)
  /\ \/ /\ exception = "NegativeArraySize"   \* Arrays.copyOf
        /\ NewSize(length) < 0
     \/ /\ exception = "OutOfMemory"         \* any allocation may fail
        /\ NewSize(length) >= 0
     \/ /\ exception = "IllegalArgument"     \* newData.position(...)
        /\ NewSize(length) \in 0 .. position - 1

EnsureSizeReturns(length) ==
  Grows(length) => NewSize(length) >= position

(* emitByte, emitShort, emitInt, emitLong, emitFloat, emitDouble: n is the *)
(* size of the type, v the value.  A put that does not fit raises before   *)
(* it writes anything, but after ensureSize has replaced the array.        *)
EmitPut(v, n) ==
  LET length == WrapInt(position + n)
      room   == EnsuredArray(length)
      bytes  == Encode(v, n)
  IN  /\ EnsureSizeReturns(length)
      /\ position + n <= Len(room)
      /\ array'    = [i \in 1 .. Len(room) |->
                        IF i \in position + 1 .. position + n
                        THEN bytes[i - position] ELSE room[i]]
      /\ position' = position + n
      /\ raised'   = "none"

EmitOverflow(n) ==
  LET length == WrapInt(position + n)
      room   == EnsuredArray(length)
  IN  /\ EnsureSizeReturns(length)
      /\ position + n > Len(room)
      /\ array'  = room
      /\ raised' = "BufferOverflow"
      /\ UNCHANGED position

EmitNoSpace(n) ==
  \E exception \in Exceptions :
     /\ EnsureSizeRaises(WrapInt(position + n), exception)
     /\ raised' = exception
     /\ UNCHANGED << array, position >>

Emit(v, n) == EmitPut(v, n) \/ EmitOverflow(n) \/ EmitNoSpace(n)

(* Mutant: aligned downwards.                                              *)
AlignedPositionDown(a) == position - (position % a)

AlignedPosition(a) == WrapInt(position + Stream!Padding(position, a))

(* align(alignment): data.position(pos) refuses a position beyond the      *)
(* limit, and a position that wrapped around is negative.                  *)
Align(a) ==
  \/ /\ AlignedPosition(a) \in 0 .. Len(array)
     /\ position' = AlignedPosition(a)
     /\ raised'   = "none"
     /\ UNCHANGED array
  \/ /\ AlignedPosition(a) \notin 0 .. Len(array)
     /\ raised' = "IllegalArgument"
     /\ UNCHANGED << array, position >>

Next ==
  \/ \E v \in Values, n \in Widths : Emit(v, n)
  \/ \E a \in Alignments : Align(a)

Spec == Init /\ [][Next]_vars

-----------------------------------------------------------------------------

(* The position never leaves the array and the array holds bytes; its      *)
(* length fits an int.                                                     *)
TypeOK ==
  /\ array \in Seq(Byte)
  /\ Len(array) <= MaxInt
  /\ position \in 0 .. Len(array)
  /\ raised \in Exceptions \cup {"none"}

(* Everything above the position is zero, through every growth, failed     *)
(* emission and alignment: so the padding align exposes is zero although   *)
(* align writes nothing.                                                   *)
CleanTail == \A i \in position + 1 .. Len(array) : array[i] = 0

(* align to 1, 2 or 4 never fails although it does not call ensureSize:    *)
(* the limit stays a multiple of four through every growth.                *)
WordAlignFits ==
  /\ Len(array) % 4 = 0
  /\ \A a \in Alignments \cap {1, 2, 4} :
        AlignedPosition(a) \in 0 .. Len(array)

(* While four times the bytes needed fit in an int, an emission can fail   *)
(* for lack of memory only: the growth arithmetic has no other hole.       *)
EmitFailsOnlyNearMaxInt ==
  [][\A v \in Values, n \in Widths :
        Emit(v, n) /\ 4 * (position + n) <= MaxInt
           => raised' \in {"none", "OutOfMemory"}]_vars

(* The buffer implements the append-only stream: growth keeps every byte,  *)
(* failed operations write nothing, padding is zero.                       *)
ImplementsByteStream == Stream!Spec

=============================================================================
