------------------------------ MODULE Emission ------------------------------
(***************************************************************************)
(* Emissions to the field "code" of an assembler, a record, and comments   *)
(* on them.  The buffer is the sequence of the emissions made to it, one   *)
(* item [w |-> width, v |-> value] each; CodeBuffer!ImplementsByteStream   *)
(* says that this is all a user of a CodeBuffer can observe.               *)
(***************************************************************************)
EXTENDS Integers, Sequences, X86

(* Mutant: a byte keeps its sign.                                          *)
ByteItemSigned(b) == [w |-> 1, v |-> IF b >= 128 THEN b - 256 ELSE b]

(* emitByte keeps the low eight bits; emitInt; emitLong.                   *)
ByteItem(b) == [w |-> 1, v |-> b % 256]
IntItem(n)  == [w |-> 4, v |-> n]
LongItem(n) == [w |-> 8, v |-> n]

Emit(a, items) == [a EXCEPT !.code = @ \o items]

EmitBytes(a, bytes) ==
  Emit(a, [i \in 1 .. Len(bytes) |-> ByteItem(bytes[i])])

(* code.position()                                                         *)
Position(a) == CodeSize(a.code)

(* History: the instruction a comment beside an emission names.            *)
Comment(a, instruction) == [a EXCEPT !.listing = Append(@, instruction)]

=============================================================================
