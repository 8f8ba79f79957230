----------------------------- MODULE ByteStream -----------------------------
(***************************************************************************)
(* What a user of io.github.maropu.jvmci.CodeBuffer relies on: an          *)
(* append-only stream of bytes.  Nothing that was written ever changes,    *)
(* a multi-byte value is appended whole or not at all, and aligning the    *)
(* stream appends zero bytes only.  There is no capacity at this level.    *)
(* CodeBuffer.tla is shown to implement this specification.                *)
(***************************************************************************)
EXTENDS Integers, Sequences

CONSTANTS
  Byte,         (* The values of a byte, 0 among them.                      *)
  Values,       (* The numbers callers pass to the emit methods.            *)
  Encode(_, _), (* Encode(v, n): the n bytes a put of width n writes for v. *)
  Widths,       (* Sizes in bytes of the types that can be emitted.         *)
  Alignments    (* The arguments callers pass to align.                     *)

VARIABLE out   (* The bytes written so far. *)

Zeros(n) == [i \in 1 .. n |-> 0]

(* The bytes missing from position p up to the next multiple of a.         *)
Padding(p, a) == IF p % a = 0 THEN 0 ELSE a - (p % a)

-----------------------------------------------------------------------------

Init == out = << >>

Emit(v, n) == out' = out \o Encode(v, n)

Align(a) == out' = out \o Zeros(Padding(Len(out), a))

Next ==
  \/ \E v \in Values, n \in Widths : Emit(v, n)
  \/ \E a \in Alignments : Align(a)

Spec == Init /\ [][Next]_out

=============================================================================
