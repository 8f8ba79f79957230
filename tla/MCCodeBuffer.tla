---------------------------- MODULE MCCodeBuffer ----------------------------
(***************************************************************************)
(* CodeBuffer with a byte of two values and a very small int.  With        *)
(* MaxInt = 31 and an initial array of 4 bytes the first growths fit, the  *)
(* later ones overflow in each of the ways a 32-bit size can: to a         *)
(* negative size, to one below the position, to one that still holds the   *)
(* bytes, and to one that holds them but not the new value.                *)
(***************************************************************************)
EXTENDS CodeBuffer

MCByte   == 0 .. 1
MCValues == {-1}
MCWidths == {1, 4, 8}
MCAlignments == {2, 4, 16}

(* Two's complement digits of v in base 2, low-order digit first.          *)
MCEncode(v, n) == [i \in 1 .. n |-> (v \div 2^(i - 1)) % 2]

=============================================================================
