-------------------------- MODULE CodeBufferProofs --------------------------
(***************************************************************************)
(* Proofs about CodeBuffer for every byte alphabet, encoding, initial size *)
(* and int width: its invariants, and that it implements ByteStream.       *)
(***************************************************************************)
EXTENDS CodeBuffer, SequenceTheorems, TLAPS

(* The inductive invariant: the type invariant, the zero tail (without it  *)
(* align would not append zeros) and a limit that is a multiple of four.   *)
IInv ==
  /\ TypeOK
  /\ CleanTail
  /\ Len(array) % 4 = 0

-----------------------------------------------------------------------------

(* An int stays in its range, and wrapping around keeps multiples of four. *)
LEMMA WrapIntRange ==
  ASSUME NEW n \in Int
  PROVE  WrapInt(n) \in -(MaxInt + 1) .. MaxInt
<1> DEFINE m == 2 * (MaxInt + 1)
           x == n + MaxInt + 1
<1>1. m \in Nat \ {0} /\ x \in Int
  BY SizeAssumption
<1>2. x % m \in 0 .. m - 1
  <2> HIDE DEF m, x
  <2> QED BY <1>1
<1> QED BY <1>2, SizeAssumption DEF WrapInt

LEMMA WrapIntMultiple ==
  ASSUME NEW n \in Int
  PROVE  WrapInt(4 * n) \in Int /\ WrapInt(4 * n) % 4 = 0
<1>1. PICK k \in Int : MaxInt + 1 = 4 * k
  BY SizeAssumption
<1> DEFINE m == 2 * (MaxInt + 1)
           x == 4 * n + MaxInt + 1
           q == x \div m
<1>2. m \in Nat \ {0} /\ x \in Int
  BY SizeAssumption
<1> DEFINE r == x % m
<1>3. q \in Int /\ r \in Int /\ x = m * q + r
  <2> HIDE DEF m, x
  <2> QED BY <1>2
<1>4. m * q = 8 * (k * q) /\ k * q \in Int
  BY <1>1, <1>3
<1> DEFINE z == k * q
<1>5. WrapInt(4 * n) = r - (MaxInt + 1) /\ x - (MaxInt + 1) = 4 * n
  BY SizeAssumption DEF WrapInt
<1> HIDE DEF r, q, x
<1>6. WrapInt(4 * n) = 4 * (n - 2 * z) /\ z \in Int
  <2> SUFFICES ASSUME NEW mq \in Int, mq = 8 * z, x = mq + r
               PROVE  WrapInt(4 * n) = 4 * (n - 2 * z) /\ z \in Int
    BY <1>3, <1>4
  <2> QED BY <1>2, <1>3, <1>4, <1>5, SizeAssumption
<1> HIDE DEF z
<1> QED BY <1>6

LEMMA CopyOfType ==
  ASSUME NEW s \in Seq(Byte), NEW n \in Nat
  PROVE  /\ CopyOf(s, n) \in Seq(Byte)
         /\ Len(CopyOf(s, n)) = n
         /\ \A i \in 1 .. n :
              CopyOf(s, n)[i] = IF i <= Len(s) THEN s[i] ELSE 0
<1>1. CopyOf(s, n) \in [1 .. n -> Byte]
  BY ByteAssumption DEF CopyOf
<1> QED BY <1>1, SeqDef DEF CopyOf

-----------------------------------------------------------------------------

(* What an emission works on when ensureSize returns: an array that agrees *)
(* with the old one up to the position and is zero above it.               *)
LEMMA EnsuredArrayKeepsBytes ==
  ASSUME IInv, NEW length \in Int, EnsureSizeReturns(length)
  PROVE  LET room == EnsuredArray(length)
         IN  /\ room \in Seq(Byte)
             /\ Len(room) <= MaxInt
             /\ Len(room) % 4 = 0
             /\ position \in 0 .. Len(room)
             /\ \A i \in 1 .. position : room[i] = array[i]
             /\ \A i \in position + 1 .. Len(room) : room[i] = 0
<1>1. CASE ~Grows(length)
  BY <1>1 DEF EnsuredArray, IInv, TypeOK, CleanTail
<1>2. CASE Grows(length)
  <2> DEFINE n == NewSize(length)
  <2>1. n \in -(MaxInt + 1) .. MaxInt /\ n % 4 = 0
    <3>1. n = WrapInt(4 * length)
      BY DEF NewSize
    <3> QED BY <3>1, WrapIntRange, WrapIntMultiple
  <2>2. n >= position /\ position \in Nat
    BY <1>2 DEF EnsureSizeReturns, IInv, TypeOK
  <2>3. n \in Nat /\ n <= MaxInt
    BY <2>1, <2>2, SizeAssumption
  <2>4. EnsuredArray(length) = CopyOf(array, n)
    BY <1>2 DEF EnsuredArray
  <2> DEFINE room == CopyOf(array, n)
  <2>5. /\ room \in Seq(Byte)
        /\ Len(room) = n
        /\ \A i \in 1 .. n :
             room[i] = IF i <= Len(array) THEN array[i] ELSE 0
    <3> HIDE DEF n
    <3> QED BY <2>3, CopyOfType DEF IInv, TypeOK
  <2>6. \A i \in 1 .. position : room[i] = array[i]
    <3> HIDE DEF n, room
    <3> QED BY <2>2, <2>3, <2>5 DEF IInv, TypeOK
  <2>7. \A i \in position + 1 .. n : room[i] = 0
    <3> HIDE DEF n, room
    <3> QED BY <2>2, <2>3, <2>5 DEF IInv, TypeOK, CleanTail
  <2> HIDE DEF n, room
  <2> QED BY <2>1, <2>2, <2>3, <2>4, <2>5, <2>6, <2>7 DEF room
<1> QED BY <1>1, <1>2

LEMMA EncodeType ==
  ASSUME NEW v \in Values, NEW n \in Widths
  PROVE  /\ n \in Nat \ {0}
         /\ Encode(v, n) \in Seq(Byte)
         /\ Len(Encode(v, n)) = n
<1>1. n \in Nat /\ n # 0 /\ Encode(v, n) \in [1 .. n -> Byte]
  BY EncodeAssumption, WidthAssumption
<1> QED BY <1>1, SeqDef

LEMMA PaddingType ==
  ASSUME NEW p \in Nat, NEW a \in Alignments
  PROVE  Stream!Padding(p, a) \in 0 .. MaxInt
BY AlignAssumption, SizeAssumption DEF Stream!Padding

(* The sum of two ints is either an int, and does not wrap around, or      *)
(* wraps around to a negative one.                                         *)
LEMMA WrapIntSum ==
  ASSUME NEW n \in 0 .. 2 * MaxInt
  PROVE  IF n <= MaxInt THEN WrapInt(n) = n ELSE WrapInt(n) < 0
<1> DEFINE m == 2 * (MaxInt + 1)
           x == n + MaxInt + 1
<1>1. m \in Nat \ {0} /\ x \in Nat /\ n \in Nat /\ MaxInt \in Nat
  BY SizeAssumption
<1>2. CASE n <= MaxInt
  <2>1. x \in 0 .. m - 1
    BY <1>1, <1>2
  <2>2. x % m = x
    <3> HIDE DEF x, m
    <3> QED BY <1>1, <2>1
  <2> QED BY <1>1, <1>2, <2>2 DEF WrapInt
<1>3. CASE n > MaxInt
  <2> DEFINE y == n - (MaxInt + 1)
  <2>1. y \in 0 .. m - 1 /\ x = y + m
    BY <1>1, <1>3
  <2>2. x % m = y
    <3> HIDE DEF x, m, y
    <3> QED BY <1>1, <2>1
  <2>3. WrapInt(n) = y - (MaxInt + 1)
    BY <2>2 DEF WrapInt
  <2> QED BY <1>1, <1>3, <2>3
<1> QED BY <1>1, <1>2, <1>3

(* align moves the position over the padding or leaves everything as is:   *)
(* an int that wrapped around is not a position of the array.              *)
LEMMA AlignPadsOrRaises ==
  ASSUME IInv, NEW a \in Alignments, AlignedPosition(a) \in 0 .. Len(array)
  PROVE  AlignedPosition(a) = position + Stream!Padding(position, a)
<1>1. position \in Nat /\ position <= MaxInt
  BY SizeAssumption DEF IInv, TypeOK
<1>2. position + Stream!Padding(position, a) \in 0 .. 2 * MaxInt
  BY <1>1, PaddingType, SizeAssumption
<1> QED BY <1>2, WrapIntSum, SizeAssumption DEF AlignedPosition, IInv, TypeOK

-----------------------------------------------------------------------------

LEMMA InitInvariant == Init => IInv
<1> SUFFICES ASSUME Init PROVE IInv
  OBVIOUS
<1>1. /\ array \in Seq(Byte)
      /\ Len(array) = InitialSize
      /\ \A i \in 1 .. InitialSize : array[i] = 0
  <2>1. array \in [1 .. InitialSize -> Byte]
    BY ByteAssumption DEF Init
  <2> QED BY <2>1, SeqDef, SizeAssumption DEF Init
<1> QED BY <1>1, SizeAssumption DEF Init, IInv, TypeOK, CleanTail

(* An emission that succeeds writes its bytes at the position and nowhere  *)
(* else, in an array that kept all the others.                             *)
LEMMA EmitPutEffect ==
  ASSUME IInv, NEW v \in Values, NEW n \in Widths, EmitPut(v, n)
  PROVE  /\ array' \in Seq(Byte)
         /\ Len(array') <= MaxInt
         /\ Len(array') % 4 = 0
         /\ position' = position + n
         /\ position' \in 0 .. Len(array')
         /\ \A i \in 1 .. position : array'[i] = array[i]
         /\ \A i \in 1 .. n : array'[position + i] = Encode(v, n)[i]
         /\ \A i \in position' + 1 .. Len(array') : array'[i] = 0
<1> DEFINE length == WrapInt(position + n)
           room   == EnsuredArray(length)
<1>1. position \in Nat /\ n \in Nat \ {0} /\ length \in Int
  BY EncodeType, WrapIntRange, SizeAssumption DEF IInv, TypeOK
<1>2. /\ EnsureSizeReturns(length)
      /\ position + n <= Len(room)
      /\ array' = [i \in 1 .. Len(room) |->
                     IF i \in position + 1 .. position + n
                     THEN Encode(v, n)[i - position] ELSE room[i]]
      /\ position' = position + n
  BY DEF EmitPut
<1>3. /\ room \in Seq(Byte)
      /\ Len(room) <= MaxInt
      /\ Len(room) % 4 = 0
      /\ \A i \in 1 .. position : room[i] = array[i]
      /\ \A i \in position + 1 .. Len(room) : room[i] = 0
  <2> HIDE DEF length
  <2> QED BY <1>1, <1>2, EnsuredArrayKeepsBytes
<1> HIDE DEF length, room
<1>4. Len(room) \in Nat /\ array' \in [1 .. Len(room) -> Byte]
  <2>1. \A i \in 1 .. n : Encode(v, n)[i] \in Byte
    BY EncodeAssumption
  <2> QED BY <1>1, <1>2, <1>3, <2>1
<1>5. array' \in Seq(Byte) /\ Len(array') = Len(room)
  BY <1>4, SeqDef
<1> QED BY <1>1, <1>2, <1>3, <1>5

LEMMA NextInvariant == IInv /\ [Next]_vars => IInv'
<1> SUFFICES ASSUME IInv, [Next]_vars PROVE IInv'
  OBVIOUS
<1> USE DEF IInv, TypeOK, CleanTail
<1>1. ASSUME NEW v \in Values, NEW n \in Widths, EmitPut(v, n)
      PROVE  IInv'
  BY <1>1, EmitPutEffect DEF EmitPut
<1>2. ASSUME NEW n \in Widths, EmitOverflow(n)
      PROVE  IInv'
  <2> DEFINE length == WrapInt(position + n)
  <2>1. length \in Int
    BY WidthAssumption, WrapIntRange, SizeAssumption
  <2>2. EnsureSizeReturns(length) /\ array' = EnsuredArray(length)
        /\ raised' = "BufferOverflow" /\ position' = position
    BY <1>2 DEF EmitOverflow
  <2> HIDE DEF length
  <2> QED BY <2>1, <2>2, EnsuredArrayKeepsBytes DEF Exceptions
<1>3. ASSUME NEW n \in Widths, EmitNoSpace(n)
      PROVE  IInv'
  BY <1>3 DEF EmitNoSpace
<1>4. ASSUME NEW a \in Alignments, Align(a)
      PROVE  IInv'
  <2>1. AlignedPosition(a) \in Int
    BY PaddingType, WrapIntRange, SizeAssumption DEF AlignedPosition
  <2>2. AlignedPosition(a) \in 0 .. Len(array) => AlignedPosition(a) >= position
    BY AlignPadsOrRaises, AlignAssumption, PaddingType
  <2> QED BY <1>4, <2>1, <2>2 DEF Align, Exceptions
<1>5. CASE UNCHANGED vars
  BY <1>5 DEF vars
<1> QED BY <1>1, <1>2, <1>3, <1>4, <1>5 DEF Next, Emit

(* CodeBuffer: in every reachable state the position lies in an array of   *)
(* bytes whose length is a positive int or zero and a multiple of four,    *)
(* and every byte above the position is zero.                              *)
THEOREM Invariance == Spec => []IInv
BY InitInvariant, NextInvariant, PTL DEF Spec

(* CodeBuffer.TypeOK, for every size and every int width.                  *)
THEOREM TypeCorrect == Spec => []TypeOK
<1>1. IInv => TypeOK
  BY DEF IInv
<1> QED BY Invariance, <1>1, PTL

(* CodeBuffer.CleanTail: align exposes zero bytes only.                    *)
THEOREM TailIsClean == Spec => []CleanTail
<1>1. IInv => CleanTail
  BY DEF IInv
<1> QED BY Invariance, <1>1, PTL

-----------------------------------------------------------------------------

(* A prefix of an array, byte by byte.                                     *)
LEMMA PrefixBytes ==
  ASSUME NEW s \in Seq(Byte), NEW p \in 0 .. Len(s)
  PROVE  /\ SubSeq(s, 1, p) \in Seq(Byte)
         /\ Len(SubSeq(s, 1, p)) = p
         /\ \A i \in 1 .. p : SubSeq(s, 1, p)[i] = s[i]
<1>1. p \in Nat /\ \A i \in 1 .. p : s[i] \in Byte
  OBVIOUS
<1> QED BY <1>1, SubSeqProperties

(* When t agrees with s up to p and holds b from there on, the prefix of t *)
(* is the prefix of s followed by b.                                       *)
LEMMA PrefixGrows ==
  ASSUME NEW s \in Seq(Byte), NEW t \in Seq(Byte), NEW b \in Seq(Byte),
         NEW p \in 0 .. Len(s), p + Len(b) <= Len(t),
         \A i \in 1 .. p : t[i] = s[i],
         \A i \in 1 .. Len(b) : t[p + i] = b[i]
  PROVE  SubSeq(t, 1, p + Len(b)) = SubSeq(s, 1, p) \o b
<1> DEFINE old == SubSeq(s, 1, p)
           new == SubSeq(t, 1, p + Len(b))
<1>1. p \in Nat /\ Len(b) \in Nat /\ p + Len(b) \in 0 .. Len(t)
  OBVIOUS
<1>2. /\ old \in Seq(Byte)
      /\ Len(old) = p
      /\ \A i \in 1 .. p : old[i] = s[i]
  BY PrefixBytes
<1>3. /\ new \in Seq(Byte)
      /\ Len(new) = p + Len(b)
      /\ \A i \in 1 .. p + Len(b) : new[i] = t[i]
  BY <1>1, PrefixBytes
<1> HIDE DEF old, new
<1>4. /\ old \o b \in Seq(Byte)
      /\ Len(old \o b) = p + Len(b)
      /\ \A i \in 1 .. p + Len(b) :
           (old \o b)[i] = IF i <= p THEN old[i] ELSE b[i - p]
  BY <1>1, <1>2, ConcatProperties
<1>5. ASSUME NEW i \in 1 .. p + Len(b)
      PROVE  new[i] = (old \o b)[i]
  <2>1. CASE i <= p
    <3>1. i \in 1 .. p
      BY <1>1, <2>1
    <3> QED BY <1>2, <1>3, <1>4, <2>1, <3>1
  <2>2. CASE i > p
    <3>1. i - p \in 1 .. Len(b) /\ i = p + (i - p)
      BY <1>1, <2>2
    <3>2. t[i] = b[i - p]
      BY <3>1
    <3> QED BY <1>1, <1>3, <1>4, <2>2, <3>2
  <2>3. i <= p \/ i > p
    BY <1>1
  <2> QED BY <2>1, <2>2, <2>3
<1> QED BY <1>3, <1>4, <1>5, SeqEqual DEF new, old

(* An emission that succeeds appends its bytes.                            *)
LEMMA EmitPutAppends ==
  ASSUME IInv, NEW v \in Values, NEW n \in Widths, EmitPut(v, n)
  PROVE  Finish' = Finish \o Encode(v, n)
<1>1. /\ array' \in Seq(Byte)
      /\ position' = position + n
      /\ position' \in 0 .. Len(array')
      /\ \A i \in 1 .. position : array'[i] = array[i]
      /\ \A i \in 1 .. n : array'[position + i] = Encode(v, n)[i]
  BY EmitPutEffect
<1>2. Encode(v, n) \in Seq(Byte) /\ Len(Encode(v, n)) = n
  BY EncodeType
<1>3. array \in Seq(Byte) /\ position \in 0 .. Len(array)
  BY DEF IInv, TypeOK
<1>4. /\ position + Len(Encode(v, n)) <= Len(array')
      /\ \A i \in 1 .. Len(Encode(v, n)) :
            array'[position + i] = Encode(v, n)[i]
  BY <1>1, <1>2
<1>5. SubSeq(array', 1, position + Len(Encode(v, n)))
        = SubSeq(array, 1, position) \o Encode(v, n)
  <2> DEFINE b == Encode(v, n)
             t == array'
  <2>1. /\ b \in Seq(Byte) /\ t \in Seq(Byte)
        /\ position + Len(b) <= Len(t)
        /\ \A i \in 1 .. position : t[i] = array[i]
        /\ \A i \in 1 .. Len(b) : t[position + i] = b[i]
    BY <1>1, <1>2, <1>4
  <2> HIDE DEF b, t
  <2>2. SubSeq(t, 1, position + Len(b)) = SubSeq(array, 1, position) \o b
    BY <1>3, <2>1, PrefixGrows
  <2> QED BY <2>2 DEF b, t
<1> QED BY <1>1, <1>2, <1>5 DEF Finish

(* A put that does not fit leaves every byte below the position alone.     *)
LEMMA EmitOverflowWritesNothing ==
  ASSUME IInv, NEW n \in Widths, EmitOverflow(n)
  PROVE  Finish' = Finish
<1> DEFINE length == WrapInt(position + n)
           room   == EnsuredArray(length)
<1>1. length \in Int
  BY WidthAssumption, WrapIntRange, SizeAssumption DEF IInv, TypeOK
<1>2. EnsureSizeReturns(length) /\ array' = room /\ position' = position
  BY DEF EmitOverflow
<1>3. /\ room \in Seq(Byte)
      /\ position \in 0 .. Len(room)
      /\ \A i \in 1 .. position : room[i] = array[i]
  <2> HIDE DEF length
  <2> QED BY <1>1, <1>2, EnsuredArrayKeepsBytes
<1>4. array \in Seq(Byte) /\ position \in 0 .. Len(array)
  BY DEF IInv, TypeOK
<1> HIDE DEF room
<1>5. SubSeq(room, 1, position) = SubSeq(array, 1, position)
  BY <1>3, <1>4, PrefixBytes, SeqEqual
<1> QED BY <1>2, <1>5 DEF Finish

(* Aligning appends zeros, although it writes none: they were there.       *)
LEMMA AlignAppendsZeros ==
  ASSUME IInv, NEW a \in Alignments, Align(a), position' # position
  PROVE  Finish' = Finish \o Stream!Zeros(Stream!Padding(position, a))
<1> DEFINE k == Stream!Padding(position, a)
<1>1. /\ AlignedPosition(a) \in 0 .. Len(array)
      /\ position' = AlignedPosition(a)
      /\ array' = array
  BY DEF Align
<1>2. array \in Seq(Byte) /\ position \in 0 .. Len(array)
  BY DEF IInv, TypeOK
<1>3. k \in Nat
  BY <1>2, PaddingType, SizeAssumption
<1>4. AlignedPosition(a) = position + k
  BY <1>1, AlignPadsOrRaises
<1> DEFINE z == Stream!Zeros(k)
<1>5. z \in Seq(Byte) /\ Len(z) = k /\ \A i \in 1 .. k : z[i] = 0
  <2> HIDE DEF k
  <2>1. z \in [1 .. k -> Byte]
    BY ByteAssumption DEF Stream!Zeros
  <2> QED BY <1>3, <2>1, SeqDef DEF Stream!Zeros
<1> HIDE DEF k, z
<1>6. \A i \in 1 .. k : array[position + i] = z[i]
  <2>1. \A i \in position + 1 .. Len(array) : array[i] = 0
    BY DEF IInv, CleanTail
  <2>2. \A i \in 1 .. k : position + i \in position + 1 .. Len(array)
    BY <1>1, <1>2, <1>3, <1>4
  <2> QED BY <1>5, <2>1, <2>2
<1>7. position + Len(z) <= Len(array)
  BY <1>1, <1>2, <1>4, <1>5
<1>8. SubSeq(array, 1, position + Len(z)) = SubSeq(array, 1, position) \o z
  BY <1>2, <1>5, <1>6, <1>7, PrefixGrows
<1> QED BY <1>1, <1>4, <1>5, <1>8 DEF Finish, k, z

LEMMA FinishLength == IInv => Len(Finish) = position
BY PrefixBytes DEF IInv, TypeOK, Finish

LEMMA InitImplements == Init => Stream!Init
BY SubSeqEmpty DEF Init, Finish, Stream!Init

LEMMA NextImplements ==
  IInv /\ [Next]_vars => [Stream!Next]_Finish
<1> SUFFICES ASSUME IInv, [Next]_vars
             PROVE  [Stream!Next]_Finish
  OBVIOUS
<1>1. ASSUME NEW v \in Values, NEW n \in Widths, EmitPut(v, n)
      PROVE  Stream!Next
  BY <1>1, EmitPutAppends DEF Stream!Next, Stream!Emit
<1>2. ASSUME NEW n \in Widths, EmitOverflow(n)
      PROVE  UNCHANGED Finish
  BY <1>2, EmitOverflowWritesNothing
<1>3. ASSUME NEW n \in Widths, EmitNoSpace(n)
      PROVE  UNCHANGED Finish
  BY <1>3 DEF EmitNoSpace, Finish
<1>4. ASSUME NEW a \in Alignments, Align(a)
      PROVE  [Stream!Next]_Finish
  <2>1. CASE position' = position
    BY <1>4, <2>1 DEF Align, Finish
  <2>2. CASE position' # position
    BY <1>4, <2>2, AlignAppendsZeros, FinishLength
    DEF Stream!Next, Stream!Align
  <2> QED BY <2>1, <2>2
<1>5. CASE UNCHANGED vars
  BY <1>5 DEF vars, Finish
<1> QED BY <1>1, <1>2, <1>3, <1>4, <1>5 DEF Next, Emit

(* CodeBuffer.ImplementsByteStream: whatever the sizes, growth keeps every *)
(* byte, a failed operation writes nothing and alignment pads with zeros.  *)
THEOREM BufferImplementsStream == Spec => ImplementsByteStream
BY InitImplements, NextImplements, Invariance, PTL
DEF Spec, ImplementsByteStream, Stream!Spec

(* CodeBuffer.WordAlignFits: aligning code to 1, 2 or 4 bytes never fails, *)
(* although align does not make room.                                      *)
THEOREM WordAlignmentFits == Spec => []WordAlignFits
<1>1. IInv => WordAlignFits
  <2> SUFFICES ASSUME IInv, NEW a \in Alignments \cap {1, 2, 4}
               PROVE  AlignedPosition(a) \in 0 .. Len(array)
    BY DEF WordAlignFits, IInv
  <2> DEFINE k == Stream!Padding(position, a)
  <2>1. /\ position \in 0 .. Len(array)
        /\ Len(array) \in Nat
        /\ Len(array) <= MaxInt
        /\ Len(array) % 4 = 0
    BY DEF IInv, TypeOK
  <2>2. k \in Nat /\ position + k <= Len(array)
    <3>1. CASE a = 1
      BY <2>1, <3>1 DEF Stream!Padding
    <3>2. CASE a = 2
      BY <2>1, <3>2 DEF Stream!Padding
    <3>3. CASE a = 4
      BY <2>1, <3>3 DEF Stream!Padding
    <3> QED BY <3>1, <3>2, <3>3
  <2>3. WrapInt(position + k) = position + k
    <3> HIDE DEF k
    <3> QED BY <2>1, <2>2, WrapIntSum, SizeAssumption
  <2> QED BY <2>1, <2>2, <2>3 DEF AlignedPosition
<1> QED BY Invariance, <1>1, PTL

-----------------------------------------------------------------------------

(* While four times the bytes needed fit in an int the growth arithmetic   *)
(* does not wrap around, and what it leaves is large enough.               *)
LEMMA GrowthFits ==
  ASSUME IInv, NEW n \in Widths, 4 * (position + n) <= MaxInt
  PROVE  /\ WrapInt(position + n) = position + n
         /\ NewSize(position + n) = 4 * (position + n)
         /\ Len(EnsuredArray(position + n)) >= position + n
<1>1. /\ position \in Nat /\ n \in Nat \ {0}
      /\ array \in Seq(Byte) /\ Len(array) \in Nat
  BY WidthAssumption DEF IInv, TypeOK
<1>2. position + n \in 0 .. 2 * MaxInt /\ 4 * (position + n) \in 0 .. 2 * MaxInt
  BY <1>1, SizeAssumption
<1>3. /\ WrapInt(position + n) = position + n
      /\ WrapInt(4 * (position + n)) = 4 * (position + n)
  <2>1. \A k \in 0 .. 2 * MaxInt : k <= MaxInt => WrapInt(k) = k
    BY WrapIntSum
  <2>2. position + n <= MaxInt
    BY <1>1, SizeAssumption
  <2> QED BY <1>2, <2>1, <2>2
<1> DEFINE length == position + n
<1>4. NewSize(length) = 4 * length
  BY <1>1, <1>3 DEF NewSize
<1>5. length \in Nat
  BY <1>1
<1> HIDE DEF length
<1>6. CASE Grows(length)
  <2>1. EnsuredArray(length) = [i \in 1 .. 4 * length |->
                                  IF i <= Len(array) THEN array[i] ELSE 0]
    BY <1>4, <1>6 DEF EnsuredArray, CopyOf
  <2>2. Len(EnsuredArray(length)) = 4 * length
    BY <1>5, <2>1
  <2> QED BY <1>3, <1>4, <1>5, <2>2 DEF length
<1>7. CASE ~Grows(length)
  BY <1>1, <1>3, <1>4, <1>5, <1>7 DEF EnsuredArray, Grows, length
<1> QED BY <1>6, <1>7

(* CodeBuffer.EmitFailsOnlyNearMaxInt: short of a quarter of the largest   *)
(* int, an emission that fails has run out of memory; neither a negative   *)
(* size, nor a position beyond the new array, nor a full buffer.           *)
THEOREM EmitsShortOfMaxInt == Spec => EmitFailsOnlyNearMaxInt
<1>1. ASSUME IInv, NEW v \in Values, NEW n \in Widths, Emit(v, n),
             4 * (position + n) <= MaxInt
      PROVE  raised' \in {"none", "OutOfMemory"}
  <2>1. /\ position \in Nat /\ n \in Nat \ {0}
        /\ WrapInt(position + n) = position + n
        /\ NewSize(position + n) = 4 * (position + n)
        /\ Len(EnsuredArray(position + n)) >= position + n
    BY <1>1, GrowthFits, WidthAssumption DEF IInv, TypeOK
  <2>2. CASE EmitPut(v, n)
    BY <2>2 DEF EmitPut
  <2>3. CASE EmitOverflow(n)
    <3> DEFINE room == EnsuredArray(position + n)
    <3>1. position + n > Len(room)
      BY <2>1, <2>3 DEF EmitOverflow
    <3>2. Len(room) \in Nat
      <4>1. position + n \in Int /\ EnsureSizeReturns(position + n)
        BY <2>1, <2>3 DEF EmitOverflow
      <4>2. room \in Seq(Byte)
        BY <1>1, <4>1, EnsuredArrayKeepsBytes
      <4> QED BY <4>2
    <3> QED BY <2>1, <3>1, <3>2
  <2>4. CASE EmitNoSpace(n)
    <3>1. /\ NewSize(position + n) >= 0
          /\ NewSize(position + n) \notin 0 .. position - 1
      BY <2>1
    <3> QED BY <2>1, <2>4, <3>1 DEF EmitNoSpace, EnsureSizeRaises
  <2> QED BY <1>1, <2>2, <2>3, <2>4 DEF Emit
<1>2. IInv /\ [Next]_vars =>
        [\A v \in Values, n \in Widths :
           Emit(v, n) /\ 4 * (position + n) <= MaxInt
             => raised' \in {"none", "OutOfMemory"}]_vars
  BY <1>1
<1> QED BY Invariance, <1>2, PTL DEF Spec, EmitFailsOnlyNearMaxInt

=============================================================================
