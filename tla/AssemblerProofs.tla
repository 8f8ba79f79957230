--------------------------- MODULE AssemblerProofs ---------------------------
(***************************************************************************)
(* Lemmas about AMD64Assembler and X86, for AssemblerClientProofs and      *)
(* AsmInjectorProofs: what an operation of the assembler emits is decoded  *)
(* into the instructions its comments name, after whatever was emitted     *)
(* before, and without changing how that is decoded.                       *)
(*                                                                         *)
(* The lemmas of X86 about recursive functions use induction in the form   *)
(* of Induction below: a set instead of a predicate.                       *)
(***************************************************************************)
EXTENDS AMD64Assembler, SequenceTheorems, WellFoundedInduction, TLAPS

LEMMA Induction ==
  ASSUME NEW S, 0 \in S, \A n \in Nat : n \in S => n + 1 \in S
  PROVE  Nat \subseteq S
  <1> DEFINE T == Nat \ S
  <1> SUFFICES ASSUME T # {}
               PROVE  FALSE
    OBVIOUS
  <1>1. T \subseteq Nat
    OBVIOUS
  <1> HIDE DEF T
  <1>2. PICK x \in T : \A y \in T : ~(<< y, x >> \in OpToRel(<, Nat))
    BY <1>1, WFMin, NatLessThanWellFounded, Zenon
  <1>3. \A y \in T : ~(y < x)
    BY <1>1, <1>2, Zenon DEF OpToRel
  <1>4. x \in Nat /\ x \notin S
    BY <1>2 DEF T
  <1>5. x - 1 \in Nat /\ x - 1 < x /\ (x - 1) + 1 = x
    BY <1>4
  <1>6. x - 1 \in S
    BY <1>3, <1>5 DEF T
  <1> QED
    BY <1>4, <1>5, <1>6

Items == [w : {1}, v : 0 .. 255] \cup [w : {4, 8}, v : Int]

LEMMA ItemFacts ==
  ASSUME NEW x \in Items
  PROVE  x.w \in Nat /\ x.v \in Int /\ (x.w = 1 => x.v \in 0 .. 255)
  <1>1. CASE x \in [w : {1}, v : 0 .. 255]
    BY <1>1
  <1>2. CASE x \in [w : {4, 8}, v : Int]
    BY <1>2
  <1> QED
    BY <1>1, <1>2 DEF Items

-----------------------------------------------------------------------------
(* Addresses.                                                              *)

IsAddresses(at, n, code) ==
  at = [i \in 1 .. n |-> IF i = 1 THEN 0 ELSE at[i - 1] + code[i - 1].w]

LEMMA AddressesExist ==
  ASSUME NEW code
  PROVE  \A n \in Nat : \E at : IsAddresses(at, n, code)
  <1> DEFINE S == {n \in Nat : \E at : IsAddresses(at, n, code)}
  <1>1. 0 \in S
    <2> DEFINE at == [i \in 1 .. 0 |-> 0]
    <2>1. IsAddresses(at, 0, code)
      BY DEF IsAddresses
    <2> QED
      BY <2>1
  <1>2. ASSUME NEW n \in Nat, n \in S
        PROVE  n + 1 \in S
    <2>1. PICK at : IsAddresses(at, n, code)
      BY <1>2
    <2> DEFINE next == [i \in 1 .. n + 1 |->
                          IF i = 1 THEN 0
                          ELSE IF i = n + 1 THEN at[n] + code[n].w ELSE at[i]]
    <2>2. \A i \in 1 .. n + 1 :
            next[i] = IF i = 1 THEN 0 ELSE next[i - 1] + code[i - 1].w
      <3> TAKE i \in 1 .. n + 1
      <3>1. \A k \in 1 .. n :
              at[k] = IF k = 1 THEN 0 ELSE at[k - 1] + code[k - 1].w
        BY <2>1 DEF IsAddresses
      <3>2. CASE i = 1 \/ i = n + 1
        BY <3>1, <3>2
      <3>3. CASE i \in 2 .. n
        <4>1. i \in 1 .. n /\ i - 1 \in 1 .. n /\ i # 1 /\ i # n + 1
          BY <3>3
        <4>2. next[i] = at[i] /\ next[i - 1] = at[i - 1]
          BY <3>1, <4>1
        <4> QED
          BY <3>1, <4>1, <4>2
      <3> QED
        BY <3>2, <3>3
    <2>3. next = [i \in 1 .. n + 1 |-> next[i]]
      OBVIOUS
    <2> HIDE DEF next
    <2>4. IsAddresses(next, n + 1, code)
      BY <2>2, <2>3 DEF IsAddresses
    <2> QED
      BY <2>4
  <1> HIDE DEF S
  <1>3. Nat \subseteq S
    BY <1>1, <1>2, Induction
  <1> QED
    BY <1>3 DEF S

LEMMA AddressesAre ==
  ASSUME NEW code \in Seq(Items)
  PROVE  IsAddresses(Addresses(code), Len(code) + 1, code)
  <1>1. \E at : IsAddresses(at, Len(code) + 1, code)
    BY AddressesExist
  <1>2. Addresses(code) = CHOOSE at : IsAddresses(at, Len(code) + 1, code)
    BY Zenon DEF Addresses, IsAddresses
  <1> QED
    BY <1>1, <1>2, Zenon

LEMMA AddressesFacts ==
  ASSUME NEW code \in Seq(Items)
  PROVE  /\ Addresses(code)[1] = 0
         /\ \A i \in 1 .. Len(code) :
              Addresses(code)[i + 1] = Addresses(code)[i] + code[i].w
         /\ \A i \in 1 .. Len(code) + 1 : Addresses(code)[i] \in Nat
         /\ CodeSize(code) \in Nat
  <1> DEFINE at == Addresses(code)
  <1>1. at = [i \in 1 .. Len(code) + 1 |->
                IF i = 1 THEN 0 ELSE at[i - 1] + code[i - 1].w]
    BY AddressesAre DEF IsAddresses
  <1> HIDE DEF at
  <1>2. at[1] = 0
    BY <1>1
  <1>3. \A i \in 1 .. Len(code) : at[i + 1] = at[i] + code[i].w
    BY <1>1
  <1>4. \A i \in 1 .. Len(code) : code[i].w \in Nat
    <2> TAKE i \in 1 .. Len(code)
    <2>1. code[i] \in Items
      OBVIOUS
    <2> QED
      BY <2>1 DEF Items
  <1> DEFINE S == {n \in Nat :
                   n + 1 \in 1 .. Len(code) + 1 => at[n + 1] \in Nat}
  <1>5. 0 \in S
    BY <1>2
  <1>6. ASSUME NEW n \in Nat, n \in S
        PROVE  n + 1 \in S
    BY <1>3, <1>4, <1>6
  <1> HIDE DEF S
  <1>7. Nat \subseteq S
    BY <1>5, <1>6, Induction
  <1>8. ASSUME NEW i \in 1 .. Len(code) + 1
        PROVE  at[i] \in Nat
    <2>1. i - 1 \in S /\ (i - 1) + 1 = i
      BY <1>7
    <2> QED
      BY <2>1 DEF S
  <1> QED
    BY <1>2, <1>3, <1>8 DEF CodeSize, at

(* What is appended to a code does not move it.                            *)
LEMMA AddressesAppended ==
  ASSUME NEW code \in Seq(Items), NEW s \in Seq(Items)
  PROVE  /\ \A i \in 1 .. Len(code) + 1 :
              Addresses(code \o s)[i] = Addresses(code)[i]
         /\ Addresses(code \o s)[Len(code) + 1] = CodeSize(code)
         /\ \A i \in 1 .. Len(s) :
              Addresses(code \o s)[Len(code) + i + 1]
                = Addresses(code \o s)[Len(code) + i] + s[i].w
         /\ CodeSize(code \o s) >= CodeSize(code)
  <1> DEFINE all == code \o s
             at  == Addresses(code)
             new == Addresses(all)
             n   == Len(code)
  <1>1. /\ all \in Seq(Items) /\ n \in Nat /\ Len(s) \in Nat
        /\ Len(all) = n + Len(s)
        /\ \A i \in 1 .. n : all[i] = code[i]
        /\ \A i \in 1 .. Len(s) : all[n + i] = s[i]
    OBVIOUS
  <1>2. /\ at[1] = 0
        /\ \A i \in 1 .. n : at[i + 1] = at[i] + code[i].w
    BY AddressesFacts
  <1> HIDE DEF all
  <1>3. /\ new[1] = 0
        /\ \A i \in 1 .. n + Len(s) : new[i + 1] = new[i] + all[i].w
        /\ \A i \in 1 .. n + Len(s) + 1 : new[i] \in Nat
    BY <1>1, AddressesFacts
  <1> HIDE DEF at, new
  <1> DEFINE S == {k \in Nat : k <= n => new[k + 1] = at[k + 1]}
  <1>4. 0 \in S
    BY <1>2, <1>3
  <1>5. ASSUME NEW k \in Nat, k \in S
        PROVE  k + 1 \in S
    <2> SUFFICES ASSUME k + 1 <= n
                 PROVE  new[k + 2] = at[k + 2]
      BY <1>1
    <2>1. k + 1 \in 1 .. n /\ k + 1 \in 1 .. n + Len(s) /\ k <= n
      BY <1>1
    <2>2. new[k + 1] = at[k + 1] /\ all[k + 1] = code[k + 1]
      BY <1>1, <1>5, <2>1
    <2>3. /\ new[k + 1 + 1] = new[k + 1] + all[k + 1].w
          /\ at[k + 1 + 1] = at[k + 1] + code[k + 1].w
      BY <1>2, <1>3, <2>1
    <2> QED
      BY <2>2, <2>3
  <1> HIDE DEF S
  <1>6. Nat \subseteq S
    BY <1>4, <1>5, Induction
  <1>7. ASSUME NEW i \in 1 .. n + 1
        PROVE  new[i] = at[i]
    <2>1. i - 1 \in S /\ i - 1 <= n /\ (i - 1) + 1 = i
      BY <1>1, <1>6
    <2> QED
      BY <2>1 DEF S
  <1>8. new[n + 1] = CodeSize(code)
    BY <1>1, <1>7 DEF CodeSize, at
  <1>9. ASSUME NEW i \in 1 .. Len(s)
        PROVE  new[n + i + 1] = new[n + i] + s[i].w
    BY <1>1, <1>3
  <1>10. \A i \in 1 .. Len(s) : s[i].w \in Nat
    <2> TAKE i \in 1 .. Len(s)
    <2>1. s[i] \in Items
      OBVIOUS
    <2> QED
      BY <2>1 DEF Items
  <1> DEFINE U == {k \in Nat : k <= Len(s) => new[n + k + 1] >= new[n + 1]}
  <1>11. 0 \in U
    BY <1>1, <1>3
  <1>12. ASSUME NEW k \in Nat, k \in U
         PROVE  k + 1 \in U
    <2> SUFFICES ASSUME k + 1 <= Len(s)
                 PROVE  new[n + (k + 1) + 1] >= new[n + 1]
      BY <1>1
    <2>1. k + 1 \in 1 .. Len(s) /\ k <= Len(s)
      BY <1>1
    <2>2. /\ new[n + (k + 1) + 1] = new[n + (k + 1)] + s[k + 1].w
          /\ s[k + 1].w \in Nat /\ n + (k + 1) = n + k + 1
      BY <1>1, <1>9, <1>10, <2>1
    <2>3. /\ new[n + k + 1] >= new[n + 1]
          /\ new[n + k + 1] \in Nat /\ new[n + 1] \in Nat
      BY <1>1, <1>3, <1>12, <2>1
    <2> QED
      BY <2>2, <2>3
  <1> HIDE DEF U
  <1>13. Nat \subseteq U
    BY <1>11, <1>12, Induction
  <1>14. new[n + Len(s) + 1] >= new[n + 1]
    BY <1>1, <1>13 DEF U
  <1>15. CodeSize(all) = new[n + Len(s) + 1]
    BY <1>1 DEF CodeSize, new
  <1> QED
    BY <1>7, <1>8, <1>9, <1>14, <1>15 DEF all, at, new, n

-----------------------------------------------------------------------------
(* Decoding one instruction.                                               *)

LEMMA ByteAtType ==
  ASSUME NEW code \in Seq(Items), NEW i \in Int
  PROVE  /\ ByteAt(code, i) \in -1 .. 255
         /\ ByteAt(code, i) # -1 => i \in 1 .. Len(code)
         /\ ImmediateAt(code, i, 4) => i \in 1 .. Len(code)
         /\ ImmediateAt(code, i, 8) => i \in 1 .. Len(code)
  BY DEF ByteAt, ImmediateAt, Items

LEMMA ModRMType ==
  ASSUME NEW b \in -1 .. 255
  PROVE  /\ ModRM(b).mod \in -1 .. 3
         /\ ModRM(b).reg \in -1 .. 7 /\ ModRM(b).rm \in -1 .. 7
         /\ ModRM(b).mod # -1 => b # -1
  BY DEF ModRM

LEMMA PrefixType ==
  ASSUME NEW code \in Seq(Items), NEW i \in 1 .. Len(code)
  PROVE  /\ Prefix(code, i).opcode \in {i, i + 1}
         /\ Prefix(code, i).reg \in Int /\ Prefix(code, i).rm \in Int
  <1>1. CASE ByteAt(code, i) \in \h40 .. \h4F
    <2>1. code[i].v \in Int
      BY ItemFacts
    <2> DEFINE v == code[i].v
    <2> HIDE DEF v
    <2>2. v \in Int
      BY <2>1 DEF v
    <2>3. Bit(v, 4) \in Int /\ Bit(v, 1) \in Int
      BY <2>2 DEF Bit
    <2>4. Prefix(code, i)
            = [ wide |-> Bit(v, 8) = 1, reg |-> 8 * Bit(v, 4),
                rm |-> 8 * Bit(v, 1), opcode |-> i + 1 ]
      BY <1>1 DEF Prefix, v
    <2> QED
      BY <2>3, <2>4
  <1>2. CASE ByteAt(code, i) \notin \h40 .. \h4F
    BY <1>2 DEF Prefix
  <1> QED
    BY <1>1, <1>2

(* The arms of Instruction exclude each other, because op is the byte at o.*)
LEMMA NotNop ==
  ASSUME NEW code, NEW o \in Int, ByteAt(code, o) # \h0F
  PROVE  ~ \A k \in 1 .. 5 : ByteAt(code, o + k - 1)
                           = << \h0F, \h1F, \h44, \h00, \h00 >>[k]
  <1>1. ByteAt(code, o + 1 - 1) # \h0F
    <2>1. o + 1 - 1 = o
      OBVIOUS
    <2> QED
      BY <2>1
  <1> QED
    BY <1>1

LEMMA PushIs ==
  ASSUME NEW code, NEW rex, NEW o \in Int, NEW f, NEW op \in \h50 .. \h57,
         ByteAt(code, o) = op, rex.rm \in Int
  PROVE  Instruction(code, rex, o, op, f)
           = [ins |-> <<"PUSH", rex.rm + (op - \h50)>>, next |-> o + 1]
  <1>1. op \notin \h58 .. \h5F /\ op \notin \hB8 .. \hBF
    OBVIOUS
  <1>2. op # \h8B /\ op # \h81 /\ op # \hFF /\ op # \hE8 /\ op # \hC3
    OBVIOUS
  <1>3. ~ \A k \in 1 .. 5 : ByteAt(code, o + k - 1)
                           = << \h0F, \h1F, \h44, \h00, \h00 >>[k]
    BY NotNop
  <1> QED
    BY <1>1, <1>2, <1>3 DEF Instruction

LEMMA PopIs ==
  ASSUME NEW code, NEW rex, NEW o \in Int, NEW f, NEW op \in \h58 .. \h5F,
         ByteAt(code, o) = op, rex.rm \in Int
  PROVE  Instruction(code, rex, o, op, f)
           = [ins |-> <<"POP", rex.rm + (op - \h58)>>, next |-> o + 1]
  <1>1. op \notin \h50 .. \h57 /\ op \notin \hB8 .. \hBF
    OBVIOUS
  <1>2. op # \h8B /\ op # \h81 /\ op # \hFF /\ op # \hE8 /\ op # \hC3
    OBVIOUS
  <1>3. ~ \A k \in 1 .. 5 : ByteAt(code, o + k - 1)
                           = << \h0F, \h1F, \h44, \h00, \h00 >>[k]
    BY NotNop
  <1> QED
    BY <1>1, <1>2, <1>3 DEF Instruction

LEMMA MovIs ==
  ASSUME NEW code, NEW rex, NEW o \in Int, NEW f,
         ByteAt(code, o) = \h8B, f.mod = 3
  PROVE  Instruction(code, rex, o, \h8B, f)
           = [ins |-> <<"MOV", rex.wide, rex.reg + f.reg, rex.rm + f.rm>>,
              next |-> o + 2]
  BY DEF Instruction

LEMMA SubIs ==
  ASSUME NEW code, NEW rex, NEW o \in Int, NEW f,
         ByteAt(code, o) = \h81, f.mod = 3, f.reg = 5, rex.wide,
         ImmediateAt(code, o + 2, 4)
  PROVE  Instruction(code, rex, o, \h81, f)
           = [ins |-> <<"SUB", rex.rm + f.rm, code[o + 2].v>>, next |-> o + 3]
  BY DEF Instruction

LEMMA LoadIs ==
  ASSUME NEW code, NEW rex, NEW o \in Int, NEW f, NEW op \in \hB8 .. \hBF,
         ByteAt(code, o) = op, rex.rm \in Int, rex.wide,
         ImmediateAt(code, o + 1, 8)
  PROVE  Instruction(code, rex, o, op, f)
           = [ins |-> <<"LOAD", rex.rm + (op - \hB8), code[o + 1].v>>,
              next |-> o + 2]
  <1>1. op \notin \h50 .. \h57 /\ op \notin \h58 .. \h5F
    OBVIOUS
  <1>2. op # \h8B /\ op # \h81 /\ op # \hFF /\ op # \hE8 /\ op # \hC3
    OBVIOUS
  <1>3. ~ \A k \in 1 .. 5 : ByteAt(code, o + k - 1)
                           = << \h0F, \h1F, \h44, \h00, \h00 >>[k]
    BY NotNop
  <1> QED
    BY <1>1, <1>2, <1>3 DEF Instruction

LoadOpcodes == \hB8 .. \hBF

LEMMA LoadLocal ==
  ASSUME NEW code, NEW all, NEW rex, NEW o \in Int, NEW f, NEW g,
         NEW op \in LoadOpcodes, ByteAt(code, o) = op, ByteAt(all, o) = op,
         rex.rm \in Int, rex.wide, all[o + 1] = code[o + 1],
         ImmediateAt(code, o + 1, 8), ImmediateAt(all, o + 1, 8)
  PROVE  /\ Instruction(code, rex, o, op, f) = Instruction(all, rex, o, op, g)
         /\ Instruction(code, rex, o, op, f).next = o + 2
  <1>1. Instruction(code, rex, o, op, f)
           = [ins |-> <<"LOAD", rex.rm + (op - \hB8), code[o + 1].v>>,
              next |-> o + 2]
    BY LoadIs DEF LoadOpcodes
  <1>2. Instruction(all, rex, o, op, g)
           = [ins |-> <<"LOAD", rex.rm + (op - \hB8), all[o + 1].v>>,
              next |-> o + 2]
    BY LoadIs DEF LoadOpcodes
  <1> QED
    BY <1>1, <1>2

LEMMA CallIs ==
  ASSUME NEW code, NEW rex, NEW o \in Int, NEW f,
         ByteAt(code, o) = \hFF, f.mod = 3, f.reg = 2
  PROVE  Instruction(code, rex, o, \hFF, f)
           = [ins |-> <<"CALL", rex.rm + f.rm>>, next |-> o + 2]
  BY DEF Instruction

LEMMA IncIs ==
  ASSUME NEW code, NEW rex, NEW o \in Int, NEW f,
         ByteAt(code, o) = \hFF, f.mod = 1, f.reg = 0, f.rm # rsp,
         ByteAt(code, o + 2) # -1
  PROVE  Instruction(code, rex, o, \hFF, f)
           = [ins |-> <<"INC", rex.rm + f.rm, code[o + 2].v>>, next |-> o + 3]
  BY DEF Instruction

LEMMA CallRelIs ==
  ASSUME NEW code, NEW rex, NEW o \in Int, NEW f,
         ByteAt(code, o) = \hE8, ImmediateAt(code, o + 1, 4)
  PROVE  Instruction(code, rex, o, \hE8, f)
           = [ins |-> <<"CALLREL", code[o + 1].v>>, next |-> o + 2]
  BY DEF Instruction

LEMMA RetIs ==
  ASSUME NEW code, NEW rex, NEW o \in Int, NEW f, ByteAt(code, o) = \hC3
  PROVE  Instruction(code, rex, o, \hC3, f)
           = [ins |-> <<"RET">>, next |-> o + 1]
  BY DEF Instruction

IsNop(code, o) ==
  /\ ByteAt(code, o) = \h0F /\ ByteAt(code, o + 1) = \h1F
  /\ ByteAt(code, o + 2) = \h44
  /\ ByteAt(code, o + 3) = \h00 /\ ByteAt(code, o + 4) = \h00

LEMMA NopIs ==
  ASSUME NEW code, NEW rex, NEW o \in Int, NEW f, IsNop(code, o)
  PROVE  Instruction(code, rex, o, \h0F, f)
           = [ins |-> <<"NOP5">>, next |-> o + 5]
  <1>1. \A k \in 1 .. 5 : ByteAt(code, o + k - 1)
                           = << \h0F, \h1F, \h44, \h00, \h00 >>[k]
    <2>1. /\ o + 1 - 1 = o /\ o + 2 - 1 = o + 1 /\ o + 3 - 1 = o + 2
          /\ o + 4 - 1 = o + 3 /\ o + 5 - 1 = o + 4
      OBVIOUS
    <2>2. /\ ByteAt(code, o + 1 - 1) = \h0F /\ ByteAt(code, o + 2 - 1) = \h1F
          /\ ByteAt(code, o + 3 - 1) = \h44 /\ ByteAt(code, o + 4 - 1) = \h00
          /\ ByteAt(code, o + 5 - 1) = \h00
      BY <2>1 DEF IsNop
    <2>3. \A k \in 1 .. 5 : k = 1 \/ k = 2 \/ k = 3 \/ k = 4 \/ k = 5
      OBVIOUS
    <2> QED
      BY <2>2, <2>3
  <1> QED
    BY <1>1 DEF Instruction

(* An instruction that is not BAD is one of these.                         *)
LEMMA InstructionIsOneOf ==
  ASSUME NEW code, NEW rex, NEW o \in Int, NEW op, NEW f,
         op = ByteAt(code, o)
  PROVE  \/ op \in \h50 .. \h57
         \/ op \in \h58 .. \h5F
         \/ op = \h8B /\ f.mod = 3
         \/ op = \h81 /\ f.mod = 3 /\ f.reg = 5 /\ rex.wide
              /\ ImmediateAt(code, o + 2, 4)
         \/ op \in \hB8 .. \hBF /\ rex.wide /\ ImmediateAt(code, o + 1, 8)
         \/ op = \hFF /\ f.mod = 3 /\ f.reg = 2
         \/ op = \hFF /\ f.mod = 1 /\ f.reg = 0 /\ f.rm # rsp
              /\ ByteAt(code, o + 2) # -1
         \/ op = \hE8 /\ ImmediateAt(code, o + 1, 4)
         \/ op = \hC3
         \/ op = \h0F /\ IsNop(code, o)
         \/ Instruction(code, rex, o, op, f)
              = [ins |-> <<"BAD">>, next |-> Len(code) + 1]
  <1> DEFINE nop == \A k \in 1 .. 5 : ByteAt(code, o + k - 1)
                           = << \h0F, \h1F, \h44, \h00, \h00 >>[k]
  <1>1. nop => op = \h0F /\ IsNop(code, o)
    <2> SUFFICES ASSUME nop
                 PROVE  op = \h0F /\ IsNop(code, o)
      OBVIOUS
    <2>1. /\ o + 1 - 1 = o /\ o + 2 - 1 = o + 1 /\ o + 3 - 1 = o + 2
          /\ o + 4 - 1 = o + 3 /\ o + 5 - 1 = o + 4
      OBVIOUS
    <2>2. /\ ByteAt(code, o + 1 - 1) = \h0F /\ ByteAt(code, o + 2 - 1) = \h1F
          /\ ByteAt(code, o + 3 - 1) = \h44 /\ ByteAt(code, o + 4 - 1) = \h00
          /\ ByteAt(code, o + 5 - 1) = \h00
      OBVIOUS
    <2> QED
      BY <2>1, <2>2 DEF IsNop
  <1>2. \/ op \in \h50 .. \h57
        \/ op \in \h58 .. \h5F
        \/ op = \h8B /\ f.mod = 3
        \/ op = \h81 /\ f.mod = 3 /\ f.reg = 5 /\ rex.wide
             /\ ImmediateAt(code, o + 2, 4)
        \/ op \in \hB8 .. \hBF /\ rex.wide /\ ImmediateAt(code, o + 1, 8)
        \/ op = \hFF /\ f.mod = 3 /\ f.reg = 2
        \/ op = \hFF /\ f.mod = 1 /\ f.reg = 0 /\ f.rm # rsp
             /\ ByteAt(code, o + 2) # -1
        \/ op = \hE8 /\ ImmediateAt(code, o + 1, 4)
        \/ op = \hC3
        \/ nop
        \/ Instruction(code, rex, o, op, f)
             = [ins |-> <<"BAD">>, next |-> Len(code) + 1]
    BY DEF Instruction
  <1> HIDE DEF nop
  <1> QED
    BY <1>1, <1>2

(* What follows an instruction neither changes it nor is part of it.       *)
LEMMA InstructionLocal ==
  ASSUME NEW code \in Seq(Items), NEW s \in Seq(Items),
         NEW i \in 1 .. Len(code)
  PROVE  LET d == InstructionAt(code, i)
         IN  /\ d.next \in i + 1 .. Len(code) + 1
             /\ d.ins # <<"BAD">> => InstructionAt(code \o s, i) = d
  <1> DEFINE all == code \o s
             n   == Len(code)
             rex == Prefix(code, i)
             o   == rex.opcode
             op  == ByteAt(code, o)
             f   == ModRM(ByteAt(code, o + 1))
             g   == ModRM(ByteAt(all, o + 1))
             d   == Instruction(code, rex, o, op, f)
             e   == Instruction(all, rex, o, op, g)
  <1>1. /\ all \in Seq(Items) /\ n \in Nat /\ Len(all) >= n
        /\ \A k \in 1 .. n : k \in 1 .. Len(all) /\ all[k] = code[k]
    OBVIOUS
  <1> HIDE DEF all
  <1>2. ASSUME NEW k \in Int, k \in 1 .. n
        PROVE  ByteAt(all, k) = ByteAt(code, k)
    <2>1. DOMAIN all = 1 .. Len(all) /\ DOMAIN code = 1 .. n
      BY <1>1
    <2> QED
      BY <1>1, <1>2, <2>1 DEF ByteAt
  <1>3. ASSUME NEW k \in Int, ByteAt(code, k) # -1
        PROVE  /\ k \in 1 .. n /\ all[k] = code[k]
               /\ ByteAt(all, k) = ByteAt(code, k)
    BY <1>1, <1>2, <1>3, ByteAtType
  <1>4. ASSUME NEW k \in Int, NEW w \in {4, 8}, ImmediateAt(code, k, w)
        PROVE  /\ k \in 1 .. n /\ all[k] = code[k]
               /\ ImmediateAt(all, k, w)
    <2>1. k \in 1 .. n
      BY <1>4, ByteAtType
    <2>2. DOMAIN all = 1 .. Len(all) /\ DOMAIN code = 1 .. n
      BY <1>1
    <2> QED
      BY <1>1, <1>4, <2>1, <2>2 DEF ImmediateAt
  <1>5. /\ o \in {i, i + 1} /\ rex.reg \in Int /\ rex.rm \in Int
    BY PrefixType
  <1>6. Prefix(all, i) = rex
    <2>1. ByteAt(all, i) = ByteAt(code, i) /\ all[i] = code[i]
      BY <1>1, <1>2
    <2> QED
      BY <2>1 DEF Prefix
  <1>7. InstructionAt(code, i) = d
    BY DEF InstructionAt, AfterPrefix
  <1>8. o \in Int /\ o >= i /\ i \in Int
    BY <1>5
  <1>9. ASSUME op # -1
        PROVE  /\ InstructionAt(all, i) = e
               /\ ByteAt(all, o) = op
    <2>1. ByteAt(all, o) = op
      BY <1>3, <1>8, <1>9
    <2> QED
      BY <1>6, <2>1 DEF InstructionAt, AfterPrefix
  <1>10. f.mod # -1 => ByteAt(all, o + 1) = ByteAt(code, o + 1) /\ f = g
                       /\ o + 1 \in 1 .. n
    <2>0. o + 1 \in Int
      BY <1>8
    <2>1. o + 1 \in Int /\ ByteAt(code, o + 1) \in -1 .. 255
      BY <2>0, ByteAtType
    <2>2. f.mod # -1 => ByteAt(code, o + 1) # -1
      BY <2>1, ModRMType
    <2> QED
      BY <1>3, <2>1, <2>2
  <1>11. op # -1 => o \in 1 .. n
    BY <1>3, <1>8
  <1>13. /\ n \in Nat /\ n = Len(code) /\ ByteAt(code, o) = op
         /\ rex.rm \in Int
    BY <1>1, <1>5
  <1> HIDE DEF n, rex, o, op, f, g
  <1>12. ASSUME op # -1, d = e, d.next \in i + 1 .. n + 1
         PROVE  /\ d.next \in i + 1 .. n + 1
                /\ d.ins # <<"BAD">> => InstructionAt(all, i) = d
    BY <1>9, <1>12
  <1> SUFFICES \/ op # -1 /\ d = e /\ d.next \in i + 1 .. n + 1
               \/ d = [ins |-> <<"BAD">>, next |-> n + 1]
    <2>1. ASSUME d = [ins |-> <<"BAD">>, next |-> n + 1]
          PROVE  d.next \in i + 1 .. n + 1 /\ d.ins = <<"BAD">>
      <3>1. i + 1 <= n + 1 /\ n + 1 \in Int
        BY <1>1 DEF n
      <3>2. d.next = n + 1 /\ d.ins = <<"BAD">>
        BY <2>1
      <3> HIDE DEF d
      <3> QED
        BY <1>8, <3>1, <3>2
    <2> HIDE DEF d, e
    <2> QED
      BY <1>7, <1>12, <2>1 DEF all, n
  <1>20. CASE op \in \h50 .. \h57
    <2>1. op # -1 /\ o \in 1 .. n
      BY <1>11, <1>20
    <2>2. d = [ins |-> <<"PUSH", rex.rm + (op - \h50)>>, next |-> o + 1]
      BY <1>8, <1>13, <1>20, PushIs
    <2>3. e = [ins |-> <<"PUSH", rex.rm + (op - \h50)>>, next |-> o + 1]
      BY <1>8, <1>9, <1>13, <1>20, <2>1, PushIs
    <2> HIDE DEF d, e
    <2> QED
      BY <1>8, <1>13, <2>1, <2>2, <2>3
  <1>21. CASE op \in \h58 .. \h5F
    <2>1. op # -1 /\ o \in 1 .. n
      BY <1>11, <1>21
    <2>2. d = [ins |-> <<"POP", rex.rm + (op - \h58)>>, next |-> o + 1]
      BY <1>8, <1>13, <1>21, PopIs
    <2>3. e = [ins |-> <<"POP", rex.rm + (op - \h58)>>, next |-> o + 1]
      BY <1>8, <1>9, <1>13, <1>21, <2>1, PopIs
    <2> HIDE DEF d, e
    <2> QED
      BY <1>8, <1>13, <2>1, <2>2, <2>3
  <1>22. CASE op = \h8B /\ f.mod = 3
    <2>1. op # -1 /\ f = g /\ o + 1 \in 1 .. n
      BY <1>10, <1>22
    <2>2. d = [ins |-> <<"MOV", rex.wide, rex.reg + f.reg, rex.rm + f.rm>>,
               next |-> o + 2]
      BY <1>8, <1>13, <1>22, MovIs
    <2>3. e = [ins |-> <<"MOV", rex.wide, rex.reg + f.reg, rex.rm + f.rm>>,
               next |-> o + 2]
      BY <1>8, <1>9, <1>22, <2>1, MovIs
    <2> HIDE DEF d, e
    <2> QED
      BY <1>8, <1>13, <2>1, <2>2, <2>3
  <1>23. CASE op = \h81 /\ f.mod = 3 /\ f.reg = 5 /\ rex.wide
              /\ ImmediateAt(code, o + 2, 4)
    <2>1. op # -1 /\ f = g /\ o + 2 \in Int
      BY <1>8, <1>10, <1>23
    <2>2. /\ o + 2 \in 1 .. n /\ all[o + 2] = code[o + 2]
          /\ ImmediateAt(all, o + 2, 4)
      BY <1>4, <1>23, <2>1
    <2>3. d = [ins |-> <<"SUB", rex.rm + f.rm, code[o + 2].v>>, next |-> o + 3]
      BY <1>8, <1>13, <1>23, SubIs
    <2>4. e = [ins |-> <<"SUB", rex.rm + f.rm, code[o + 2].v>>, next |-> o + 3]
      BY <1>8, <1>9, <1>23, <2>1, <2>2, SubIs
    <2> HIDE DEF d, e
    <2> QED
      BY <1>8, <1>13, <2>1, <2>2, <2>3, <2>4
  <1>24. CASE op \in \hB8 .. \hBF /\ rex.wide /\ ImmediateAt(code, o + 1, 8)
    <2>1. op # -1 /\ o + 1 \in Int
      BY <1>8, <1>24
    <2>2. /\ o + 1 \in 1 .. n /\ all[o + 1] = code[o + 1]
          /\ ImmediateAt(all, o + 1, 8)
      BY <1>4, <1>24, <2>1
    <2>3. d = e /\ d.next = o + 2
      <3>1. /\ o \in Int /\ op \in LoadOpcodes /\ rex.rm \in Int
            /\ rex.wide /\ all[o + 1] = code[o + 1]
            /\ ByteAt(code, o) = op /\ ByteAt(all, o) = op
            /\ ImmediateAt(code, o + 1, 8) /\ ImmediateAt(all, o + 1, 8)
        BY <1>8, <1>9, <1>13, <1>24, <2>1, <2>2 DEF LoadOpcodes
      <3> QED
        BY <3>1, LoadLocal, SMT
    <2> HIDE DEF d, e
    <2> QED
      BY <1>8, <1>13, <2>1, <2>2, <2>3
  <1>25. CASE op = \hFF /\ f.mod = 3 /\ f.reg = 2
    <2>1. op # -1 /\ f = g /\ o + 1 \in 1 .. n
      BY <1>10, <1>25
    <2>2. d = [ins |-> <<"CALL", rex.rm + f.rm>>, next |-> o + 2]
      BY <1>8, <1>13, <1>25, CallIs
    <2>3. e = [ins |-> <<"CALL", rex.rm + f.rm>>, next |-> o + 2]
      BY <1>8, <1>9, <1>25, <2>1, CallIs
    <2> HIDE DEF d, e
    <2> QED
      BY <1>8, <1>13, <2>1, <2>2, <2>3
  <1>26. CASE op = \hFF /\ f.mod = 1 /\ f.reg = 0 /\ f.rm # rsp
              /\ ByteAt(code, o + 2) # -1
    <2>1. op # -1 /\ f = g /\ o + 2 \in Int
      BY <1>8, <1>10, <1>26
    <2>2. /\ o + 2 \in 1 .. n /\ all[o + 2] = code[o + 2]
          /\ ByteAt(all, o + 2) # -1
      BY <1>3, <1>26, <2>1
    <2>3. d = [ins |-> <<"INC", rex.rm + f.rm, code[o + 2].v>>, next |-> o + 3]
      BY <1>8, <1>13, <1>26, IncIs
    <2>4. e = [ins |-> <<"INC", rex.rm + f.rm, code[o + 2].v>>, next |-> o + 3]
      BY <1>8, <1>9, <1>26, <2>1, <2>2, IncIs
    <2> HIDE DEF d, e
    <2> QED
      BY <1>8, <1>13, <2>1, <2>2, <2>3, <2>4
  <1>27. CASE op = \hE8 /\ ImmediateAt(code, o + 1, 4)
    <2>1. op # -1 /\ o + 1 \in Int
      BY <1>8, <1>27
    <2>2. /\ o + 1 \in 1 .. n /\ all[o + 1] = code[o + 1]
          /\ ImmediateAt(all, o + 1, 4)
      BY <1>4, <1>27, <2>1
    <2>3. d = [ins |-> <<"CALLREL", code[o + 1].v>>, next |-> o + 2]
      BY <1>8, <1>13, <1>27, CallRelIs
    <2>4. e = [ins |-> <<"CALLREL", code[o + 1].v>>, next |-> o + 2]
      BY <1>8, <1>9, <1>27, <2>1, <2>2, CallRelIs
    <2> HIDE DEF d, e
    <2> QED
      BY <1>8, <1>13, <2>1, <2>2, <2>3, <2>4
  <1>28. CASE op = \hC3
    <2>1. op # -1 /\ o \in 1 .. n
      BY <1>11, <1>28
    <2>2. d = [ins |-> <<"RET">>, next |-> o + 1]
      BY <1>8, <1>13, <1>28, RetIs
    <2>3. e = [ins |-> <<"RET">>, next |-> o + 1]
      BY <1>8, <1>9, <1>28, <2>1, RetIs
    <2> HIDE DEF d, e
    <2> QED
      BY <1>8, <1>13, <2>1, <2>2, <2>3
  <1>29. CASE op = \h0F /\ IsNop(code, o)
    <2>1. op # -1
      BY <1>29
    <2>2. /\ o + 1 \in Int /\ o + 2 \in Int /\ o + 3 \in Int /\ o + 4 \in Int
          /\ ByteAt(code, o) # -1 /\ ByteAt(code, o + 1) # -1
          /\ ByteAt(code, o + 2) # -1 /\ ByteAt(code, o + 3) # -1
          /\ ByteAt(code, o + 4) # -1
      BY <1>8, <1>29 DEF IsNop
    <2>3. IsNop(all, o) /\ o + 4 \in 1 .. n
      BY <1>3, <1>8, <1>29, <2>2 DEF IsNop
    <2>4. d = [ins |-> <<"NOP5">>, next |-> o + 5]
      BY <1>8, <1>29, NopIs
    <2>5. e = [ins |-> <<"NOP5">>, next |-> o + 5]
      BY <1>8, <1>29, <2>3, NopIs
    <2> HIDE DEF d, e
    <2> QED
      BY <1>8, <1>13, <2>1, <2>3, <2>4, <2>5
  <1>30. CASE d = [ins |-> <<"BAD">>, next |-> n + 1]
    BY <1>30
  <1> QED
    <2>1. o \in Int /\ op = ByteAt(code, o) /\ n = Len(code)
      BY <1>8, <1>13
    <2>2.
         \/ d = [ins |-> <<"BAD">>, next |-> Len(code) + 1]
         \/ op \in \h50 .. \h57
         \/ op \in \h58 .. \h5F
         \/ op = \h8B /\ f.mod = 3
         \/ op = \h81 /\ f.mod = 3 /\ f.reg = 5 /\ rex.wide
              /\ ImmediateAt(code, o + 2, 4)
         \/ op \in \hB8 .. \hBF /\ rex.wide /\ ImmediateAt(code, o + 1, 8)
         \/ op = \hFF /\ f.mod = 3 /\ f.reg = 2
         \/ op = \hFF /\ f.mod = 1 /\ f.reg = 0 /\ f.rm # rsp
              /\ ByteAt(code, o + 2) # -1
         \/ op = \hE8 /\ ImmediateAt(code, o + 1, 4)
         \/ op = \hC3
         \/ op = \h0F /\ IsNop(code, o)
      BY <2>1, InstructionIsOneOf, SMTT(30)
    <2> HIDE DEF d, e
    <2> QED
      BY <1>20, <1>21, <1>22, <1>23, <1>24, <1>25, <1>26, <1>27, <1>28, <1>29,
         <1>30, <2>1, <2>2

-----------------------------------------------------------------------------
(* Decoding a code.                                                        *)

IsFrom(from, first, code, at) ==
  from = [i \in first .. Len(code) + 1 |->
            IF i > Len(code) THEN << >>
            ELSE << Located(InstructionAt(code, i), i, at) >>
                 \o from[Located(InstructionAt(code, i), i, at).next]]

LEMMA LocatedNext ==
  ASSUME NEW code \in Seq(Items), NEW i \in 1 .. Len(code), NEW at
  PROVE  Located(InstructionAt(code, i), i, at).next \in i + 1 .. Len(code) + 1
  <1> DEFINE d == InstructionAt(code, i)
  <1>1. << >> \in Seq(Items)
    OBVIOUS
  <1>2. d.next \in i + 1 .. Len(code) + 1
    BY <1>1, InstructionLocal
  <1> HIDE DEF d
  <1>3. Located(d, i, at).next = d.next
    BY DEF Located
  <1> QED
    BY <1>2, <1>3 DEF d

LEMMA FromExists ==
  ASSUME NEW code \in Seq(Items), NEW at
  PROVE  \E from : IsFrom(from, 1, code, at)
  <1> DEFINE n == Len(code)
             D(i) == Located(InstructionAt(code, i), i, at)
             S == {k \in Nat : k <= n =>
                     \E from : IsFrom(from, n + 1 - k, code, at)}
  <1>1. n \in Nat
    OBVIOUS
  <1>2. \A i \in 1 .. n : D(i).next \in i + 1 .. n + 1
    BY LocatedNext
  <1> HIDE DEF D
  <1>3. 0 \in S
    <2> DEFINE from == [i \in n + 1 .. n + 1 |-> << >>]
    <2>1. \A i \in n + 1 .. n + 1 :
            << >> = IF i > n THEN << >> ELSE << D(i) >> \o from[D(i).next]
      BY <1>1
    <2>2. from = [i \in n + 1 .. n + 1 |->
                    IF i > n THEN << >> ELSE << D(i) >> \o from[D(i).next]]
      BY <2>1, Zenon
    <2> HIDE DEF from
    <2>3. IsFrom(from, n + 1, code, at)
      BY <2>2 DEF IsFrom, D
    <2>4. n + 1 - 0 = n + 1
      BY <1>1
    <2> QED
      BY <2>3, <2>4
  <1>4. ASSUME NEW k \in Nat, k \in S
        PROVE  k + 1 \in S
    <2> SUFFICES ASSUME k + 1 <= n
                 PROVE  \E from : IsFrom(from, n + 1 - (k + 1), code, at)
      BY <1>1
    <2> DEFINE first == n - k
    <2>1. /\ first \in 1 .. n /\ n + 1 - k = first + 1
          /\ n + 1 - (k + 1) = first
      BY <1>1
    <2>2. PICK old : IsFrom(old, first + 1, code, at)
      BY <1>1, <1>4, <2>1
    <2> HIDE DEF first
    <2> DEFINE from == [i \in first .. n + 1 |->
                          IF i = first THEN << D(first) >> \o old[D(first).next]
                          ELSE old[i]]
    <2>3. \A i \in first .. n + 1 :
            from[i] = IF i > n THEN << >> ELSE << D(i) >> \o from[D(i).next]
      <3> TAKE i \in first .. n + 1
      <3>1. \A j \in first + 1 .. n + 1 : from[j] = old[j]
        BY <1>1, <2>1
      <3>2. \A j \in first + 1 .. n + 1 :
              old[j] = IF j > n THEN << >> ELSE << D(j) >> \o old[D(j).next]
        BY <2>2 DEF IsFrom, D
      <3>3. CASE i = first
        <4>1. D(first).next \in first + 1 .. n + 1
          BY <1>2, <2>1
        <4>2. from[i] = << D(first) >> \o old[D(first).next]
          BY <3>3
        <4>3. from[D(first).next] = old[D(first).next]
          BY <3>1, <4>1
        <4>4. ~(i > n)
          BY <1>1, <2>1, <3>3
        <4> HIDE DEF from
        <4> QED
          BY <3>3, <4>2, <4>3, <4>4
      <3>4. CASE i # first /\ i <= n
        <4>1. i \in first + 1 .. n + 1 /\ i \in 1 .. n
          BY <1>1, <2>1, <3>4
        <4>2. D(i).next \in first + 1 .. n + 1
          BY <1>1, <1>2, <2>1, <4>1
        <4>3. from[i] = old[i] /\ from[D(i).next] = old[D(i).next]
          BY <3>1, <4>1, <4>2
        <4>4. ~(i > n)
          BY <1>1, <4>1
        <4> HIDE DEF from
        <4> QED
          BY <3>2, <4>1, <4>3, <4>4
      <3>5. CASE i # first /\ i > n
        <4>1. i \in first + 1 .. n + 1
          BY <1>1, <2>1, <3>5
        <4> HIDE DEF from
        <4> QED
          BY <3>1, <3>2, <3>5, <4>1
      <3> QED
        BY <1>1, <2>1, <3>3, <3>4, <3>5
    <2>4. from = [i \in first .. n + 1 |-> from[i]]
      OBVIOUS
    <2> HIDE DEF from
    <2>5. from = [i \in first .. n + 1 |->
                    IF i > n THEN << >> ELSE << D(i) >> \o from[D(i).next]]
      BY <2>3, <2>4, Zenon
    <2>6. IsFrom(from, first, code, at)
      BY <2>5 DEF IsFrom, D
    <2> QED
      BY <2>1, <2>6
  <1> HIDE DEF S
  <1>5. n \in S
    BY <1>1, <1>3, <1>4, Induction
  <1>6. n + 1 - n = 1
    BY <1>1
  <1> QED
    BY <1>1, <1>5, <1>6 DEF S

LEMMA DisassemblyUnfolds ==
  ASSUME NEW code \in Seq(Items), NEW at
  PROVE  \E from : /\ IsFrom(from, 1, code, at)
                   /\ DisassemblyFrom(code, at) = from[1]
  <1>1. \E from : IsFrom(from, 1, code, at)
    BY FromExists
  <1>2. DisassemblyFrom(code, at) = (CHOOSE from : IsFrom(from, 1, code, at))[1]
    BY Zenon DEF DisassemblyFrom, IsFrom
  <1> QED
    BY <1>1, <1>2, Zenon

IsSequence(s) == \E S : s \in Seq(S)

(* The item at which the k-th instruction of D starts.                     *)
StartOf(D, k) == IF k = 1 THEN 1 ELSE D[k - 1].next

(* D runs through the code from its first item to its end.                 *)
Decoding(code, D) ==
  /\ IsSequence(D)
  /\ \A k \in 1 .. Len(D) :
       /\ StartOf(D, k) \in 1 .. Len(code)
       /\ D[k] = Located(InstructionAt(code, StartOf(D, k)), StartOf(D, k),
                         Addresses(code))
       /\ D[k].ins # <<"BAD">>
  /\ StartOf(D, Len(D) + 1) = Len(code) + 1

LEMMA DisassemblyIs ==
  ASSUME NEW code \in Seq(Items), NEW D, Decoding(code, D)
  PROVE  Disassembly(code) = D
  <1> DEFINE at == Addresses(code)
             n  == Len(code)
             m  == Len(D)
  <1>1. PICK from : IsFrom(from, 1, code, at) /\ Disassembly(code) = from[1]
    BY DisassemblyUnfolds DEF Disassembly
  <1>2. PICK S : D \in Seq(S)
    BY DEF Decoding, IsSequence
  <1>3. n \in Nat /\ m \in Nat
    BY <1>2
  <1> DEFINE T == {k \in Nat : k <= m =>
                     from[StartOf(D, m + 1 - k)] = SubSeq(D, m + 1 - k, m)}
  <1>4. 0 \in T
    <2>1. m + 1 - 0 = m + 1 /\ n + 1 \in 1 .. n + 1 /\ n + 1 > n
      BY <1>3
    <2>2. from[n + 1] = << >>
      BY <1>1, <2>1 DEF IsFrom
    <2>3. SubSeq(D, m + 1, m) = << >>
      BY <1>2, <1>3
    <2> QED
      BY <2>1, <2>2, <2>3 DEF Decoding
  <1>5. ASSUME NEW k \in Nat, k \in T
        PROVE  k + 1 \in T
    <2> SUFFICES ASSUME k + 1 <= m
                 PROVE  from[StartOf(D, m + 1 - (k + 1))]
                          = SubSeq(D, m + 1 - (k + 1), m)
      BY <1>3
    <2> DEFINE j == m - k
               i == StartOf(D, j)
    <2>1. /\ j \in 1 .. m /\ m + 1 - (k + 1) = j /\ m + 1 - k = j + 1
          /\ j + 1 # 1 /\ (j + 1) - 1 = j
      BY <1>3
    <2>2. from[StartOf(D, j + 1)] = SubSeq(D, j + 1, m)
      BY <1>3, <1>5, <2>1
    <2>3. StartOf(D, j + 1) = D[j].next
      BY <2>1 DEF StartOf
    <2> HIDE DEF j
    <2>4. /\ i \in 1 .. n
          /\ D[j] = Located(InstructionAt(code, i), i, at)
      BY <2>1 DEF Decoding
    <2> HIDE DEF i
    <2>5. from[i] = << D[j] >> \o from[D[j].next]
      <3>1. i \in 1 .. n + 1 /\ ~(i > n)
        BY <1>3, <2>4
      <3>2. from[i] = << Located(InstructionAt(code, i), i, at) >>
                      \o from[Located(InstructionAt(code, i), i, at).next]
        BY <1>1, <3>1 DEF IsFrom
      <3> QED
        BY <2>4, <3>2
    <2>6. << D[j] >> \o SubSeq(D, j + 1, m) = SubSeq(D, j, m)
      BY <1>2, <2>1
    <2> QED
      BY <2>1, <2>2, <2>3, <2>5, <2>6 DEF i
  <1> HIDE DEF T
  <1>6. m \in T
    BY <1>3, <1>4, <1>5, Induction
  <1>7. m + 1 - m = 1 /\ StartOf(D, 1) = 1
    BY <1>3 DEF StartOf
  <1>8. from[1] = SubSeq(D, 1, m)
    BY <1>3, <1>6, <1>7 DEF T
  <1>9. SubSeq(D, 1, m) = D
    BY <1>2
  <1> QED
    BY <1>1, <1>8, <1>9

(* The items s, wherever they are put, are the instruction ins.            *)
Encodes(s, ins) ==
  /\ s \in Seq(Items)
  /\ s # << >>
  /\ ins # <<"BAD">>
  /\ \A code \in Seq(Items) :
        InstructionAt(code \o s, Len(code) + 1)
          = [ins |-> ins, next |-> Len(code) + Len(s) + 1]

(* The instruction that ins becomes when s is appended to the code.        *)
Appended(code, s, ins) ==
  [ at   |-> CodeSize(code),
    size |-> CodeSize(code \o s) - CodeSize(code),
    ins  |-> ins,
    next |-> Len(code) + Len(s) + 1 ]

LEMMA SequenceAppended ==
  ASSUME NEW s, IsSequence(s), NEW x
  PROVE  /\ IsSequence(Append(s, x))
         /\ Len(s) \in Nat /\ Len(Append(s, x)) = Len(s) + 1
         /\ Append(s, x)[Len(s) + 1] = x
         /\ \A i \in 1 .. Len(s) : Append(s, x)[i] = s[i]
         /\ DOMAIN s = 1 .. Len(s)
  <1>1. PICK S : s \in Seq(S)
    BY DEF IsSequence
  <1> DEFINE T == S \cup {x}
  <1>2. s \in Seq(T)
    BY <1>1
  <1>3. x \in T
    OBVIOUS
  <1> HIDE DEF T
  <1>4. Append(s, x) \in Seq(T)
    BY <1>2, <1>3
  <1> QED
    BY <1>2, <1>3, <1>4 DEF IsSequence

LEMMA DecodingAppended ==
  ASSUME NEW code \in Seq(Items), NEW s, NEW ins, NEW D,
         Decoding(code, D), Encodes(s, ins)
  PROVE  Decoding(code \o s, Append(D, Appended(code, s, ins)))
  <1> DEFINE all == code \o s
             n   == Len(code)
             m   == Len(D)
             new == Appended(code, s, ins)
             E   == Append(D, new)
             at  == Addresses(code)
             to  == Addresses(all)
  <1>1. s \in Seq(Items)
    BY DEF Encodes
  <1>2. /\ all \in Seq(Items) /\ n \in Nat /\ Len(s) \in Nat \ {0}
        /\ Len(all) = n + Len(s)
    BY <1>1 DEF Encodes
  <1>3. /\ IsSequence(E) /\ m \in Nat /\ Len(E) = m + 1
        /\ E[m + 1] = new
        /\ \A k \in 1 .. m : E[k] = D[k]
    BY SequenceAppended DEF Decoding
  <1>4. /\ \A i \in 1 .. n + 1 : to[i] = at[i]
        /\ to[n + 1] = CodeSize(code)
    BY <1>1, AddressesAppended
  <1>5. to[Len(all) + 1] = CodeSize(all)
    BY DEF CodeSize
  <1> HIDE DEF E, at, to, all, new
  <1>6. \A k \in 1 .. m + 1 : StartOf(E, k) = StartOf(D, k)
    <2> TAKE k \in 1 .. m + 1
    <2>1. k = 1 \/ k - 1 \in 1 .. m
      BY <1>3
    <2> QED
      BY <1>3, <2>1 DEF StartOf
  <1>7. ASSUME NEW k \in 1 .. m
        PROVE  /\ StartOf(E, k) \in 1 .. Len(all)
               /\ E[k] = Located(InstructionAt(all, StartOf(E, k)),
                                 StartOf(E, k), to)
               /\ E[k].ins # <<"BAD">>
    <2> DEFINE i == StartOf(D, k)
               d == InstructionAt(code, i)
    <2>1. /\ i \in 1 .. n
          /\ D[k] = Located(d, i, at)
          /\ D[k].ins # <<"BAD">>
      BY DEF Decoding, at
    <2> HIDE DEF i
    <2>2. /\ d.next \in i + 1 .. n + 1
          /\ d.ins # <<"BAD">> => InstructionAt(all, i) = d
      BY <1>1, <2>1, InstructionLocal DEF all
    <2> HIDE DEF d
    <2>3. d.ins # <<"BAD">>
      BY <2>1 DEF Located
    <2>4. i \in 1 .. n + 1 /\ d.next \in 1 .. n + 1 /\ i \in 1 .. Len(all)
      BY <1>2, <2>1, <2>2
    <2>5. Located(d, i, to) = Located(d, i, at)
      BY <1>4, <2>4 DEF Located
    <2>6. StartOf(E, k) = i /\ E[k] = D[k]
      BY <1>3, <1>6 DEF i
    <2> QED
      BY <2>1, <2>2, <2>3, <2>4, <2>5, <2>6
  <1>8. StartOf(E, m + 1) = n + 1 /\ n + 1 \in 1 .. Len(all)
    <2>1. StartOf(D, m + 1) = n + 1
      BY DEF Decoding
    <2> QED
      BY <1>2, <1>3, <1>6, <2>1
  <1>9. /\ E[m + 1] = Located(InstructionAt(all, n + 1), n + 1, to)
        /\ E[m + 1].ins # <<"BAD">>
        /\ E[m + 1].next = Len(all) + 1
    <2> DEFINE d == [ins |-> ins, next |-> Len(all) + 1]
    <2>1. InstructionAt(all, n + 1) = d
      BY <1>2 DEF Encodes, all
    <2>2. Located(d, n + 1, to) = [ at |-> to[n + 1],
                                    size |-> to[Len(all) + 1] - to[n + 1],
                                    ins |-> ins, next |-> Len(all) + 1 ]
      BY DEF Located
    <2>3. new = [ at |-> to[n + 1], size |-> to[Len(all) + 1] - to[n + 1],
                  ins |-> ins, next |-> Len(all) + 1 ]
      BY <1>2, <1>4, <1>5 DEF new, Appended, all
    <2>4. new.ins = ins /\ new.next = Len(all) + 1
      BY <2>3
    <2> HIDE DEF d
    <2> QED
      BY <1>3, <2>1, <2>2, <2>3, <2>4 DEF Encodes
  <1>10. StartOf(E, Len(E) + 1) = Len(all) + 1
    BY <1>3, <1>9 DEF StartOf
  <1>11. \A k \in 1 .. Len(E) : k \in 1 .. m \/ k = m + 1
    BY <1>3
  <1>12. Decoding(all, E)
    BY <1>3, <1>7, <1>8, <1>9, <1>10, <1>11 DEF Decoding, to
  <1> QED
    BY <1>12 DEF all, E, new

LEMMA DecodingEmpty == Decoding(<< >>, << >>)
  <1>1. << >> \in Seq({}) /\ Len(<< >>) = 0
    OBVIOUS
  <1> QED
    BY <1>1 DEF Decoding, IsSequence, StartOf

-----------------------------------------------------------------------------
(* What the assembler emits for each instruction.                          *)

LEMMA NoPrefix ==
  ASSUME NEW code, NEW i, ByteAt(code, i) \notin \h40 .. \h4F
  PROVE  Prefix(code, i) = [wide |-> FALSE, reg |-> 0, rm |-> 0, opcode |-> i]
  BY DEF Prefix

LEMMA RexPrefix ==
  ASSUME NEW code, NEW i \in Int, NEW w \in {0, 1}, NEW r \in {0, 1},
         NEW b \in {0, 1}, ByteAt(code, i) = \h40 + 8 * w + 4 * r + b,
         code[i].v = \h40 + 8 * w + 4 * r + b
  PROVE  Prefix(code, i)
           = [ wide |-> w = 1, reg |-> 8 * r, rm |-> 8 * b, opcode |-> i + 1 ]
  <1> DEFINE v == \h40 + 8 * w + 4 * r + b
  <1>1. /\ v \in \h40 .. \h4F
        /\ Bit(v, 8) = w /\ Bit(v, 4) = r /\ Bit(v, 1) = b
    BY DEF Bit
  <1> HIDE DEF v
  <1> QED
    BY <1>1 DEF Prefix, v

(* Instructions without a prefix, and with one.                            *)
Unprefixed(i) == [wide |-> FALSE, reg |-> 0, rm |-> 0, opcode |-> i]

LEMMA Plain ==
  ASSUME NEW code, NEW i, ByteAt(code, i) \notin \h40 .. \h4F
  PROVE  InstructionAt(code, i)
           = Instruction(code, Unprefixed(i), i, ByteAt(code, i),
                         ModRM(ByteAt(code, i + 1)))
  <1>1. Prefix(code, i) = Unprefixed(i)
    BY NoPrefix DEF Unprefixed
  <1>2. Unprefixed(i).opcode = i
    BY DEF Unprefixed
  <1> QED
    BY <1>1, <1>2 DEF InstructionAt, AfterPrefix

LEMMA Prefixed ==
  ASSUME NEW code, NEW i \in Int, NEW rex, Prefix(code, i) = rex,
         rex.opcode = i + 1
  PROVE  InstructionAt(code, i)
           = Instruction(code, rex, i + 1, ByteAt(code, i + 1),
                         ModRM(ByteAt(code, i + 2)))
  <1>1. i + 1 + 1 = i + 2
    OBVIOUS
  <1> QED
    BY <1>1 DEF InstructionAt, AfterPrefix

LEMMA ByteItems ==
  ASSUME NEW b \in 0 .. 255
  PROVE  ByteItem(b) \in Items /\ ByteItem(b).w = 1 /\ ByteItem(b).v = b
  <1>1. b % 256 = b
    OBVIOUS
  <1> QED
    BY <1>1 DEF ByteItem, Items

LEMMA WideItems ==
  ASSUME NEW c \in Int
  PROVE  /\ IntItem(c) \in Items /\ IntItem(c).w = 4 /\ IntItem(c).v = c
         /\ LongItem(c) \in Items /\ LongItem(c).w = 8 /\ LongItem(c).v = c
  BY DEF IntItem, LongItem, Items

Has(code, i, x) == i \in DOMAIN code /\ code[i] = x

LEMMA HasAfter ==
  ASSUME NEW code \in Seq(Items), NEW s \in Seq(Items),
         NEW m \in Nat, m = Len(s)
  PROVE  \A k \in 1 .. m : Has(code \o s, Len(code) + k, s[k])
  BY DEF Has

LEMMA HasByte ==
  ASSUME NEW code, NEW i, NEW b \in 0 .. 255, Has(code, i, ByteItem(b))
  PROVE  ByteAt(code, i) = b
  BY ByteItems DEF Has, ByteAt

LEMMA HasInt ==
  ASSUME NEW code, NEW i, NEW c \in Int, Has(code, i, IntItem(c))
  PROVE  ImmediateAt(code, i, 4) /\ code[i].v = c
  BY WideItems DEF Has, ImmediateAt

LEMMA HasLong ==
  ASSUME NEW code, NEW i, NEW c \in Int, Has(code, i, LongItem(c))
  PROVE  ImmediateAt(code, i, 8) /\ code[i].v = c
  BY WideItems DEF Has, ImmediateAt

(* A ModRM byte and its fields.                                            *)
LEMMA ModRMByte ==
  ASSUME NEW r \in 0 .. 7, NEW m \in 0 .. 7
  PROVE  /\ \hC0 + 8 * r + m \in 0 .. 255
         /\ ModRM(\hC0 + 8 * r + m) = [mod |-> 3, reg |-> r, rm |-> m]
  <1> DEFINE b == \hC0 + 8 * r + m
  <1>1. b \in 0 .. 255 /\ b # -1
    OBVIOUS
  <1>2. b \div 64 = 3 /\ (b \div 8) % 8 = r /\ b % 8 = m
    <2>1. b \div 8 = 24 + r
      OBVIOUS
    <2> QED
      BY <2>1
  <1> HIDE DEF b
  <1> QED
    BY <1>1, <1>2 DEF ModRM, b

LEMMA PushEncoded ==
  Encodes(<< ByteItem(\h50 + rbp) >>, <<"PUSH", rbp>>)
  <1> DEFINE s == << ByteItem(\h50 + rbp) >>
  <1>1. \h50 + rbp = \h55 /\ rbp = 5
    BY DEF rbp
  <1>2. ByteItem(\h55) \in Items
    BY ByteItems
  <1>3. /\ s \in Seq(Items) /\ Len(s) = 1 /\ s[1] = ByteItem(\h55)
        /\ s # << >>
    BY <1>1, <1>2
  <1> HIDE DEF s
  <1>4. ASSUME NEW code \in Seq(Items)
        PROVE  InstructionAt(code \o s, Len(code) + 1)
                 = [ins |-> <<"PUSH", rbp>>, next |-> Len(code) + Len(s) + 1]
    <2> DEFINE all == code \o s
               i   == Len(code) + 1
               rex == Unprefixed(i)
               f   == ModRM(ByteAt(all, i + 1))
    <2>1. ByteAt(all, i) = \h55 /\ i \in Int
      <3>1. Has(all, i, ByteItem(\h55))
        BY <1>3, HasAfter
      <3> QED
        BY <3>1, HasByte
    <2> HIDE DEF all, i
    <2>2. InstructionAt(all, i) = Instruction(all, rex, i, \h55, f)
      BY <2>1, Plain
    <2>3. rex.rm = 0
      BY DEF Unprefixed
    <2> HIDE DEF rex, f
    <2>4. Instruction(all, rex, i, \h55, f)
            = [ins |-> <<"PUSH", rex.rm + (\h55 - \h50)>>, next |-> i + 1]
      BY <2>1, <2>3, PushIs
    <2> QED
      BY <1>1, <1>3, <2>2, <2>3, <2>4 DEF all, i
  <1> QED
    BY <1>3, <1>4 DEF Encodes, s

LEMMA PopEncoded ==
  Encodes(<< ByteItem(\h58 + rbp) >>, <<"POP", rbp>>)
  <1> DEFINE s == << ByteItem(\h58 + rbp) >>
  <1>1. \h58 + rbp = \h5D /\ rbp = 5
    BY DEF rbp
  <1>2. ByteItem(\h5D) \in Items
    BY ByteItems
  <1>3. /\ s \in Seq(Items) /\ Len(s) = 1 /\ s[1] = ByteItem(\h5D)
        /\ s # << >>
    BY <1>1, <1>2
  <1> HIDE DEF s
  <1>4. ASSUME NEW code \in Seq(Items)
        PROVE  InstructionAt(code \o s, Len(code) + 1)
                 = [ins |-> <<"POP", rbp>>, next |-> Len(code) + Len(s) + 1]
    <2> DEFINE all == code \o s
               i   == Len(code) + 1
               rex == Unprefixed(i)
               f   == ModRM(ByteAt(all, i + 1))
    <2>1. ByteAt(all, i) = \h5D /\ i \in Int
      <3>1. Has(all, i, ByteItem(\h5D))
        BY <1>3, HasAfter
      <3> QED
        BY <3>1, HasByte
    <2> HIDE DEF all, i
    <2>2. InstructionAt(all, i) = Instruction(all, rex, i, \h5D, f)
      BY <2>1, Plain
    <2>3. rex.rm = 0
      BY DEF Unprefixed
    <2> HIDE DEF rex, f
    <2>4. Instruction(all, rex, i, \h5D, f)
            = [ins |-> <<"POP", rex.rm + (\h5D - \h58)>>, next |-> i + 1]
      BY <2>1, <2>3, PopIs
    <2> QED
      BY <1>1, <1>3, <2>2, <2>3, <2>4 DEF all, i
  <1> QED
    BY <1>3, <1>4 DEF Encodes, s

LEMMA RetEncoded == Encodes(<< ByteItem(\hC3) >>, <<"RET">>)
  <1> DEFINE s == << ByteItem(\hC3) >>
  <1>1. ByteItem(\hC3) \in Items
    BY ByteItems
  <1>2. /\ s \in Seq(Items) /\ Len(s) = 1 /\ s[1] = ByteItem(\hC3)
        /\ s # << >>
    BY <1>1
  <1> HIDE DEF s
  <1>3. ASSUME NEW code \in Seq(Items)
        PROVE  InstructionAt(code \o s, Len(code) + 1)
                 = [ins |-> <<"RET">>, next |-> Len(code) + Len(s) + 1]
    <2> DEFINE all == code \o s
               i   == Len(code) + 1
               rex == Unprefixed(i)
               f   == ModRM(ByteAt(all, i + 1))
    <2>1. ByteAt(all, i) = \hC3 /\ i \in Int
      <3>1. Has(all, i, ByteItem(\hC3))
        BY <1>2, HasAfter
      <3> QED
        BY <3>1, HasByte
    <2> HIDE DEF all, i
    <2>2. InstructionAt(all, i) = Instruction(all, rex, i, \hC3, f)
      BY <2>1, Plain
    <2> HIDE DEF rex, f
    <2>3. Instruction(all, rex, i, \hC3, f)
            = [ins |-> <<"RET">>, next |-> i + 1]
      BY <2>1, RetIs
    <2> QED
      BY <1>2, <2>2, <2>3 DEF all, i
  <1> QED
    BY <1>2, <1>3 DEF Encodes, s

LEMMA NopEncoded ==
  Encodes(<< ByteItem(\h0F), ByteItem(\h1F), ByteItem(\h44), ByteItem(\h00),
             ByteItem(\h00) >>, <<"NOP5">>)
  <1> DEFINE s == << ByteItem(\h0F), ByteItem(\h1F), ByteItem(\h44),
                     ByteItem(\h00), ByteItem(\h00) >>
  <1>1. /\ ByteItem(\h0F) \in Items /\ ByteItem(\h1F) \in Items
        /\ ByteItem(\h44) \in Items /\ ByteItem(\h00) \in Items
    BY ByteItems
  <1>2. /\ s \in Seq(Items) /\ Len(s) = 5 /\ s # << >>
        /\ s[1] = ByteItem(\h0F) /\ s[2] = ByteItem(\h1F)
        /\ s[3] = ByteItem(\h44)
        /\ s[4] = ByteItem(\h00) /\ s[5] = ByteItem(\h00)
    BY <1>1
  <1> HIDE DEF s
  <1>3. ASSUME NEW code \in Seq(Items)
        PROVE  InstructionAt(code \o s, Len(code) + 1)
                 = [ins |-> <<"NOP5">>, next |-> Len(code) + Len(s) + 1]
    <2> DEFINE all == code \o s
               n   == Len(code)
               rex == Unprefixed(n + 1)
               f   == ModRM(ByteAt(all, n + 2))
    <2>0. \A k \in 1 .. 5 : Has(all, n + k, s[k])
      BY <1>2, HasAfter
    <2>1. /\ ByteAt(all, n + 1) = \h0F /\ ByteAt(all, n + 2) = \h1F
          /\ ByteAt(all, n + 3) = \h44 /\ ByteAt(all, n + 4) = \h00
          /\ ByteAt(all, n + 5) = \h00
      <3>1. ByteAt(all, n + 1) = \h0F
        <4>1. Has(all, n + 1, ByteItem(\h0F))
          BY <1>2, <2>0
        <4> QED
          BY <4>1, HasByte
      <3>2. ByteAt(all, n + 2) = \h1F
        <4>1. Has(all, n + 2, ByteItem(\h1F))
          BY <1>2, <2>0
        <4> QED
          BY <4>1, HasByte
      <3>3. ByteAt(all, n + 3) = \h44
        <4>1. Has(all, n + 3, ByteItem(\h44))
          BY <1>2, <2>0
        <4> QED
          BY <4>1, HasByte
      <3>4. ByteAt(all, n + 4) = \h00
        <4>1. Has(all, n + 4, ByteItem(\h00))
          BY <1>2, <2>0
        <4> QED
          BY <4>1, HasByte
      <3>5. ByteAt(all, n + 5) = \h00
        <4>1. Has(all, n + 5, ByteItem(\h00))
          BY <1>2, <2>0
        <4> QED
          BY <4>1, HasByte
      <3> QED
        BY <3>1, <3>2, <3>3, <3>4, <3>5
    <2>2. n \in Int
      OBVIOUS
    <2> HIDE DEF all, n
    <2>3. /\ n + 1 + 1 = n + 2 /\ n + 1 + 2 = n + 3 /\ n + 1 + 3 = n + 4
          /\ n + 1 + 4 = n + 5 /\ n + 1 + 5 = n + 6 /\ n + 1 \in Int
      BY <2>2
    <2>4. IsNop(all, n + 1)
      BY <2>1, <2>3 DEF IsNop
    <2>5. InstructionAt(all, n + 1) = Instruction(all, rex, n + 1, \h0F, f)
      <3>1. ByteAt(all, n + 1) = \h0F /\ n + 1 + 1 = n + 2
        BY <2>1, <2>3
      <3> QED
        BY <3>1, Plain
    <2> HIDE DEF rex, f
    <2>6. Instruction(all, rex, n + 1, \h0F, f)
            = [ins |-> <<"NOP5">>, next |-> n + 1 + 5]
      BY <2>3, <2>4, NopIs
    <2>7. n + Len(s) + 1 = n + 1 + 5
      BY <1>2, <2>2
    <2> QED
      BY <2>5, <2>6, <2>7 DEF all, n
  <1> QED
    BY <1>2, <1>3 DEF Encodes, s

LEMMA RelEncoded ==
  ASSUME NEW c \in Int
  PROVE  Encodes(<< ByteItem(\hE8), IntItem(c) >>, <<"CALLREL", c>>)
  <1> DEFINE s == << ByteItem(\hE8), IntItem(c) >>
  <1>1. ByteItem(\hE8) \in Items /\ IntItem(c) \in Items
    <2>1. ByteItem(\hE8) \in Items
      BY ByteItems
    <2> QED
      BY <2>1, WideItems
  <1>2. /\ s \in Seq(Items) /\ Len(s) = 2 /\ s # << >>
        /\ s[1] = ByteItem(\hE8) /\ s[2] = IntItem(c)
    BY <1>1
  <1> HIDE DEF s
  <1>3. ASSUME NEW code \in Seq(Items)
        PROVE  InstructionAt(code \o s, Len(code) + 1)
                 = [ins |-> <<"CALLREL", c>>, next |-> Len(code) + Len(s) + 1]
    <2> DEFINE all == code \o s
               n   == Len(code)
               rex == Unprefixed(n + 1)
               f   == ModRM(ByteAt(all, n + 2))
    <2>0. \A k \in 1 .. 2 : Has(all, n + k, s[k])
      BY <1>2, HasAfter
    <2>1. ByteAt(all, n + 1) = \hE8
      <3>1. Has(all, n + 1, ByteItem(\hE8))
        BY <1>2, <2>0
      <3> QED
        BY <3>1, HasByte
    <2>2. ImmediateAt(all, n + 2, 4) /\ all[n + 2].v = c
      <3>1. Has(all, n + 2, IntItem(c))
        BY <1>2, <2>0
      <3> QED
        BY <3>1, HasInt
    <2>3. n \in Int
      OBVIOUS
    <2> HIDE DEF all, n
    <2>4. n + 1 + 1 = n + 2 /\ n + 1 + 2 = n + 3 /\ n + 1 \in Int
      BY <2>3
    <2>5. InstructionAt(all, n + 1) = Instruction(all, rex, n + 1, \hE8, f)
      BY <2>1, <2>4, Plain
    <2> HIDE DEF rex, f
    <2>6. Instruction(all, rex, n + 1, \hE8, f)
            = [ins |-> <<"CALLREL", all[n + 1 + 1].v>>, next |-> n + 1 + 2]
      BY <2>1, <2>2, <2>4, CallRelIs
    <2>7. n + Len(s) + 1 = n + 1 + 2
      BY <1>2, <2>3
    <2> QED
      BY <2>2, <2>4, <2>5, <2>6, <2>7 DEF all, n
  <1> QED
    BY <1>2, <1>3 DEF Encodes, s

LEMMA SubEncoded ==
  ASSUME NEW c \in Int
  PROVE  Encodes(<< ByteItem(\h48), ByteItem(\h81), ByteItem(\hEC),
                    IntItem(c) >>, <<"SUB", rsp, c>>)
  <1> DEFINE s == << ByteItem(\h48), ByteItem(\h81), ByteItem(\hEC),
                     IntItem(c) >>
  <1>1. /\ ByteItem(\h48) \in Items /\ ByteItem(\h81) \in Items
        /\ ByteItem(\hEC) \in Items /\ IntItem(c) \in Items
    <2>1. /\ ByteItem(\h48) \in Items /\ ByteItem(\h81) \in Items
          /\ ByteItem(\hEC) \in Items
      BY ByteItems
    <2> QED
      BY <2>1, WideItems
  <1>2. /\ s \in Seq(Items) /\ Len(s) = 4 /\ s # << >>
        /\ s[1] = ByteItem(\h48) /\ s[2] = ByteItem(\h81)
        /\ s[3] = ByteItem(\hEC) /\ s[4] = IntItem(c)
    BY <1>1
  <1> HIDE DEF s
  <1>3. ASSUME NEW code \in Seq(Items)
        PROVE  InstructionAt(code \o s, Len(code) + 1)
                 = [ins |-> <<"SUB", rsp, c>>, next |-> Len(code) + Len(s) + 1]
    <2> DEFINE all == code \o s
               n   == Len(code)
               rex == [wide |-> 1 = 1, reg |-> 8 * 0, rm |-> 8 * 0,
                       opcode |-> n + 1 + 1]
               f   == ModRM(\hEC)
    <2>0. \A k \in 1 .. 4 : Has(all, n + k, s[k])
      <3>1. s \in Seq(Items) /\ 4 \in Nat /\ 4 = Len(s)
        BY <1>2
      <3> QED
        BY <3>1, HasAfter
    <2>1. ByteAt(all, n + 1) = \h48 /\ all[n + 1].v = \h48
      <3>1. Has(all, n + 1, ByteItem(\h48))
        BY <1>2, <2>0
      <3>2. ByteAt(all, n + 1) = \h48
        BY <3>1, HasByte
      <3>3. all[n + 1] = ByteItem(\h48)
        BY <3>1 DEF Has
      <3>4. ByteItem(\h48).v = \h48
        BY ByteItems
      <3> QED
        BY <3>2, <3>3, <3>4
    <2>2. ByteAt(all, n + 2) = \h81
      <3>1. Has(all, n + 2, ByteItem(\h81))
        BY <1>2, <2>0
      <3> QED
        BY <3>1, HasByte
    <2>3. ByteAt(all, n + 3) = \hEC
      <3>1. Has(all, n + 3, ByteItem(\hEC))
        BY <1>2, <2>0
      <3> QED
        BY <3>1, HasByte
    <2>4. ImmediateAt(all, n + 4, 4) /\ all[n + 4].v = c
      <3>1. Has(all, n + 4, IntItem(c))
        BY <1>2, <2>0
      <3> QED
        BY <3>1, HasInt
    <2>5. n \in Int
      OBVIOUS
    <2> HIDE DEF all, n
    <2>6. /\ n + 1 + 1 = n + 2 /\ n + 1 + 2 = n + 3 /\ n + 2 + 2 = n + 4
          /\ n + 2 + 3 = n + 5 /\ n + 1 \in Int /\ n + 2 \in Int
      BY <2>5
    <2>7. Prefix(all, n + 1) = rex
      <3>1. \h48 = \h40 + 8 * 1 + 4 * 0 + 0
        OBVIOUS
      <3> HIDE DEF rex
      <3> QED
        BY <2>1, <2>6, <3>1, RexPrefix DEF rex
    <2>8. f = [mod |-> 3, reg |-> 5, rm |-> 4]
      <3>1. \hEC = \hC0 + 8 * 5 + 4
        OBVIOUS
      <3> QED
        BY <3>1, ModRMByte
    <2>9. rex.wide /\ rex.rm = 0 /\ rex.opcode = n + 1 + 1
      BY 8 * 0 = 0
    <2>10. f.mod = 3 /\ f.reg = 5 /\ f.rm = 4
      BY <2>8
    <2> HIDE DEF rex
    <2>11. InstructionAt(all, n + 1)
             = Instruction(all, rex, n + 1 + 1, ByteAt(all, n + 1 + 1),
                           ModRM(ByteAt(all, n + 1 + 2)))
      BY <2>6, <2>7, <2>9, Prefixed
    <2>12. InstructionAt(all, n + 1) = Instruction(all, rex, n + 2, \h81, f)
      BY <2>2, <2>3, <2>6, <2>11
    <2> HIDE DEF f
    <2>13. Instruction(all, rex, n + 2, \h81, f)
             = [ins |-> <<"SUB", rex.rm + f.rm, all[n + 2 + 2].v>>,
                next |-> n + 2 + 3]
      BY <2>2, <2>4, <2>6, <2>9, <2>10, SubIs
    <2>14. InstructionAt(all, n + 1) = [ins |-> <<"SUB", 4, c>>, next |-> n + 5]
      BY <2>4, <2>6, <2>9, <2>10, <2>12, <2>13
    <2>15. n + Len(s) + 1 = n + 5
      BY <1>2, <2>5
    <2> QED
      BY <2>14, <2>15 DEF all, n, rsp
  <1> QED
    BY <1>2, <1>3 DEF Encodes, s

LEMMA RexByte ==
  ASSUME NEW w \in {0, 1}, NEW r \in {0, 1}, NEW b \in {0, 1}
  PROVE  /\ \h40 + 8 * w + 4 * r + b \in 0 .. 255
         /\ \h40 + 8 * w + 4 * r + b \in Int
  OBVIOUS

(* A move with the prefix bits w, r and b, and its items.                  *)
Move(w, r, b, x, y) == <<"MOV", w = 1, 8 * r + x, 8 * b + y>>

MoveItems(w, r, b, x, y) ==
  << ByteItem(\h40 + 8 * w + 4 * r + b), ByteItem(\h8B),
     ByteItem(\hC0 + 8 * x + y) >>

LEMMA MovPrefixed ==
  ASSUME NEW w \in {0, 1}, NEW r \in {0, 1}, NEW b \in {0, 1},
         NEW x \in 0 .. 7, NEW y \in 0 .. 7
  PROVE  Encodes(MoveItems(w, r, b, x, y), Move(w, r, b, x, y))
  <1> DEFINE p == \h40 + 8 * w + 4 * r + b
             q == \hC0 + 8 * x + y
             s == << ByteItem(p), ByteItem(\h8B), ByteItem(q) >>
  <1>1. p \in 0 .. 255 /\ q \in 0 .. 255
    BY RexByte, ModRMByte
  <1>2. ModRM(q) = [mod |-> 3, reg |-> x, rm |-> y]
    BY ModRMByte
  <1>3. ASSUME NEW code, NEW i \in Int, ByteAt(code, i) = p, code[i].v = p
        PROVE  Prefix(code, i) = [ wide |-> w = 1, reg |-> 8 * r,
                                   rm |-> 8 * b, opcode |-> i + 1 ]
    BY <1>3, RexPrefix
  <1> HIDE DEF p, q
  <1>4. /\ ByteItem(p) \in Items /\ ByteItem(\h8B) \in Items
        /\ ByteItem(q) \in Items
    <2>1. ByteItem(\h8B) \in Items
      BY ByteItems
    <2>2. ByteItem(p) \in Items /\ ByteItem(q) \in Items
      BY <1>1, ByteItems
    <2> QED
      BY <2>1, <2>2
  <1>5. /\ s \in Seq(Items) /\ Len(s) = 3 /\ s # << >>
        /\ s[1] = ByteItem(p) /\ s[2] = ByteItem(\h8B) /\ s[3] = ByteItem(q)
    BY <1>4
  <1> HIDE DEF s
  <1>6. ASSUME NEW code \in Seq(Items)
        PROVE  InstructionAt(code \o s, Len(code) + 1)
                 = [ins |-> Move(w, r, b, x, y),
                    next |-> Len(code) + Len(s) + 1]
    <2> DEFINE all == code \o s
               n   == Len(code)
               rex == [ wide |-> w = 1, reg |-> 8 * r, rm |-> 8 * b,
                        opcode |-> n + 1 + 1 ]
               f   == ModRM(q)
    <2>0. \A k \in 1 .. 3 : Has(all, n + k, s[k])
      BY <1>5, HasAfter
    <2>1. n \in Int
      OBVIOUS
    <2> HIDE DEF all, n
    <2>2. ByteAt(all, n + 1) = p /\ all[n + 1].v = p
      <3>1. Has(all, n + 1, ByteItem(p))
        BY <1>5, <2>0
      <3>2. ByteAt(all, n + 1) = p
        BY <1>1, <3>1, HasByte
      <3>3. all[n + 1] = ByteItem(p)
        BY <3>1 DEF Has
      <3>4. ByteItem(p).v = p
        BY <1>1, ByteItems
      <3> QED
        BY <3>2, <3>3, <3>4
    <2>3. ByteAt(all, n + 2) = \h8B
      <3>1. Has(all, n + 2, ByteItem(\h8B))
        BY <1>5, <2>0
      <3> QED
        BY <3>1, HasByte
    <2>4. ByteAt(all, n + 3) = q
      <3>1. Has(all, n + 3, ByteItem(q))
        BY <1>5, <2>0
      <3> QED
        BY <1>1, <3>1, HasByte
    <2>5. /\ n + 1 + 1 = n + 2 /\ n + 1 + 2 = n + 3 /\ n + 1 + 3 = n + 4
          /\ n + 1 \in Int /\ n + 2 \in Int
      BY <2>1
    <2>6. Prefix(all, n + 1) = rex
      BY <1>3, <2>2, <2>5
    <2>7. /\ rex.wide = (w = 1) /\ rex.reg = 8 * r /\ rex.rm = 8 * b
          /\ rex.opcode = n + 1 + 1
      OBVIOUS
    <2>8. f.mod = 3 /\ f.reg = x /\ f.rm = y
      BY <1>2
    <2> HIDE DEF rex
    <2>9. InstructionAt(all, n + 1)
            = Instruction(all, rex, n + 1 + 1, ByteAt(all, n + 1 + 1),
                          ModRM(ByteAt(all, n + 1 + 2)))
      BY <2>5, <2>6, <2>7, Prefixed
    <2>10. InstructionAt(all, n + 1) = Instruction(all, rex, n + 2, \h8B, f)
      BY <2>3, <2>4, <2>5, <2>9
    <2> HIDE DEF f
    <2>11. Instruction(all, rex, n + 2, \h8B, f)
             = [ins |-> <<"MOV", rex.wide, rex.reg + f.reg, rex.rm + f.rm>>,
                next |-> n + 2 + 2]
      <3> DEFINE o == n + 2
      <3>1. o \in Int /\ ByteAt(all, o) = \h8B
        BY <2>3, <2>5
      <3> HIDE DEF o
      <3>2. Instruction(all, rex, o, \h8B, f)
             = [ins |-> <<"MOV", rex.wide, rex.reg + f.reg, rex.rm + f.rm>>,
                next |-> o + 2]
        BY <2>8, <3>1, MovIs
      <3> QED
        BY <3>2 DEF o
    <2>12. n + Len(s) + 1 = n + 2 + 2
      BY <1>5, <2>1
    <2> QED
      BY <2>7, <2>8, <2>10, <2>11, <2>12 DEF all, n, Move
  <1> QED
    BY <1>5, <1>6 DEF Encodes, s, p, q, Move, MoveItems

LEMMA MovPlain ==
  ASSUME NEW x \in 0 .. 7, NEW y \in 0 .. 7
  PROVE  Encodes(<< ByteItem(\h8B), ByteItem(\hC0 + 8 * x + y) >>,
                 <<"MOV", FALSE, x, y>>)
  <1> DEFINE q == \hC0 + 8 * x + y
             s == << ByteItem(\h8B), ByteItem(q) >>
  <1>1. q \in 0 .. 255 /\ ModRM(q) = [mod |-> 3, reg |-> x, rm |-> y]
    BY ModRMByte
  <1> HIDE DEF q
  <1>2. ByteItem(\h8B) \in Items /\ ByteItem(q) \in Items
    <2>1. ByteItem(\h8B) \in Items
      BY ByteItems
    <2>2. ByteItem(q) \in Items
      BY <1>1, ByteItems
    <2> QED
      BY <2>1, <2>2
  <1>3. /\ s \in Seq(Items) /\ Len(s) = 2 /\ s # << >>
        /\ s[1] = ByteItem(\h8B) /\ s[2] = ByteItem(q)
    BY <1>2
  <1> HIDE DEF s
  <1>4. ASSUME NEW code \in Seq(Items)
        PROVE  InstructionAt(code \o s, Len(code) + 1)
                 = [ins |-> <<"MOV", FALSE, x, y>>,
                    next |-> Len(code) + Len(s) + 1]
    <2> DEFINE all == code \o s
               n   == Len(code)
               rex == Unprefixed(n + 1)
               f   == ModRM(q)
    <2>0. \A k \in 1 .. 2 : Has(all, n + k, s[k])
      BY <1>3, HasAfter
    <2>1. n \in Int
      OBVIOUS
    <2> HIDE DEF all, n
    <2>2. ByteAt(all, n + 1) = \h8B
      <3>1. Has(all, n + 1, ByteItem(\h8B))
        BY <1>3, <2>0
      <3> QED
        BY <3>1, HasByte
    <2>3. ByteAt(all, n + 2) = q
      <3>1. Has(all, n + 2, ByteItem(q))
        BY <1>3, <2>0
      <3> QED
        BY <1>1, <3>1, HasByte
    <2>4. n + 1 + 1 = n + 2 /\ n + 1 + 2 = n + 3 /\ n + 1 \in Int
      BY <2>1
    <2>5. f.mod = 3 /\ f.reg = x /\ f.rm = y
      BY <1>1
    <2>6. InstructionAt(all, n + 1)
            = Instruction(all, rex, n + 1, ByteAt(all, n + 1),
                          ModRM(ByteAt(all, n + 1 + 1)))
      BY <2>2, Plain
    <2>7. InstructionAt(all, n + 1) = Instruction(all, rex, n + 1, \h8B, f)
      BY <2>2, <2>3, <2>4, <2>6
    <2>8. rex.wide = FALSE /\ rex.reg = 0 /\ rex.rm = 0
      BY DEF Unprefixed
    <2> HIDE DEF rex, f
    <2>9. Instruction(all, rex, n + 1, \h8B, f)
            = [ins |-> <<"MOV", rex.wide, rex.reg + f.reg, rex.rm + f.rm>>,
               next |-> n + 1 + 2]
      BY <2>2, <2>4, <2>5, MovIs
    <2>10. rex.reg + f.reg = x /\ rex.rm + f.rm = y
      BY <2>5, <2>8
    <2>11. n + Len(s) + 1 = n + 1 + 2
      BY <1>3, <2>1
    <2> QED
      BY <2>7, <2>8, <2>9, <2>10, <2>11 DEF all, n
  <1> QED
    BY <1>3, <1>4 DEF Encodes, s, q

LEMMA LoadEncoded ==
  ASSUME NEW b \in {0, 1}, NEW x \in 0 .. 7, NEW c \in Int
  PROVE  Encodes(<< ByteItem(\h48 + b), ByteItem(\hB8 + x), LongItem(c) >>,
                 <<"LOAD", 8 * b + x, c>>)
  <1> DEFINE p == \h48 + b
             q == \hB8 + x
             s == << ByteItem(p), ByteItem(q), LongItem(c) >>
  <1>1. p \in 0 .. 255 /\ q \in 0 .. 255 /\ q \in \hB8 .. \hBF /\ q - \hB8 = x
    OBVIOUS
  <1>2. ASSUME NEW code, NEW i \in Int, ByteAt(code, i) = p, code[i].v = p
        PROVE  Prefix(code, i) = [ wide |-> 1 = 1, reg |-> 8 * 0,
                                   rm |-> 8 * b, opcode |-> i + 1 ]
    <2>1. p = \h40 + 8 * 1 + 4 * 0 + b
      OBVIOUS
    <2> HIDE DEF p
    <2> QED
      BY <1>2, <2>1, RexPrefix
  <1> HIDE DEF p, q
  <1>3. ByteItem(p) \in Items /\ ByteItem(q) \in Items /\ LongItem(c) \in Items
    <2>1. LongItem(c) \in Items
      BY WideItems
    <2> QED
      BY <1>1, <2>1, ByteItems
  <1>4. /\ s \in Seq(Items) /\ Len(s) = 3 /\ s # << >>
        /\ s[1] = ByteItem(p) /\ s[2] = ByteItem(q) /\ s[3] = LongItem(c)
    BY <1>3
  <1> HIDE DEF s
  <1>5. ASSUME NEW code \in Seq(Items)
        PROVE  InstructionAt(code \o s, Len(code) + 1)
                 = [ins |-> <<"LOAD", 8 * b + x, c>>,
                    next |-> Len(code) + Len(s) + 1]
    <2> DEFINE all == code \o s
               n   == Len(code)
               rex == [ wide |-> 1 = 1, reg |-> 8 * 0, rm |-> 8 * b,
                        opcode |-> n + 1 + 1 ]
               f   == ModRM(ByteAt(all, n + 1 + 2))
    <2>0. \A k \in 1 .. 3 : Has(all, n + k, s[k])
      BY <1>4, HasAfter
    <2>1. n \in Int
      OBVIOUS
    <2> HIDE DEF all, n
    <2>2. ByteAt(all, n + 1) = p /\ all[n + 1].v = p
      <3>1. Has(all, n + 1, ByteItem(p))
        BY <1>4, <2>0
      <3>2. ByteAt(all, n + 1) = p
        BY <1>1, <3>1, HasByte
      <3>3. all[n + 1] = ByteItem(p)
        BY <3>1 DEF Has
      <3>4. ByteItem(p).v = p
        BY <1>1, ByteItems
      <3> QED
        BY <3>2, <3>3, <3>4
    <2>3. ByteAt(all, n + 2) = q
      <3>1. Has(all, n + 2, ByteItem(q))
        BY <1>4, <2>0
      <3> QED
        BY <1>1, <3>1, HasByte
    <2>4. ImmediateAt(all, n + 3, 8) /\ all[n + 3].v = c
      <3>1. Has(all, n + 3, LongItem(c))
        BY <1>4, <2>0
      <3> QED
        BY <3>1, HasLong
    <2>5. /\ n + 1 + 1 = n + 2 /\ n + 2 + 1 = n + 3 /\ n + 2 + 2 = n + 4
          /\ n + 1 \in Int /\ n + 2 \in Int
      BY <2>1
    <2>6. Prefix(all, n + 1) = rex
      BY <1>2, <2>2, <2>5
    <2>7. rex.wide /\ rex.rm = 8 * b /\ rex.opcode = n + 1 + 1
      OBVIOUS
    <2> HIDE DEF rex
    <2>8. InstructionAt(all, n + 1)
            = Instruction(all, rex, n + 1 + 1, ByteAt(all, n + 1 + 1), f)
      BY <2>5, <2>6, <2>7, Prefixed
    <2> HIDE DEF f
    <2>9. InstructionAt(all, n + 1) = Instruction(all, rex, n + 2, q, f)
      BY <2>3, <2>5, <2>8
    <2>10. ImmediateAt(all, n + 2 + 1, 8) /\ rex.rm \in Int
      BY <2>4, <2>5, <2>7
    <2>11. Instruction(all, rex, n + 2, q, f)
             = [ins |-> <<"LOAD", rex.rm + (q - \hB8), all[n + 2 + 1].v>>,
                next |-> n + 2 + 2]
      <3> DEFINE o == n + 2
      <3>1. o \in Int /\ ByteAt(all, o) = q /\ ImmediateAt(all, o + 1, 8)
        BY <2>3, <2>5, <2>10
      <3> HIDE DEF o
      <3>2. Instruction(all, rex, o, q, f)
             = [ins |-> <<"LOAD", rex.rm + (q - \hB8), all[o + 1].v>>,
                next |-> o + 2]
        BY <1>1, <2>7, <2>10, <3>1, LoadIs
      <3> QED
        BY <3>2 DEF o
    <2>12. rex.rm + (q - \hB8) = 8 * b + x /\ all[n + 2 + 1].v = c
      BY <1>1, <2>4, <2>5, <2>7
    <2>13. n + Len(s) + 1 = n + 2 + 2
      BY <1>4, <2>1
    <2> QED
      BY <2>9, <2>11, <2>12, <2>13 DEF all, n
  <1> QED
    BY <1>4, <1>5 DEF Encodes, s, p, q

LEMMA CallEncoded ==
  ASSUME NEW x \in 0 .. 7
  PROVE  Encodes(<< ByteItem(\hFF), ByteItem(\hD0 + x) >>, <<"CALL", x>>)
  <1> DEFINE q == \hD0 + x
             s == << ByteItem(\hFF), ByteItem(q) >>
  <1>1. q \in 0 .. 255 /\ ModRM(q) = [mod |-> 3, reg |-> 2, rm |-> x]
    <2>1. q = \hC0 + 8 * 2 + x
      OBVIOUS
    <2> HIDE DEF q
    <2> QED
      BY <2>1, ModRMByte
  <1> HIDE DEF q
  <1>2. ByteItem(\hFF) \in Items /\ ByteItem(q) \in Items
    <2>1. ByteItem(\hFF) \in Items
      BY ByteItems
    <2>2. ByteItem(q) \in Items
      BY <1>1, ByteItems
    <2> QED
      BY <2>1, <2>2
  <1>3. /\ s \in Seq(Items) /\ Len(s) = 2 /\ s # << >>
        /\ s[1] = ByteItem(\hFF) /\ s[2] = ByteItem(q)
    BY <1>2
  <1> HIDE DEF s
  <1>4. ASSUME NEW code \in Seq(Items)
        PROVE  InstructionAt(code \o s, Len(code) + 1)
                 = [ins |-> <<"CALL", x>>, next |-> Len(code) + Len(s) + 1]
    <2> DEFINE all == code \o s
               n   == Len(code)
               rex == Unprefixed(n + 1)
               f   == ModRM(q)
    <2>0. \A k \in 1 .. 2 : Has(all, n + k, s[k])
      BY <1>3, HasAfter
    <2>1. n \in Int
      OBVIOUS
    <2> HIDE DEF all, n
    <2>2. ByteAt(all, n + 1) = \hFF
      <3>1. Has(all, n + 1, ByteItem(\hFF))
        BY <1>3, <2>0
      <3> QED
        BY <3>1, HasByte
    <2>3. ByteAt(all, n + 2) = q
      <3>1. Has(all, n + 2, ByteItem(q))
        BY <1>3, <2>0
      <3> QED
        BY <1>1, <3>1, HasByte
    <2>4. n + 1 + 1 = n + 2 /\ n + 1 + 2 = n + 3 /\ n + 1 \in Int
      BY <2>1
    <2>5. f.mod = 3 /\ f.reg = 2 /\ f.rm = x
      BY <1>1
    <2>6. InstructionAt(all, n + 1)
            = Instruction(all, rex, n + 1, ByteAt(all, n + 1),
                          ModRM(ByteAt(all, n + 1 + 1)))
      BY <2>2, Plain
    <2>7. InstructionAt(all, n + 1) = Instruction(all, rex, n + 1, \hFF, f)
      BY <2>2, <2>3, <2>4, <2>6
    <2>8. rex.rm = 0
      BY DEF Unprefixed
    <2> HIDE DEF rex, f
    <2>9. Instruction(all, rex, n + 1, \hFF, f)
            = [ins |-> <<"CALL", rex.rm + f.rm>>, next |-> n + 1 + 2]
      BY <2>2, <2>4, <2>5, CallIs
    <2>10. rex.rm + f.rm = x
      BY <2>5, <2>8
    <2>11. n + Len(s) + 1 = n + 1 + 2
      BY <1>3, <2>1
    <2> QED
      BY <2>7, <2>9, <2>10, <2>11 DEF all, n
  <1> QED
    BY <1>3, <1>4 DEF Encodes, s, q

(* What the processor makes of a call through r8 and above.                *)
LEMMA HighCallEncoded ==
  ASSUME NEW x \in 0 .. 7
  PROVE  Encodes(<< ByteItem(\hFF), ByteItem(\h41), ByteItem(\hD0 + x) >>,
                 <<"INC", 1, \hD0 + x>>)
  <1> DEFINE q == \hD0 + x
             s == << ByteItem(\hFF), ByteItem(\h41), ByteItem(q) >>
  <1>1. q \in 0 .. 255
    OBVIOUS
  <1> HIDE DEF q
  <1>2. /\ ByteItem(\hFF) \in Items /\ ByteItem(\h41) \in Items
        /\ ByteItem(q) \in Items
    <2>1. ByteItem(\hFF) \in Items /\ ByteItem(\h41) \in Items
      BY ByteItems
    <2>2. ByteItem(q) \in Items
      BY <1>1, ByteItems
    <2> QED
      BY <2>1, <2>2
  <1>3. /\ s \in Seq(Items) /\ Len(s) = 3 /\ s # << >>
        /\ s[1] = ByteItem(\hFF) /\ s[2] = ByteItem(\h41)
        /\ s[3] = ByteItem(q)
    BY <1>2
  <1> HIDE DEF s
  <1>4. ASSUME NEW code \in Seq(Items)
        PROVE  InstructionAt(code \o s, Len(code) + 1)
                 = [ins |-> <<"INC", 1, q>>, next |-> Len(code) + Len(s) + 1]
    <2> DEFINE all == code \o s
               n   == Len(code)
               rex == Unprefixed(n + 1)
               f   == ModRM(\h41)
    <2>0. \A k \in 1 .. 3 : Has(all, n + k, s[k])
      BY <1>3, HasAfter
    <2>1. n \in Int
      OBVIOUS
    <2> HIDE DEF all, n
    <2>2. ByteAt(all, n + 1) = \hFF
      <3>1. Has(all, n + 1, ByteItem(\hFF))
        BY <1>3, <2>0
      <3> QED
        BY <3>1, HasByte
    <2>3. ByteAt(all, n + 2) = \h41
      <3>1. Has(all, n + 2, ByteItem(\h41))
        BY <1>3, <2>0
      <3> QED
        BY <3>1, HasByte
    <2>4. ByteAt(all, n + 3) = q /\ all[n + 3].v = q
      <3>1. Has(all, n + 3, ByteItem(q))
        BY <1>3, <2>0
      <3>2. ByteAt(all, n + 3) = q
        BY <1>1, <3>1, HasByte
      <3>3. all[n + 3] = ByteItem(q)
        BY <3>1 DEF Has
      <3>4. ByteItem(q).v = q
        BY <1>1, ByteItems
      <3> QED
        BY <3>2, <3>3, <3>4
    <2>5. n + 1 + 1 = n + 2 /\ n + 1 + 2 = n + 3 /\ n + 1 \in Int
      BY <2>1
    <2>6. f.mod = 1 /\ f.reg = 0 /\ f.rm = 1
      BY DEF ModRM
    <2>7. InstructionAt(all, n + 1)
            = Instruction(all, rex, n + 1, ByteAt(all, n + 1),
                          ModRM(ByteAt(all, n + 1 + 1)))
      BY <2>2, Plain
    <2>8. InstructionAt(all, n + 1) = Instruction(all, rex, n + 1, \hFF, f)
      BY <2>2, <2>3, <2>5, <2>7
    <2>9. rex.rm = 0
      BY DEF Unprefixed
    <2> HIDE DEF rex, f
    <2>10. f.rm # rsp /\ ByteAt(all, n + 1 + 2) # -1
      BY <1>1, <2>4, <2>5, <2>6 DEF rsp
    <2>11. Instruction(all, rex, n + 1, \hFF, f)
             = [ins |-> <<"INC", rex.rm + f.rm, all[n + 1 + 2].v>>,
                next |-> n + 1 + 3]
      BY <2>2, <2>5, <2>6, <2>10, IncIs
    <2>12. rex.rm + f.rm = 1 /\ all[n + 1 + 2].v = q
      BY <2>4, <2>5, <2>6, <2>9
    <2>13. n + Len(s) + 1 = n + 1 + 3
      BY <1>3, <2>1
    <2> QED
      BY <2>8, <2>11, <2>12, <2>13 DEF all, n
  <1> QED
    BY <1>3, <1>4 DEF Encodes, s, q

Slots == [offset : Int, size : Nat \ {0}]

(* What the sites and the comments are does not matter here.               *)
IsAssembler(a) ==
  a \in [ code         : Seq(Items),
          sites        : {a.sites},
          frameSize    : Nat,
          curStackSlot : Nat,
          deoptRescue  : {NoSlot} \cup Slots,
          nextRegister : Nat,
          raised       : BOOLEAN,
          listing      : {a.listing},
          slots        : Seq(Slots) ]

(* The slots s lie, in order, between the initial frame and cur.           *)
Stacked(s, cur) ==
  \A i \in 1 .. Len(s) :
    /\ s[i].offset >= -cur
    /\ s[i].offset + s[i].size <= -InitialFrameSize
    /\ \A j \in 1 .. i - 1 : s[i].offset + s[i].size <= s[j].offset

FrameOK(a) ==
  /\ a.curStackSlot >= InitialFrameSize
  /\ a.frameSize % StackAlignment = 0
  /\ a.frameSize - a.curStackSlot \in 0 .. StackAlignment - 1
  /\ Stacked(a.slots, a.curStackSlot)
  /\ \/ a.deoptRescue = NoSlot
     \/ \E i \in 1 .. Len(a.slots) : a.deoptRescue = a.slots[i]

AsmOK(a) == IsAssembler(a) /\ FrameOK(a)

-----------------------------------------------------------------------------
(* Emissions.                                                              *)

(* An emission leaves all but the code and the comments alone.             *)
Emits(a, b) ==
  /\ IsAssembler(b)
  /\ b.frameSize = a.frameSize /\ b.curStackSlot = a.curStackSlot
  /\ b.deoptRescue = a.deoptRescue /\ b.slots = a.slots
  /\ b.nextRegister = a.nextRegister /\ b.raised = a.raised

LEMMA EmitsChain ==
  ASSUME NEW a, NEW b, NEW c, Emits(a, b), Emits(b, c)
  PROVE  Emits(a, c)
  BY DEF Emits

LEMMA EmitsOK ==
  ASSUME NEW a, NEW b, AsmOK(a), Emits(a, b)
  PROVE  AsmOK(b)
  BY DEF Emits, AsmOK, FrameOK

LEMMA EmitsNothing ==
  ASSUME NEW a, IsAssembler(a)
  PROVE  Emits(a, a)
  BY DEF Emits

LEMMA EmitEmits ==
  ASSUME NEW a, IsAssembler(a), NEW s \in Seq(Items)
  PROVE  Emits(a, Emit(a, s))
  <1> DEFINE code == a.code \o s
             b == [a EXCEPT !.code = code]
  <1>1. code \in Seq(Items)
    BY DEF IsAssembler
  <1> HIDE DEF code
  <1>2. IsAssembler(b)
    BY <1>1 DEF IsAssembler
  <1>3. /\ b.frameSize = a.frameSize /\ b.curStackSlot = a.curStackSlot
        /\ b.deoptRescue = a.deoptRescue /\ b.slots = a.slots
        /\ b.nextRegister = a.nextRegister /\ b.raised = a.raised
    BY DEF IsAssembler
  <1>4. Emit(a, s) = b
    BY DEF Emit, code
  <1> QED
    BY <1>2, <1>3, <1>4 DEF Emits

LEMMA CommentEmits ==
  ASSUME NEW a, IsAssembler(a), NEW instruction
  PROVE  Emits(a, Comment(a, instruction))
  <1> DEFINE listing == Append(a.listing, instruction)
             b == [a EXCEPT !.listing = listing]
  <1> HIDE DEF listing
  <1>1. IsAssembler(b)
    BY DEF IsAssembler
  <1>2. /\ b.frameSize = a.frameSize /\ b.curStackSlot = a.curStackSlot
        /\ b.deoptRescue = a.deoptRescue /\ b.slots = a.slots
        /\ b.nextRegister = a.nextRegister /\ b.raised = a.raised
    BY DEF IsAssembler
  <1>3. Comment(a, instruction) = b
    BY DEF Comment, listing
  <1> QED
    BY <1>1, <1>2, <1>3 DEF Emits

LEMMA EmitBytesEmits ==
  ASSUME NEW a, IsAssembler(a), NEW bytes \in Seq(Int)
  PROVE  Emits(a, EmitBytes(a, bytes))
  <1> DEFINE s == [i \in 1 .. Len(bytes) |-> ByteItem(bytes[i])]
  <1>1. \A i \in 1 .. Len(bytes) : ByteItem(bytes[i]) \in Items
    <2>1. \A i \in 1 .. Len(bytes) : bytes[i] \in Int
      OBVIOUS
    <2>2. \A x \in Int : x % 256 \in 0 .. 255
      OBVIOUS
    <2> QED
      BY <2>1, <2>2 DEF ByteItem, Items
  <1>2. s \in Seq(Items)
    BY <1>1
  <1> HIDE DEF s
  <1>3. EmitBytes(a, bytes) = Emit(a, s)
    BY DEF EmitBytes, s
  <1> QED
    BY <1>2, <1>3, EmitEmits

LEMMA WideEmits ==
  ASSUME NEW a, IsAssembler(a), NEW n \in Int
  PROVE  /\ Emits(a, Emit(a, << IntItem(n) >>))
         /\ Emits(a, Emit(a, << LongItem(n) >>))
  <1>1. IntItem(n) \in Items /\ LongItem(n) \in Items
    BY DEF IntItem, LongItem, Items
  <1>2. << IntItem(n) >> \in Seq(Items) /\ << LongItem(n) >> \in Seq(Items)
    BY <1>1
  <1> QED
    BY <1>2, EmitEmits

LEMMA EmitREXEmits ==
  ASSUME NEW a, IsAssembler(a), NEW w \in BOOLEAN,
         NEW r \in Int, NEW x \in Int, NEW b \in Int
  PROVE  Emits(a, EmitREX(a, w, r, x, b))
  <1> DEFINE wrxb == (IF w THEN 8 ELSE 0)
                     + ((r \div 8) * 4) + ((x \div 8) * 2) + (b \div 8)
  <1>1. wrxb \in Int
    OBVIOUS
  <1> HIDE DEF wrxb
  <1>2. << \h40 + wrxb >> \in Seq(Int)
    BY <1>1
  <1>3. EmitREX(a, w, r, x, b)
          = IF wrxb = 0 THEN a ELSE EmitBytes(a, << \h40 + wrxb >>)
    BY DEF EmitREX, wrxb
  <1> QED
    BY <1>2, <1>3, EmitBytesEmits, EmitsNothing

LEMMA EmitModRMRegEmits ==
  ASSUME NEW a, IsAssembler(a), NEW w \in BOOLEAN,
         NEW opcode \in Int, NEW r \in Int, NEW m \in Int
  PROVE  Emits(a, EmitModRMReg(a, w, opcode, r, m))
  <1> DEFINE rex   == EmitREX(a, w, r, 0, m)
             bytes == << opcode, \hC0 + ((r % 8) * 8) + (m % 8) >>
  <1>1. Emits(a, rex)
    BY EmitREXEmits
  <1>2. bytes \in Seq(Int)
    OBVIOUS
  <1> HIDE DEF rex, bytes
  <1>3. Emits(rex, EmitBytes(rex, bytes))
    BY <1>1, <1>2, EmitBytesEmits DEF Emits
  <1>4. EmitModRMReg(a, w, opcode, r, m) = EmitBytes(rex, bytes)
    BY DEF EmitModRMReg, rex, bytes
  <1> QED
    BY <1>1, <1>3, <1>4, EmitsChain

LEMMA CommentedEmits ==
  ASSUME NEW a, IsAssembler(a), NEW instruction, NEW bytes \in Seq(Int)
  PROVE  Emits(a, EmitBytes(Comment(a, instruction), bytes))
  <1> DEFINE said == Comment(a, instruction)
  <1>1. Emits(a, said)
    BY CommentEmits
  <1> HIDE DEF said
  <1>2. Emits(said, EmitBytes(said, bytes))
    BY <1>1, EmitBytesEmits DEF Emits
  <1>3. Emits(a, EmitBytes(said, bytes))
    BY <1>1, <1>2, EmitsChain
  <1> QED
    BY <1>3 DEF said

LEMMA RegistersInt == rax \in Int /\ rsp \in Int /\ rbp \in Int
  BY DEF rax, rsp, rbp

LEMMA EmitMoveEmits ==
  ASSUME NEW a, IsAssembler(a), NEW w \in BOOLEAN,
         NEW to \in Int, NEW from \in Int
  PROVE  Emits(a, EmitMove(a, w, to, from))
  <1> DEFINE said  == Comment(a, <<"MOV", w, to, from>>)
             moved == EmitModRMReg(said, w, \h8B, to, from)
  <1>1. Emits(a, said)
    BY CommentEmits
  <1> HIDE DEF said
  <1>2. Emits(said, moved)
    BY <1>1, EmitModRMRegEmits DEF Emits
  <1>3. Emits(a, moved)
    BY <1>1, <1>2, EmitsChain
  <1> HIDE DEF moved
  <1>4. EmitMove(a, w, to, from) = IF to = from THEN a ELSE moved
    BY DEF EmitMove, moved, said
  <1> QED
    BY <1>3, <1>4, EmitsNothing

LEMMA EmitGrowStackEmits ==
  ASSUME NEW a, IsAssembler(a), NEW n \in Int
  PROVE  Emits(a, EmitGrowStack(a, n))
  <1> DEFINE b == EmitBytes(Comment(a, <<"SUB", rsp, n>>),
                            << \h48, \h81, \hEC >>)
  <1>1. << \h48, \h81, \hEC >> \in Seq(Int)
    OBVIOUS
  <1>2. Emits(a, b)
    BY <1>1, CommentedEmits
  <1> HIDE DEF b
  <1>3. Emits(b, Emit(b, << IntItem(n) >>))
    BY <1>2, WideEmits DEF Emits
  <1>4. EmitGrowStack(a, n) = Emit(b, << IntItem(n) >>)
    BY DEF EmitGrowStack, b
  <1> QED
    BY <1>2, <1>3, <1>4, EmitsChain

-----------------------------------------------------------------------------
(* The frame.                                                              *)

(* The frame that holds n bytes: aligned, and less than one alignment      *)
(* larger.                                                                 *)
LEMMA FrameAligned ==
  ASSUME NEW n \in Nat
  PROVE  /\ AlignedFrame(n) \in Nat
         /\ AlignedFrame(n) % StackAlignment = 0
         /\ AlignedFrame(n) - n \in 0 .. StackAlignment - 1
  BY DEF AlignedFrame, StackAlignment

LEMMA GrowFrameOK ==
  ASSUME NEW a, AsmOK(a), NEW n \in Nat \ {0}
  PROVE  LET b == GrowFrame(a, n)
         IN  /\ AsmOK(b)
             /\ b.curStackSlot = a.curStackSlot + n
             /\ b.slots = a.slots /\ b.deoptRescue = a.deoptRescue
             /\ b.nextRegister = a.nextRegister /\ b.raised = a.raised
  <1> DEFINE b     == GrowFrame(a, n)
             cur   == a.curStackSlot + n
             moved == [a EXCEPT !.curStackSlot = cur]
             size  == AlignedFrame(cur)
             grown == EmitGrowStack(moved, size - a.frameSize)
             large == [grown EXCEPT !.frameSize = size]
  <1>1. /\ a.curStackSlot \in Nat /\ a.frameSize \in Nat
        /\ a.slots \in Seq(Slots)
    BY DEF AsmOK, IsAssembler
  <1>2. cur \in Nat
    BY <1>1
  <1>3. /\ size \in Nat /\ size % StackAlignment = 0
        /\ size - cur \in 0 .. StackAlignment - 1
    BY <1>2, FrameAligned
  <1>4. b = IF cur > a.frameSize THEN large ELSE moved
    BY DEF GrowFrame
  <1> HIDE DEF b, size
  <1>5. cur >= InitialFrameSize
    BY <1>1 DEF AsmOK, FrameOK, InitialFrameSize
  <1>6. Stacked(a.slots, cur)
    <2> SUFFICES ASSUME NEW i \in 1 .. Len(a.slots)
                 PROVE  a.slots[i].offset >= -cur
      BY DEF AsmOK, FrameOK, Stacked
    <2>1. a.slots[i].offset >= -a.curStackSlot
      BY DEF AsmOK, FrameOK, Stacked
    <2>2. a.slots[i] \in Slots
      BY <1>1
    <2>3. a.slots[i].offset \in Int
      BY <2>2 DEF Slots
    <2> QED
      BY <1>1, <2>1, <2>3
  <1> HIDE DEF cur
  <1>7. IsAssembler(moved)
    BY <1>2 DEF AsmOK, IsAssembler
  <1>8. /\ moved.frameSize = a.frameSize /\ moved.curStackSlot = cur
        /\ moved.slots = a.slots /\ moved.deoptRescue = a.deoptRescue
        /\ moved.nextRegister = a.nextRegister /\ moved.raised = a.raised
    BY DEF AsmOK, IsAssembler
  <1> HIDE DEF moved
  <1>9. CASE cur > a.frameSize
    <2>1. Emits(moved, grown)
      BY <1>1, <1>3, <1>7, EmitGrowStackEmits
    <2> HIDE DEF grown
    <2>2. IsAssembler(large)
      BY <1>3, <2>1 DEF Emits, IsAssembler
    <2>3. /\ large.frameSize = size /\ large.curStackSlot = cur
          /\ large.slots = a.slots /\ large.deoptRescue = a.deoptRescue
          /\ large.nextRegister = a.nextRegister /\ large.raised = a.raised
      BY <1>8, <2>1 DEF Emits, IsAssembler
    <2> HIDE DEF large
    <2>4. b = large
      BY <1>4, <1>9
    <2>5. FrameOK(b)
      BY <1>3, <1>5, <1>6, <2>3, <2>4 DEF AsmOK, FrameOK
    <2> QED
      BY <2>2, <2>3, <2>4, <2>5 DEF AsmOK, b, cur
  <1>10. CASE ~(cur > a.frameSize)
    <2>1. b = moved
      BY <1>4, <1>10
    <2>2. a.frameSize - a.curStackSlot \in 0 .. StackAlignment - 1
      BY DEF AsmOK, FrameOK
    <2>3. /\ a.frameSize \in Nat /\ a.curStackSlot \in Nat
          /\ cur = a.curStackSlot + n /\ cur <= a.frameSize
      BY <1>1, <1>2, <1>10 DEF cur
    <2>4. a.frameSize - cur \in 0 .. StackAlignment - 1
      BY <2>2, <2>3 DEF StackAlignment
    <2>5. FrameOK(b)
      BY <1>5, <1>6, <1>8, <2>1, <2>4 DEF AsmOK, FrameOK
    <2> QED
      BY <1>7, <1>8, <2>1, <2>3, <2>5 DEF AsmOK, b
  <1> QED
    BY <1>9, <1>10

(* A slot that is handed out lies on top of the ones handed out before.    *)
LEMMA NewStackSlotOK ==
  ASSUME NEW a, AsmOK(a), NEW n \in Nat \ {0}
  PROVE  LET b == NewStackSlot(a, n)
         IN  /\ AsmOK(b)
             /\ b.slots # << >>
             /\ b.nextRegister = a.nextRegister /\ b.raised = a.raised
  <1> DEFINE grown == GrowFrame(a, n)
             slot  == [offset |-> -grown.curStackSlot, size |-> n]
             slots == Append(grown.slots, slot)
             b     == [grown EXCEPT !.slots = slots]
  <1>1. /\ AsmOK(grown) /\ grown.curStackSlot = a.curStackSlot + n
        /\ grown.slots = a.slots /\ grown.deoptRescue = a.deoptRescue
        /\ grown.nextRegister = a.nextRegister /\ grown.raised = a.raised
    BY GrowFrameOK
  <1>2. NewStackSlot(a, n) = b
    BY DEF NewStackSlot
  <1> HIDE DEF grown
  <1>3. /\ a.slots \in Seq(Slots) /\ a.curStackSlot \in Nat
        /\ a.curStackSlot >= InitialFrameSize
    BY DEF AsmOK, IsAssembler, FrameOK
  <1>4. /\ slot \in Slots /\ slot.offset = -(a.curStackSlot + n)
        /\ slot.size = n
    BY <1>1, <1>3 DEF Slots
  <1> HIDE DEF slot
  <1>5. /\ slots \in Seq(Slots) /\ Len(slots) = Len(a.slots) + 1
        /\ slots[Len(slots)] = slot
        /\ \A i \in 1 .. Len(a.slots) : slots[i] = a.slots[i]
    BY <1>1, <1>3, <1>4
  <1> HIDE DEF slots
  <1>6. IsAssembler(b)
    BY <1>1, <1>5 DEF AsmOK, IsAssembler
  <1>7. /\ b.slots = slots /\ b.frameSize = grown.frameSize
        /\ b.curStackSlot = grown.curStackSlot
        /\ b.deoptRescue = grown.deoptRescue
        /\ b.nextRegister = a.nextRegister /\ b.raised = a.raised
    BY <1>1 DEF AsmOK, IsAssembler
  <1> HIDE DEF b
  <1>8. Stacked(slots, b.curStackSlot)
    <2>1. Stacked(a.slots, a.curStackSlot + n)
      BY <1>1 DEF AsmOK, FrameOK
    <2>2. /\ slot.offset >= -(a.curStackSlot + n)
          /\ slot.offset + slot.size = -a.curStackSlot
      BY <1>3, <1>4
    <2>3. -a.curStackSlot <= -InitialFrameSize
      BY <1>3 DEF InitialFrameSize
    <2>4. \A j \in 1 .. Len(a.slots) : -a.curStackSlot <= a.slots[j].offset
      <3> TAKE j \in 1 .. Len(a.slots)
      <3>1. a.slots[j].offset >= -a.curStackSlot
        BY DEF AsmOK, FrameOK, Stacked
      <3>2. a.slots[j] \in Slots
        BY <1>3
      <3>3. a.slots[j].offset \in Int
        BY <3>2 DEF Slots
      <3> QED
        BY <1>3, <3>1, <3>3
    <2> SUFFICES ASSUME NEW i \in 1 .. Len(slots)
                 PROVE  /\ slots[i].offset >= -(a.curStackSlot + n)
                        /\ slots[i].offset + slots[i].size
                              <= -InitialFrameSize
                        /\ \A j \in 1 .. i - 1 :
                             slots[i].offset + slots[i].size
                               <= slots[j].offset
      BY <1>1, <1>7 DEF Stacked
    <2>5. CASE i = Len(slots)
      <3>1. slots[i] = slot /\ Len(a.slots) \in Nat
        BY <1>3, <1>5, <2>5
      <3>2. \A j \in 1 .. i - 1 : j \in 1 .. Len(a.slots)
        BY <1>5, <2>5, <3>1
      <3>3. \A j \in 1 .. i - 1 : slots[j] = a.slots[j]
        BY <1>5, <3>2
      <3> QED
        BY <2>2, <2>3, <2>4, <3>1, <3>2, <3>3
    <2>6. CASE i # Len(slots)
      <3>1. i \in 1 .. Len(a.slots) /\ Len(a.slots) \in Nat
        BY <1>3, <1>5, <2>6
      <3>2. \A j \in 1 .. i - 1 : j \in 1 .. Len(a.slots)
        BY <3>1
      <3>3. slots[i] = a.slots[i] /\ \A j \in 1 .. i - 1 : slots[j] = a.slots[j]
        BY <1>5, <3>1, <3>2
      <3> QED
        BY <2>1, <3>1, <3>3 DEF Stacked
    <2> QED
      BY <2>5, <2>6
  <1>9. \/ b.deoptRescue = NoSlot
        \/ \E i \in 1 .. Len(slots) : b.deoptRescue = slots[i]
    <2>1. \/ a.deoptRescue = NoSlot
          \/ \E i \in 1 .. Len(a.slots) : a.deoptRescue = a.slots[i]
      BY DEF AsmOK, FrameOK
    <2>2. \A i \in 1 .. Len(a.slots) :
             i \in 1 .. Len(slots) /\ slots[i] = a.slots[i]
      BY <1>3, <1>5
    <2> QED
      BY <1>1, <1>7, <2>1, <2>2
  <1>10. FrameOK(b)
    BY <1>1, <1>7, <1>8, <1>9 DEF AsmOK, FrameOK
  <1>11. slots # << >>
    BY <1>3, <1>5
  <1> QED
    BY <1>2, <1>6, <1>7, <1>10, <1>11 DEF AsmOK, b

LEMMA RescueSlotOK ==
  ASSUME NEW a, AsmOK(a), a.slots # << >>
  PROVE  LET b == SetDeoptRescueSlot(a, LastSlot(a))
         IN  /\ AsmOK(b)
             /\ b.nextRegister = a.nextRegister /\ b.raised = a.raised
  <1> DEFINE slot == LastSlot(a)
             b    == [a EXCEPT !.deoptRescue = slot]
  <1>1. a.slots \in Seq(Slots)
    BY DEF AsmOK, IsAssembler
  <1>2. Len(a.slots) \in 1 .. Len(a.slots) /\ slot = a.slots[Len(a.slots)]
    BY <1>1 DEF LastSlot
  <1>3. slot \in Slots
    BY <1>1, <1>2
  <1> HIDE DEF slot
  <1>4. IsAssembler(b)
    BY <1>3 DEF AsmOK, IsAssembler
  <1>5. /\ b.slots = a.slots /\ b.frameSize = a.frameSize
        /\ b.curStackSlot = a.curStackSlot /\ b.deoptRescue = slot
        /\ b.nextRegister = a.nextRegister /\ b.raised = a.raised
    BY DEF AsmOK, IsAssembler
  <1>6. SetDeoptRescueSlot(a, LastSlot(a)) = b
    BY DEF SetDeoptRescueSlot, slot
  <1> HIDE DEF b
  <1>7. FrameOK(b)
    BY <1>2, <1>5 DEF AsmOK, FrameOK
  <1> QED
    BY <1>4, <1>5, <1>6, <1>7 DEF AsmOK

-----------------------------------------------------------------------------
(* The operations.                                                         *)

(* What an operation that draws no register preserves.                     *)
Keeps(a, b) ==
  AsmOK(b) /\ b.nextRegister = a.nextRegister /\ b.raised = a.raised

LEMMA EmitsKeeps ==
  ASSUME NEW a, NEW b, AsmOK(a), Emits(a, b)
  PROVE  Keeps(a, b)
  BY EmitsOK DEF Emits, Keeps

LEMMA RecordKeeps ==
  ASSUME NEW a, AsmOK(a), NEW id, NEW size
  PROVE  /\ Emits(a, RecordMark(a, id))
         /\ Emits(a, RecordCall(a, id, size))
  <1> DEFINE at(sites) == [a EXCEPT !.sites = sites]
  <1>1. ASSUME NEW sites
        PROVE  Emits(a, at(sites))
    <2>1. IsAssembler(at(sites))
      BY DEF AsmOK, IsAssembler
    <2> QED
      BY <2>1 DEF AsmOK, IsAssembler, Emits
  <1>2. RecordMark(a, id)
          = at(Append(a.sites, [kind |-> "Mark", pos |-> Position(a),
                                id |-> id]))
    BY DEF RecordMark
  <1>3. RecordCall(a, id, size)
          = at(Append(a.sites, [kind |-> "Call", pos |-> Position(a),
                                target |-> id, size |-> size]))
    BY DEF RecordCall
  <1> HIDE DEF at
  <1> QED
    BY <1>1, <1>2, <1>3

LEMMA EmitPrologueKeeps ==
  ASSUME NEW a, AsmOK(a)
  PROVE  Keeps(a, EmitPrologue(a))
  <1> DEFINE nop    == EmitFatNop(a)
             pushed == EmitBytes(Comment(nop, <<"PUSH", rbp>>),
                                 << \h50 + rbp >>)
             moved  == EmitMove(pushed, TRUE, rbp, rsp)
             slot   == NewStackSlot(moved, QWORD)
             set    == SetDeoptRescueSlot(slot, LastSlot(slot))
  <1>1. EmitPrologue(a) = set
    BY DEF EmitPrologue
  <1>2. Emits(a, nop)
    <2>1. << \h0F, \h1F, \h44, \h00, \h00 >> \in Seq(Int)
      OBVIOUS
    <2> QED
      BY <2>1, CommentedEmits DEF AsmOK, EmitFatNop
  <1> HIDE DEF nop
  <1>3. Emits(nop, pushed)
    <2>1. << \h50 + rbp >> \in Seq(Int)
      BY DEF rbp
    <2> QED
      BY <1>2, <2>1, CommentedEmits DEF Emits
  <1> HIDE DEF pushed
  <1>4. Emits(pushed, moved)
    <2>1. IsAssembler(pushed)
      BY <1>3 DEF Emits
    <2> QED
      BY <2>1, EmitMoveEmits, RegistersInt
  <1> HIDE DEF moved
  <1>5. AsmOK(moved)
    BY <1>2, <1>3, <1>4, EmitsOK
  <1>6. moved.nextRegister = a.nextRegister /\ moved.raised = a.raised
    BY <1>2, <1>3, <1>4 DEF Emits
  <1>7. /\ AsmOK(slot) /\ slot.slots # << >>
        /\ slot.nextRegister = a.nextRegister /\ slot.raised = a.raised
    BY <1>5, <1>6, NewStackSlotOK DEF QWORD
  <1> HIDE DEF slot
  <1> QED
    BY <1>1, <1>7, RescueSlotOK DEF Keeps

LEMMA EmitEpilogueKeeps ==
  ASSUME NEW a, AsmOK(a)
  PROVE  Emits(a, EmitEpilogue(a)) /\ Keeps(a, EmitEpilogue(a))
  <1> DEFINE marked   == RecordMark(a, "DEOPT_HANDLER_ENTRY")
             recorded == RecordCall(marked, "handleDeoptStub", 5)
             opcode   == EmitBytes(Comment(recorded, <<"CALLREL", DEADDEAD>>),
                                   << \hE8 >>)
             ended    == Emit(opcode, << IntItem(DEADDEAD) >>)
  <1>1. EmitEpilogue(a) = ended
    BY DEF EmitEpilogue
  <1>2. Emits(a, marked)
    BY RecordKeeps
  <1> HIDE DEF marked
  <1>3. Emits(marked, recorded)
    BY <1>2, EmitsOK, RecordKeeps
  <1> HIDE DEF recorded
  <1>4. Emits(recorded, opcode)
    <2>1. << \hE8 >> \in Seq(Int)
      OBVIOUS
    <2> QED
      BY <1>3, <2>1, CommentedEmits DEF Emits
  <1> HIDE DEF opcode
  <1>5. Emits(opcode, ended)
    <2>1. DEADDEAD \in Int
      BY SMT DEF DEADDEAD
    <2> QED
      BY <1>4, <2>1, WideEmits DEF Emits
  <1> HIDE DEF ended
  <1>6. Emits(a, ended)
    BY <1>2, <1>3, <1>4, <1>5, EmitsChain
  <1> QED
    BY <1>1, <1>6, EmitsKeeps

LEMMA EmitIntRetKeeps ==
  ASSUME NEW a, AsmOK(a), NEW r \in Int
  PROVE  Emits(a, EmitIntRet(a, r)) /\ Keeps(a, EmitIntRet(a, r))
  <1> DEFINE result  == EmitMove(a, FALSE, rax, r)
             unwound == EmitMove(result, TRUE, rsp, rbp)
             popped  == EmitBytes(Comment(unwound, <<"POP", rbp>>),
                                  << \h58 + rbp >>)
             ended   == EmitBytes(Comment(popped, <<"RET">>), << \hC3 >>)
  <1>1. EmitIntRet(a, r) = ended
    BY DEF EmitIntRet
  <1>2. Emits(a, result)
    <2>1. IsAssembler(a)
      BY DEF AsmOK
    <2> QED
      BY <2>1, EmitMoveEmits, RegistersInt
  <1> HIDE DEF result
  <1>3. Emits(result, unwound)
    <2>1. IsAssembler(result)
      BY <1>2 DEF Emits
    <2> QED
      BY <2>1, EmitMoveEmits, RegistersInt
  <1> HIDE DEF unwound
  <1>4. Emits(unwound, popped)
    <2>1. << \h58 + rbp >> \in Seq(Int)
      BY DEF rbp
    <2> QED
      BY <1>3, <2>1, CommentedEmits DEF Emits
  <1> HIDE DEF popped
  <1>5. Emits(popped, ended)
    <2>1. << \hC3 >> \in Seq(Int)
      OBVIOUS
    <2>2. IsAssembler(popped)
      BY <1>4 DEF Emits
    <2> QED
      BY <1>4, <2>1, <2>2, CommentedEmits
  <1> HIDE DEF ended
  <1>6. Emits(a, ended)
    BY <1>2, <1>3, <1>4, <1>5, EmitsChain
  <1> QED
    BY <1>1, <1>6, EmitsKeeps

-----------------------------------------------------------------------------
(* The registers.                                                          *)

LEMMA RegistersDiffer ==
  /\ Len(Registers) = 6
  /\ \A m \in 1 .. 6 : Registers[m] \in GeneralRegisters
  /\ \A m, n \in 1 .. 6 : Registers[m] = Registers[n] => m = n
  <1>1. Registers = << 0, 1, 7, 8, 9, 10 >>
    BY DEF Registers, rax, rcx, rdi, r8, r9, r10
  <1>2. Len(<< 0, 1, 7, 8, 9, 10 >>) = 6
    OBVIOUS
  <1>3. \A m \in 1 .. 6 : << 0, 1, 7, 8, 9, 10 >>[m] \in 0 .. 15
    OBVIOUS
  <1>4. \A m, n \in 1 .. 6 :
           << 0, 1, 7, 8, 9, 10 >>[m] = << 0, 1, 7, 8, 9, 10 >>[n] => m = n
    OBVIOUS
  <1> QED
    BY <1>1, <1>2, <1>3, <1>4 DEF GeneralRegisters

(* Drawing a register moves the counter on, whether there was one or not.  *)
Draws(a, b) ==
  /\ AsmOK(b)
  /\ b.curStackSlot = a.curStackSlot /\ b.deoptRescue = a.deoptRescue
  /\ b.nextRegister = a.nextRegister + 1
  /\ b.raised <=> a.nextRegister >= 6

LEMMA DrawsEmits ==
  ASSUME NEW a, NEW b, NEW c, Draws(a, b), Emits(b, c)
  PROVE  Draws(a, c)
  <1>1. AsmOK(c)
    BY EmitsOK DEF Draws
  <1> QED
    BY <1>1 DEF Draws, Emits

LEMMA NewRegisterDraws ==
  ASSUME NEW a, AsmOK(a)
  PROVE  Draws(a, NewRegister(a))
  <1> DEFINE none == a.nextRegister >= 6
             next == a.nextRegister + 1
             b    == [a EXCEPT !.nextRegister = next, !.raised = none]
  <1>1. a.nextRegister \in Nat
    BY DEF AsmOK, IsAssembler
  <1>2. next \in Nat /\ none \in BOOLEAN
    BY <1>1
  <1>3. NewRegister(a) = b
    BY RegistersDiffer DEF NewRegister
  <1> HIDE DEF none, next
  <1>4. IsAssembler(b)
    BY <1>2 DEF AsmOK, IsAssembler
  <1>5. /\ b.slots = a.slots /\ b.frameSize = a.frameSize
        /\ b.curStackSlot = a.curStackSlot /\ b.deoptRescue = a.deoptRescue
        /\ b.nextRegister = next /\ b.raised = none
    BY DEF AsmOK, IsAssembler
  <1> HIDE DEF b
  <1>6. FrameOK(b)
    BY <1>5 DEF AsmOK, FrameOK
  <1> QED
    BY <1>3, <1>4, <1>5, <1>6 DEF Draws, AsmOK, none, next

LEMMA NextRegisterGeneral ==
  ASSUME NEW a, AsmOK(a), ~(a.nextRegister >= 6)
  PROVE  /\ a.nextRegister + 1 \in 1 .. 6
         /\ NextRegister(a) = Registers[a.nextRegister + 1]
         /\ NextRegister(a) \in GeneralRegisters
         /\ NextRegister(a) \in Int
  <1>1. a.nextRegister \in Nat
    BY DEF AsmOK, IsAssembler
  <1>2. a.nextRegister + 1 \in 1 .. 6
    BY <1>1
  <1>3. NextRegister(a) \in GeneralRegisters
    BY <1>2, RegistersDiffer DEF NextRegister
  <1> QED
    BY <1>2, <1>3 DEF NextRegister, GeneralRegisters

LEMMA EmitLoadLongDraws ==
  ASSUME NEW a, AsmOK(a), NEW c \in Int
  PROVE  Draws(a, EmitLoadLong(a, c))
  <1> DEFINE ret    == NextRegister(a)
             drawn  == NewRegister(a)
             said   == Comment(drawn, <<"LOAD", ret, c>>)
             rex    == EmitREX(said, TRUE, 0, 0, ret)
             opcode == EmitBytes(rex, << \hB8 + (ret % 8) >>)
             ended  == Emit(opcode, << LongItem(c) >>)
  <1>1. EmitLoadLong(a, c) = IF drawn.raised THEN drawn ELSE ended
    BY DEF EmitLoadLong
  <1>2. Draws(a, drawn)
    BY NewRegisterDraws
  <1> HIDE DEF drawn
  <1>3. CASE drawn.raised
    BY <1>1, <1>2, <1>3
  <1>4. CASE ~drawn.raised
    <2>1. ret \in Int
      BY <1>2, <1>4, NextRegisterGeneral DEF Draws
    <2> HIDE DEF ret
    <2>2. Emits(drawn, said)
      BY <1>2, CommentEmits DEF Draws, AsmOK
    <2> HIDE DEF said
    <2>3. Emits(said, rex)
      <3>1. IsAssembler(said) /\ 0 \in Int
        BY <2>2 DEF Emits
      <3> QED
        BY <2>1, <3>1, EmitREXEmits
    <2> HIDE DEF rex
    <2>4. Emits(rex, opcode)
      <3>1. << \hB8 + (ret % 8) >> \in Seq(Int)
        BY <2>1
      <3> QED
        BY <2>3, <3>1, EmitBytesEmits DEF Emits
    <2> HIDE DEF opcode
    <2>5. Emits(opcode, ended)
      BY <2>4, WideEmits DEF Emits
    <2> HIDE DEF ended
    <2> QED
      BY <1>1, <1>2, <1>4, <2>2, <2>3, <2>4, <2>5, DrawsEmits
  <1> QED
    BY <1>3, <1>4

LEMMA EmitCallDraws ==
  ASSUME NEW a, AsmOK(a), NEW addr \in Int
  PROVE  Draws(a, EmitCall(a, addr))
  <1> DEFINE target == NextRegister(a)
             loaded == EmitLoadLong(a, addr)
             opcode == EmitBytes(Comment(loaded, <<"CALL", target>>),
                                 << \hFF >>)
             high   == EmitBytes(opcode, << \h41, \hD0 + (target - 8) >>)
             low    == EmitBytes(opcode, << \hD0 + target >>)
  <1>1. EmitCall(a, addr)
          = IF loaded.raised THEN loaded
            ELSE IF target >= 8 THEN high ELSE low
    BY DEF EmitCall
  <1>2. Draws(a, loaded)
    BY EmitLoadLongDraws
  <1> HIDE DEF loaded
  <1>3. CASE loaded.raised
    BY <1>1, <1>2, <1>3
  <1>4. CASE ~loaded.raised
    <2>1. target \in Int
      BY <1>2, <1>4, NextRegisterGeneral DEF Draws
    <2> HIDE DEF target
    <2>2. Emits(loaded, opcode)
      <3>1. << \hFF >> \in Seq(Int)
        OBVIOUS
      <3>2. IsAssembler(loaded)
        BY <1>2 DEF Draws, AsmOK
      <3> QED
        BY <3>1, <3>2, CommentedEmits
    <2> HIDE DEF opcode
    <2>3. /\ << \h41, \hD0 + (target - 8) >> \in Seq(Int)
          /\ << \hD0 + target >> \in Seq(Int)
      BY <2>1
    <2>4. Emits(opcode, high) /\ Emits(opcode, low)
      <3>1. IsAssembler(opcode)
        BY <2>2 DEF Emits
      <3>2. Emits(opcode, high)
        BY <2>3, <3>1, EmitBytesEmits
      <3>3. Emits(opcode, low)
        BY <2>3, <3>1, EmitBytesEmits
      <3> QED
        BY <3>2, <3>3
    <2> HIDE DEF high, low
    <2> QED
      BY <1>1, <1>2, <1>4, <2>2, <2>4, DrawsEmits
  <1> QED
    BY <1>3, <1>4

-----------------------------------------------------------------------------
(* What an operation adds to the code.                                     *)

(* The instruction the processor makes of what is emitted for ins: a call  *)
(* of r8 or above is read as an increment.                                 *)
AsDecoded(ins) ==
  IF ins[1] = "CALL" /\ ins[2] >= 8
  THEN <<"INC", 1, \hD0 + (ins[2] - 8)>> ELSE ins

(* b is a with the items s.                                                *)
Adds(a, b, s) ==
  /\ Emits(a, b)
  /\ b.sites = a.sites /\ b.listing = a.listing
  /\ s \in Seq(Items)
  /\ b.code = a.code \o s

(* b is a with the instruction ins, and the comment that says so.          *)
Says(a, b, ins) ==
  /\ Emits(a, b)
  /\ b.sites = a.sites /\ b.listing = Append(a.listing, ins)
  /\ \E s : Encodes(s, AsDecoded(ins)) /\ b.code = a.code \o s

LEMMA ConcatIs ==
  ASSUME NEW S, NEW s \in Seq(S), NEW t \in Seq(S), NEW u \in Seq(S),
         Len(u) = Len(s) + Len(t),
         \A i \in 1 .. Len(s) : u[i] = s[i],
         \A i \in 1 .. Len(t) : u[Len(s) + i] = t[i]
  PROVE  s \o t = u
  <1> DEFINE v == s \o t
  <1>1. /\ v \in Seq(S) /\ Len(v) = Len(u)
        /\ \A i \in 1 .. Len(u) : v[i] = IF i <= Len(s) THEN s[i]
                                         ELSE t[i - Len(s)]
    BY ConcatProperties
  <1> HIDE DEF v
  <1>2. ASSUME NEW i \in 1 .. Len(v)
        PROVE  v[i] = u[i]
    <2>1. CASE i <= Len(s)
      BY <1>1, <2>1
    <2>2. CASE ~(i <= Len(s))
      <3>1. i - Len(s) \in 1 .. Len(t) /\ Len(s) + (i - Len(s)) = i
        BY <1>1, <2>2
      <3>2. u[i] = t[i - Len(s)]
        BY <3>1
      <3> QED
        BY <1>1, <2>2, <3>2
    <2> QED
      BY <2>1, <2>2
  <1>3. v = u
    BY <1>1, <1>2, SeqEqual
  <1> QED
    BY <1>3 DEF v

(* Short tuples, concatenated.                                             *)
LEMMA OneAndOne ==
  ASSUME NEW x, NEW y
  PROVE  << x >> \o << y >> = << x, y >>
  <1> DEFINE S == {x, y}
             s == << x >>
             t == << y >>
             v == << x, y >>
  <1>1. x \in S /\ y \in S
    OBVIOUS
  <1> HIDE DEF S
  <1>2. s \in Seq(S) /\ t \in Seq(S) /\ v \in Seq(S)
    BY <1>1
  <1>3. /\ Len(s) = 1 /\ Len(t) = 1 /\ Len(v) = 2
        /\ v[1] = s[1] /\ v[2] = t[1]
    OBVIOUS
  <1> HIDE DEF s, t, v
  <1>4. /\ Len(v) = Len(s) + Len(t)
        /\ \A i \in 1 .. Len(s) : v[i] = s[i]
        /\ \A i \in 1 .. Len(t) : v[Len(s) + i] = t[i]
    BY <1>3
  <1>5. s \o t = v
    BY <1>2, <1>4, ConcatIs
  <1> QED
    BY <1>5 DEF s, t, v

LEMMA OneAndTwo ==
  ASSUME NEW x, NEW y, NEW z
  PROVE  << x >> \o << y, z >> = << x, y, z >>
  <1> DEFINE S == {x, y, z}
             s == << x >>
             t == << y, z >>
             v == << x, y, z >>
  <1>1. x \in S /\ y \in S /\ z \in S
    OBVIOUS
  <1> HIDE DEF S
  <1>2. s \in Seq(S) /\ t \in Seq(S) /\ v \in Seq(S)
    BY <1>1
  <1>3. /\ Len(s) = 1 /\ Len(t) = 2 /\ Len(v) = 3
        /\ v[1] = s[1] /\ v[2] = t[1] /\ v[3] = t[2]
    OBVIOUS
  <1> HIDE DEF s, t, v
  <1>4. /\ Len(v) = Len(s) + Len(t)
        /\ \A i \in 1 .. Len(s) : v[i] = s[i]
        /\ \A i \in 1 .. Len(t) : v[Len(s) + i] = t[i]
    BY <1>3
  <1>5. s \o t = v
    BY <1>2, <1>4, ConcatIs
  <1> QED
    BY <1>5 DEF s, t, v

LEMMA TwoAndOne ==
  ASSUME NEW x, NEW y, NEW z
  PROVE  << x, y >> \o << z >> = << x, y, z >>
  <1> DEFINE S == {x, y, z}
             s == << x, y >>
             t == << z >>
             v == << x, y, z >>
  <1>1. x \in S /\ y \in S /\ z \in S
    OBVIOUS
  <1> HIDE DEF S
  <1>2. s \in Seq(S) /\ t \in Seq(S) /\ v \in Seq(S)
    BY <1>1
  <1>3. /\ Len(s) = 2 /\ Len(t) = 1 /\ Len(v) = 3
        /\ v[1] = s[1] /\ v[2] = s[2] /\ v[3] = t[1]
    OBVIOUS
  <1> HIDE DEF s, t, v
  <1>4. /\ Len(v) = Len(s) + Len(t)
        /\ \A i \in 1 .. Len(s) : v[i] = s[i]
        /\ \A i \in 1 .. Len(t) : v[Len(s) + i] = t[i]
    BY <1>3
  <1>5. s \o t = v
    BY <1>2, <1>4, ConcatIs
  <1> QED
    BY <1>5 DEF s, t, v

LEMMA ThreeAndOne ==
  ASSUME NEW x, NEW y, NEW z, NEW u
  PROVE  << x, y, z >> \o << u >> = << x, y, z, u >>
  <1> DEFINE S == {x, y, z, u}
             s == << x, y, z >>
             t == << u >>
             v == << x, y, z, u >>
  <1>1. x \in S /\ y \in S /\ z \in S /\ u \in S
    OBVIOUS
  <1> HIDE DEF S
  <1>2. s \in Seq(S) /\ t \in Seq(S) /\ v \in Seq(S)
    BY <1>1
  <1>3. /\ Len(s) = 3 /\ Len(t) = 1 /\ Len(v) = 4
        /\ v[1] = s[1] /\ v[2] = s[2] /\ v[3] = s[3] /\ v[4] = t[1]
    OBVIOUS
  <1> HIDE DEF s, t, v
  <1>4. /\ Len(v) = Len(s) + Len(t)
        /\ \A i \in 1 .. Len(s) : v[i] = s[i]
        /\ \A i \in 1 .. Len(t) : v[Len(s) + i] = t[i]
    BY <1>3
  <1>5. s \o t = v
    BY <1>2, <1>4, ConcatIs
  <1> QED
    BY <1>5 DEF s, t, v

LEMMA AddsChain ==
  ASSUME NEW a, NEW b, NEW c, NEW s, NEW t, IsAssembler(a),
         Adds(a, b, s), Adds(b, c, t)
  PROVE  Adds(a, c, s \o t)
  <1>1. a.code \in Seq(Items) /\ s \in Seq(Items) /\ t \in Seq(Items)
    BY DEF IsAssembler, Adds
  <1>2. (a.code \o s) \o t = a.code \o (s \o t)
    <2> DEFINE code == a.code
    <2>1. code \in Seq(Items)
      BY <1>1
    <2> HIDE DEF code
    <2>2. (code \o s) \o t = code \o (s \o t)
      BY <1>1, <2>1, ConcatAssociative
    <2> QED
      BY <2>2 DEF code
  <1>3. s \o t \in Seq(Items)
    BY <1>1
  <1>4. Emits(a, c)
    BY EmitsChain DEF Adds
  <1> QED
    BY <1>2, <1>3, <1>4 DEF Adds

LEMMA EmitAdds ==
  ASSUME NEW a, IsAssembler(a), NEW s \in Seq(Items)
  PROVE  Adds(a, Emit(a, s), s)
  <1>1. Emits(a, Emit(a, s))
    BY EmitEmits
  <1>2. /\ Emit(a, s).sites = a.sites /\ Emit(a, s).listing = a.listing
        /\ Emit(a, s).code = a.code \o s
    BY DEF Emit, IsAssembler
  <1> QED
    BY <1>1, <1>2 DEF Adds

LEMMA BytesAdd ==
  ASSUME NEW a, IsAssembler(a), NEW bytes \in Seq(Int)
  PROVE  Adds(a, EmitBytes(a, bytes),
              [i \in 1 .. Len(bytes) |-> ByteItem(bytes[i])])
  <1> DEFINE s == [i \in 1 .. Len(bytes) |-> ByteItem(bytes[i])]
  <1>1. \A i \in 1 .. Len(bytes) : ByteItem(bytes[i]) \in Items
    <2>1. \A i \in 1 .. Len(bytes) : bytes[i] \in Int
      OBVIOUS
    <2>2. \A x \in Int : x % 256 \in 0 .. 255
      OBVIOUS
    <2> QED
      BY <2>1, <2>2 DEF ByteItem, Items
  <1>2. s \in Seq(Items)
    BY <1>1
  <1> HIDE DEF s
  <1>3. EmitBytes(a, bytes) = Emit(a, s)
    BY DEF EmitBytes, s
  <1> QED
    BY <1>2, <1>3, EmitAdds DEF s

LEMMA FewBytesAdd ==
  ASSUME NEW a, IsAssembler(a), NEW x \in Int, NEW y \in Int, NEW z \in Int
  PROVE  /\ Adds(a, EmitBytes(a, << x >>), << ByteItem(x) >>)
         /\ Adds(a, EmitBytes(a, << x, y >>), << ByteItem(x), ByteItem(y) >>)
         /\ Adds(a, EmitBytes(a, << x, y, z >>),
                 << ByteItem(x), ByteItem(y), ByteItem(z) >>)
  <1>1. /\ [i \in 1 .. Len(<< x >>) |-> ByteItem(<< x >>[i])]
             = << ByteItem(x) >>
        /\ << x >> \in Seq(Int)
    OBVIOUS
  <1>2. /\ [i \in 1 .. Len(<< x, y >>) |-> ByteItem(<< x, y >>[i])]
             = << ByteItem(x), ByteItem(y) >>
        /\ << x, y >> \in Seq(Int)
    OBVIOUS
  <1>3. /\ [i \in 1 .. Len(<< x, y, z >>) |-> ByteItem(<< x, y, z >>[i])]
             = << ByteItem(x), ByteItem(y), ByteItem(z) >>
        /\ << x, y, z >> \in Seq(Int)
    OBVIOUS
  <1>4. Adds(a, EmitBytes(a, << x >>), << ByteItem(x) >>)
    BY <1>1, BytesAdd
  <1>5. Adds(a, EmitBytes(a, << x, y >>), << ByteItem(x), ByteItem(y) >>)
    BY <1>2, BytesAdd
  <1>6. Adds(a, EmitBytes(a, << x, y, z >>),
             << ByteItem(x), ByteItem(y), ByteItem(z) >>)
    BY <1>3, BytesAdd
  <1> QED
    BY <1>4, <1>5, <1>6

LEMMA WideAdds ==
  ASSUME NEW a, IsAssembler(a), NEW n \in Int
  PROVE  /\ Adds(a, Emit(a, << IntItem(n) >>), << IntItem(n) >>)
         /\ Adds(a, Emit(a, << LongItem(n) >>), << LongItem(n) >>)
  <1>1. IntItem(n) \in Items /\ LongItem(n) \in Items
    BY WideItems
  <1>2. << IntItem(n) >> \in Seq(Items) /\ << LongItem(n) >> \in Seq(Items)
    BY <1>1
  <1> QED
    BY <1>2, EmitAdds

(* A comment, then the items of the instruction that it names.             *)
LEMMA CommentedSays ==
  ASSUME NEW a, IsAssembler(a), NEW ins, NEW b, NEW s,
         Adds(Comment(a, ins), b, s), Encodes(s, AsDecoded(ins))
  PROVE  Says(a, b, ins)
  <1> DEFINE said == Comment(a, ins)
  <1>1. Emits(a, said)
    BY CommentEmits
  <1>2. /\ said.code = a.code /\ said.sites = a.sites
        /\ said.listing = Append(a.listing, ins)
    BY DEF Comment, IsAssembler
  <1> HIDE DEF said
  <1>3. Adds(said, b, s)
    BY DEF said
  <1>4. Emits(a, b)
    BY <1>1, <1>3, EmitsChain DEF Adds
  <1> QED
    BY <1>2, <1>3, <1>4 DEF Adds, Says

LEMMA OtherwiseDecoded ==
  ASSUME NEW ins, ins[1] # "CALL" \/ ~(ins[2] >= 8)
  PROVE  AsDecoded(ins) = ins
  BY DEF AsDecoded

-----------------------------------------------------------------------------
(* The instructions.                                                       *)

LEMMA PushSays ==
  ASSUME NEW a, IsAssembler(a)
  PROVE  Says(a, EmitBytes(Comment(a, <<"PUSH", rbp>>), << \h50 + rbp >>),
              <<"PUSH", rbp>>)
  <1> DEFINE ins == <<"PUSH", rbp>>
             s == << ByteItem(\h50 + rbp) >>
             said == Comment(a, ins)
             b == EmitBytes(said, << \h50 + rbp >>)
  <1>1. Encodes(s, AsDecoded(ins))
    BY PushEncoded, OtherwiseDecoded
  <1>2. IsAssembler(said) /\ \h50 + rbp \in Int
    BY CommentEmits DEF Emits, rbp
  <1> HIDE DEF s, said
  <1>3. Adds(said, b, s)
    BY <1>2, FewBytesAdd DEF s
  <1> HIDE DEF b
  <1>4. Says(a, b, ins)
    BY <1>1, <1>3, CommentedSays DEF said
  <1> QED
    BY <1>4 DEF b, said


LEMMA PopSays ==
  ASSUME NEW a, IsAssembler(a)
  PROVE  Says(a, EmitBytes(Comment(a, <<"POP", rbp>>), << \h58 + rbp >>),
              <<"POP", rbp>>)
  <1> DEFINE ins == <<"POP", rbp>>
             s == << ByteItem(\h58 + rbp) >>
             said == Comment(a, ins)
             b == EmitBytes(said, << \h58 + rbp >>)
  <1>1. Encodes(s, AsDecoded(ins))
    BY PopEncoded, OtherwiseDecoded
  <1>2. IsAssembler(said) /\ \h58 + rbp \in Int
    BY CommentEmits DEF Emits, rbp
  <1> HIDE DEF s, said
  <1>3. Adds(said, b, s)
    BY <1>2, FewBytesAdd DEF s
  <1> HIDE DEF b
  <1>4. Says(a, b, ins)
    BY <1>1, <1>3, CommentedSays DEF said
  <1> QED
    BY <1>4 DEF b, said

LEMMA RetSays ==
  ASSUME NEW a, IsAssembler(a)
  PROVE  Says(a, EmitBytes(Comment(a, <<"RET">>), << \hC3 >>), <<"RET">>)
  <1> DEFINE ins == <<"RET">>
             s == << ByteItem(\hC3) >>
             said == Comment(a, ins)
             b == EmitBytes(said, << \hC3 >>)
  <1>1. Encodes(s, AsDecoded(ins))
    BY RetEncoded, OtherwiseDecoded
  <1>2. IsAssembler(said) /\ \hC3 \in Int
    BY CommentEmits DEF Emits
  <1> HIDE DEF s, said
  <1>3. Adds(said, b, s)
    BY <1>2, FewBytesAdd DEF s
  <1> HIDE DEF b
  <1>4. Says(a, b, ins)
    BY <1>1, <1>3, CommentedSays DEF said
  <1> QED
    BY <1>4 DEF b, said

LEMMA FatNopSays ==
  ASSUME NEW a, IsAssembler(a)
  PROVE  Says(a, EmitFatNop(a), <<"NOP5">>)
  <1> DEFINE ins == <<"NOP5">>
             bytes == << \h0F, \h1F, \h44, \h00, \h00 >>
             s == << ByteItem(\h0F), ByteItem(\h1F), ByteItem(\h44),
                     ByteItem(\h00), ByteItem(\h00) >>
             said == Comment(a, ins)
             b == EmitBytes(said, bytes)
  <1>1. Encodes(s, AsDecoded(ins))
    BY NopEncoded, OtherwiseDecoded
  <1>2. IsAssembler(said)
    BY CommentEmits DEF Emits
  <1>3. /\ [i \in 1 .. Len(bytes) |-> ByteItem(bytes[i])] = s
        /\ bytes \in Seq(Int)
    OBVIOUS
  <1> HIDE DEF s, said, bytes
  <1>4. Adds(said, b, s)
    BY <1>2, <1>3, BytesAdd
  <1> HIDE DEF b
  <1>5. Says(a, b, ins)
    BY <1>1, <1>4, CommentedSays DEF said
  <1> QED
    BY <1>5 DEF b, said, bytes, EmitFatNop

LEMMA RelativeCallSays ==
  ASSUME NEW a, IsAssembler(a), NEW c \in Int
  PROVE  Says(a, Emit(EmitBytes(Comment(a, <<"CALLREL", c>>), << \hE8 >>),
                      << IntItem(c) >>), <<"CALLREL", c>>)
  <1> DEFINE ins == <<"CALLREL", c>>
             s == << ByteItem(\hE8) >>
             t == << IntItem(c) >>
             said == Comment(a, ins)
             opcode == EmitBytes(said, << \hE8 >>)
             b == Emit(opcode, t)
  <1>1. Encodes(s \o t, AsDecoded(ins))
    <2>1. s \o t = << ByteItem(\hE8), IntItem(c) >>
      BY OneAndOne
    <2> QED
      <3>1. Encodes(s \o t, ins)
        BY <2>1, RelEncoded
      <3>2. ins[1] # "CALL"
        OBVIOUS
      <3> QED
        BY <3>1, <3>2, OtherwiseDecoded
  <1>2. IsAssembler(said) /\ \hE8 \in Int
    BY CommentEmits DEF Emits
  <1> HIDE DEF s, said
  <1>3. Adds(said, opcode, s)
    BY <1>2, FewBytesAdd DEF s
  <1> HIDE DEF opcode
  <1>4. IsAssembler(opcode)
    BY <1>3 DEF Adds, Emits
  <1>5. Adds(opcode, b, t)
    BY <1>4, WideAdds
  <1> HIDE DEF b, t
  <1>6. Adds(said, b, s \o t)
    BY <1>2, <1>3, <1>5, AddsChain
  <1>7. Says(a, b, ins)
    BY <1>1, <1>6, CommentedSays DEF said
  <1> QED
    BY <1>7 DEF b, opcode, said, t

LEMMA GrowStackSays ==
  ASSUME NEW a, IsAssembler(a), NEW c \in Int
  PROVE  Says(a, EmitGrowStack(a, c), <<"SUB", rsp, c>>)
  <1> DEFINE ins == <<"SUB", rsp, c>>
             s == << ByteItem(\h48), ByteItem(\h81), ByteItem(\hEC) >>
             t == << IntItem(c) >>
             said == Comment(a, ins)
             opcode == EmitBytes(said, << \h48, \h81, \hEC >>)
             b == Emit(opcode, t)
  <1>1. Encodes(s \o t, AsDecoded(ins))
    <2>1. s \o t = << ByteItem(\h48), ByteItem(\h81), ByteItem(\hEC),
                      IntItem(c) >>
      BY ThreeAndOne
    <2> QED
      <3>1. Encodes(s \o t, ins)
        BY <2>1, SubEncoded
      <3>2. ins[1] # "CALL"
        OBVIOUS
      <3> QED
        BY <3>1, <3>2, OtherwiseDecoded
  <1>2. IsAssembler(said) /\ \h48 \in Int /\ \h81 \in Int /\ \hEC \in Int
    BY CommentEmits DEF Emits
  <1> HIDE DEF s, said
  <1>3. Adds(said, opcode, s)
    BY <1>2, FewBytesAdd DEF s
  <1> HIDE DEF opcode
  <1>4. IsAssembler(opcode)
    BY <1>3 DEF Adds, Emits
  <1>5. Adds(opcode, b, t)
    BY <1>4, WideAdds
  <1> HIDE DEF b, t
  <1>6. Adds(said, b, s \o t)
    BY <1>2, <1>3, <1>5, AddsChain
  <1>7. Says(a, b, ins)
    BY <1>1, <1>6, CommentedSays DEF said
  <1> QED
    BY <1>7 DEF b, opcode, said, t, EmitGrowStack

(* A register's number is 8 * (n \div 8) + (n % 8).                          *)
LEMMA RegisterBits ==
  ASSUME NEW n \in GeneralRegisters
  PROVE  /\ n \div 8 \in {0, 1} /\ n % 8 \in 0 .. 7
         /\ 8 * (n \div 8) + (n % 8) = n
         /\ n \in Int
  <1>1. n \in 0 .. 15
    BY DEF GeneralRegisters
  <1> QED
    BY <1>1

LEMMA MoveSays ==
  ASSUME NEW a, IsAssembler(a), NEW w \in BOOLEAN,
         NEW to \in GeneralRegisters, NEW from \in GeneralRegisters,
         to # from
  PROVE  Says(a, EmitMove(a, w, to, from), <<"MOV", w, to, from>>)
  <1> DEFINE ins == <<"MOV", w, to, from>>
             wide == IF w THEN 1 ELSE 0
             r == to \div 8
             x == to % 8
             m == from \div 8
             y == from % 8
             p == \h40 + 8 * wide + 4 * r + m
             q == \hC0 + 8 * x + y
             t == << ByteItem(\h8B), ByteItem(q) >>
             said == Comment(a, ins)
             rex == EmitREX(said, w, to, 0, from)
             b == EmitBytes(rex, << \h8B, q >>)
  <1>1. /\ r \in {0, 1} /\ x \in 0 .. 7 /\ 8 * r + x = to
        /\ m \in {0, 1} /\ y \in 0 .. 7 /\ 8 * m + y = from
    BY RegisterBits
  <1>2. to \in Int /\ from \in Int
    BY RegisterBits
  <1>3. IsAssembler(said) /\ \h8B \in Int
    BY CommentEmits DEF Emits
  <1>4. EmitMove(a, w, to, from) = b
    <2>1. \hC0 + ((to % 8) * 8) + (from % 8) = q
      BY <1>2
    <2> QED
      BY <2>1 DEF EmitMove, EmitModRMReg
  <1>5. rex = IF p = \h40 THEN said ELSE EmitBytes(said, << p >>)
    <2>1. (IF w THEN 8 ELSE 0) + ((to \div 8) * 4) + ((0 \div 8) * 2)
             + (from \div 8) = p - \h40
      BY <1>2
    <2>2. p \in Int
      BY <1>1
    <2> HIDE DEF p
    <2>3. \h40 + (p - \h40) = p /\ (p - \h40 = 0 <=> p = \h40)
      BY <2>2
    <2> QED
      BY <2>1, <2>3 DEF EmitREX
  <1>6. wide \in {0, 1} /\ (w <=> wide = 1)
    OBVIOUS
  <1> HIDE DEF r, x, m, y, said, wide
  <1>7. p \in Int /\ q \in Int
    BY <1>1, <1>6
  <1>8. Says(a, b, ins)
    <2>1. CASE p = \h40
      <3>1. wide = 0 /\ r = 0 /\ m = 0
        BY <1>1, <1>6, <2>1
      <3>2. to = x /\ from = y /\ w = FALSE
        BY <1>1, <1>6, <3>1
      <3>3. Encodes(t, AsDecoded(ins))
        <4>1. Encodes(t, <<"MOV", FALSE, x, y>>)
          BY <1>1, MovPlain
        <4>2. ins = <<"MOV", FALSE, x, y>> /\ ins[1] # "CALL"
          BY <3>2
        <4> HIDE DEF t, ins
        <4> QED
          BY <4>1, <4>2, OtherwiseDecoded
      <3>4. rex = said
        BY <1>5, <2>1
      <3> HIDE DEF rex, q
      <3>5. Adds(said, b, t)
        BY <1>3, <1>7, <3>4, FewBytesAdd
      <3> HIDE DEF b, t
      <3> QED
        BY <3>3, <3>5, CommentedSays DEF said
    <2>2. CASE p # \h40
      <3> DEFINE s == << ByteItem(p) >>
      <3>1. Encodes(s \o t, AsDecoded(ins))
        <4> DEFINE u == << ByteItem(p), ByteItem(\h8B), ByteItem(q) >>
        <4>1. Encodes(MoveItems(wide, r, m, x, y), Move(wide, r, m, x, y))
          BY <1>1, <1>6, MovPrefixed
        <4>2. Move(wide, r, m, x, y) = ins /\ MoveItems(wide, r, m, x, y) = u
          BY <1>1, <1>6 DEF Move, MoveItems
        <4>3. s \o t = u
          BY OneAndTwo
        <4>4. ins[1] # "CALL"
          OBVIOUS
        <4> HIDE DEF s, t, u, ins
        <4> QED
          BY <4>1, <4>2, <4>3, <4>4, OtherwiseDecoded
      <3>2. rex = EmitBytes(said, << p >>)
        BY <1>5, <2>2
      <3> HIDE DEF rex, p, q
      <3>3. Adds(said, rex, s)
        BY <1>3, <1>7, <3>2, FewBytesAdd
      <3>4. IsAssembler(rex)
        BY <3>3 DEF Adds, Emits
      <3>5. Adds(rex, b, t)
        BY <1>3, <1>7, <3>4, FewBytesAdd
      <3> HIDE DEF b, s, t
      <3>6. Adds(said, b, s \o t)
        BY <1>3, <3>3, <3>5, AddsChain
      <3> QED
        BY <3>1, <3>6, CommentedSays DEF said
    <2> QED
      BY <2>1, <2>2
  <1> QED
    BY <1>4, <1>8

(* emitLoadLong after the register is drawn.                               *)
LEMMA LoadSays ==
  ASSUME NEW a, IsAssembler(a), NEW r \in GeneralRegisters, NEW c \in Int
  PROVE  Says(a, Emit(EmitBytes(EmitREX(Comment(a, <<"LOAD", r, c>>),
                                        TRUE, 0, 0, r),
                                << \hB8 + (r % 8) >>), << LongItem(c) >>),
              <<"LOAD", r, c>>)
  <1> DEFINE ins == <<"LOAD", r, c>>
             m == r \div 8
             x == r % 8
             p == \h48 + m
             q == \hB8 + x
             s == << ByteItem(p) >>
             t == << ByteItem(q) >>
             u == << LongItem(c) >>
             said == Comment(a, ins)
             rex == EmitREX(said, TRUE, 0, 0, r)
             opcode == EmitBytes(rex, << q >>)
             b == Emit(opcode, u)
  <1>1. m \in {0, 1} /\ x \in 0 .. 7 /\ 8 * m + x = r /\ r \in Int
    BY RegisterBits
  <1>2. IsAssembler(said)
    BY CommentEmits DEF Emits
  <1>3. rex = EmitBytes(said, << p >>)
    <2>1. 8 + ((0 \div 8) * 4) + ((0 \div 8) * 2) + (r \div 8) = 8 + m
      BY <1>1
    <2>2. 8 + m # 0 /\ \h40 + (8 + m) = p
      BY <1>1
    <2> HIDE DEF m, p
    <2> QED
      BY <2>1, <2>2 DEF EmitREX
  <1> HIDE DEF m, x, said
  <1>4. p \in Int /\ q \in Int
    BY <1>1
  <1>5. Encodes((s \o t) \o u, AsDecoded(ins))
    <2> DEFINE v == << ByteItem(p), ByteItem(q), LongItem(c) >>
    <2>1. Encodes(v, <<"LOAD", 8 * m + x, c>>)
      BY <1>1, LoadEncoded
    <2>2. (s \o t) \o u = v
      <3>1. s \o t = << ByteItem(p), ByteItem(q) >>
        BY OneAndOne
      <3>2. << ByteItem(p), ByteItem(q) >> \o u = v
        BY TwoAndOne
      <3> HIDE DEF s, t, u, v
      <3> QED
        BY <3>1, <3>2
    <2>3. ins = <<"LOAD", 8 * m + x, c>> /\ ins[1] # "CALL"
      BY <1>1
    <2> HIDE DEF s, t, u, v, ins
    <2> QED
      BY <2>1, <2>2, <2>3, OtherwiseDecoded
  <1> HIDE DEF p, q, rex
  <1>6. Adds(said, rex, s)
    BY <1>2, <1>3, <1>4, FewBytesAdd
  <1>7. IsAssembler(rex)
    BY <1>6 DEF Adds, Emits
  <1>8. Adds(rex, opcode, t)
    BY <1>4, <1>7, FewBytesAdd
  <1> HIDE DEF opcode
  <1>9. IsAssembler(opcode)
    BY <1>8 DEF Adds, Emits
  <1>10. Adds(opcode, b, u)
    BY <1>9, WideAdds
  <1> HIDE DEF b, s, t, u
  <1>11. Adds(said, b, (s \o t) \o u)
    <2>1. Adds(said, opcode, s \o t)
      BY <1>2, <1>6, <1>8, AddsChain
    <2> QED
      BY <1>2, <1>10, <2>1, AddsChain
  <1>12. Says(a, b, ins)
    BY <1>5, <1>11, CommentedSays DEF said
  <1> QED
    BY <1>12 DEF b, opcode, rex, said, u, q, x

(* emitCall after the address is loaded.                                   *)
LEMMA CallSays ==
  ASSUME NEW a, IsAssembler(a), NEW r \in GeneralRegisters
  PROVE  LET opcode == EmitBytes(Comment(a, <<"CALL", r>>), << \hFF >>)
         IN  /\ r >= 8 => Says(a, EmitBytes(opcode, << \h41, \hD0 + (r - 8) >>),
                               <<"CALL", r>>)
             /\ ~(r >= 8) => Says(a, EmitBytes(opcode, << \hD0 + r >>),
                                  <<"CALL", r>>)
  <1> DEFINE ins == <<"CALL", r>>
             s == << ByteItem(\hFF) >>
             said == Comment(a, ins)
             opcode == EmitBytes(said, << \hFF >>)
  <1>1. IsAssembler(said) /\ \hFF \in Int
    BY CommentEmits DEF Emits
  <1>2. r \in 0 .. 15
    BY DEF GeneralRegisters
  <1> HIDE DEF said
  <1>3. Adds(said, opcode, s)
    BY <1>1, FewBytesAdd
  <1> HIDE DEF opcode
  <1>4. IsAssembler(opcode)
    BY <1>3 DEF Adds, Emits
  <1>5. ASSUME r >= 8
        PROVE  Says(a, EmitBytes(opcode, << \h41, \hD0 + (r - 8) >>), ins)
    <2> DEFINE x == r - 8
               t == << ByteItem(\h41), ByteItem(\hD0 + x) >>
               b == EmitBytes(opcode, << \h41, \hD0 + x >>)
    <2>1. x \in 0 .. 7 /\ \hD0 + x \in Int /\ \h41 \in Int
      BY <1>2, <1>5
    <2>2. AsDecoded(ins) = <<"INC", 1, \hD0 + x>>
      BY <1>5 DEF AsDecoded
    <2> HIDE DEF x
    <2>3. Encodes(s \o t, AsDecoded(ins))
      <3>1. s \o t = << ByteItem(\hFF), ByteItem(\h41), ByteItem(\hD0 + x) >>
        BY OneAndTwo
      <3> QED
        BY <2>1, <2>2, <3>1, HighCallEncoded
    <2>4. Adds(opcode, b, t)
      BY <1>4, <2>1, FewBytesAdd
    <2> HIDE DEF s, t, b
    <2>5. Adds(said, b, s \o t)
      BY <1>1, <1>3, <2>4, AddsChain
    <2>6. Says(a, b, ins)
      BY <2>3, <2>5, CommentedSays DEF said
    <2> QED
      BY <2>6 DEF b, x
  <1>6. ASSUME ~(r >= 8)
        PROVE  Says(a, EmitBytes(opcode, << \hD0 + r >>), ins)
    <2> DEFINE t == << ByteItem(\hD0 + r) >>
               b == EmitBytes(opcode, << \hD0 + r >>)
    <2>1. r \in 0 .. 7 /\ \hD0 + r \in Int
      BY <1>2, <1>6
    <2>2. AsDecoded(ins) = <<"CALL", r>>
      BY <1>6 DEF AsDecoded
    <2>3. Encodes(s \o t, AsDecoded(ins))
      <3>1. s \o t = << ByteItem(\hFF), ByteItem(\hD0 + r) >>
        BY OneAndOne
      <3> QED
        BY <2>1, <2>2, <3>1, CallEncoded
    <2>4. Adds(opcode, b, t)
      BY <1>4, <2>1, FewBytesAdd
    <2> HIDE DEF s, t, b
    <2>5. Adds(said, b, s \o t)
      BY <1>1, <1>3, <2>4, AddsChain
    <2>6. Says(a, b, ins)
      BY <2>3, <2>5, CommentedSays DEF said
    <2> QED
      BY <2>6 DEF b
  <1> QED
    BY <1>5, <1>6 DEF opcode, said

-----------------------------------------------------------------------------
(* The sizes of what is appended.                                          *)

LEMMA SizesAdd ==
  ASSUME NEW code \in Seq(Items), NEW s \in Seq(Items)
  PROVE  /\ Len(s) = 2 => CodeSize(code \o s)
                            = CodeSize(code) + s[1].w + s[2].w
         /\ Len(s) = 5 => CodeSize(code \o s)
                            = CodeSize(code) + s[1].w + s[2].w + s[3].w
                                             + s[4].w + s[5].w
  <1> DEFINE all == code \o s
             n   == Len(code)
             to  == Addresses(all)
  <1>1. /\ to[n + 1] = CodeSize(code)
        /\ \A i \in 1 .. Len(s) : to[n + i + 1] = to[n + i] + s[i].w
    BY AddressesAppended
  <1>2. n \in Nat /\ Len(all) = n + Len(s) /\ all \in Seq(Items)
    OBVIOUS
  <1>3. to[Len(all) + 1] = CodeSize(all)
    BY DEF CodeSize
  <1> HIDE DEF all, n, to
  <1>4. ASSUME Len(s) = 2
        PROVE  CodeSize(all) = CodeSize(code) + s[1].w + s[2].w
    <2>1. 1 \in 1 .. Len(s) /\ 2 \in 1 .. Len(s)
      BY <1>4
    <2>2. to[n + 1 + 1] = to[n + 1] + s[1].w
      BY <1>1, <2>1
    <2>3. to[n + 2 + 1] = to[n + 2] + s[2].w
      BY <1>1, <2>1
    <2>4. n + 1 + 1 = n + 2 /\ Len(all) + 1 = n + 2 + 1
      BY <1>2, <1>4
    <2> QED
      BY <1>1, <1>3, <2>2, <2>3, <2>4
  <1>5. ASSUME Len(s) = 5
        PROVE  CodeSize(all) = CodeSize(code) + s[1].w + s[2].w + s[3].w
                                              + s[4].w + s[5].w
    <2>1. /\ 1 \in 1 .. Len(s) /\ 2 \in 1 .. Len(s) /\ 3 \in 1 .. Len(s)
          /\ 4 \in 1 .. Len(s) /\ 5 \in 1 .. Len(s)
      BY <1>5
    <2>2. /\ to[n + 1 + 1] = to[n + 1] + s[1].w
          /\ to[n + 2 + 1] = to[n + 2] + s[2].w
          /\ to[n + 3 + 1] = to[n + 3] + s[3].w
      BY <1>1, <2>1
    <2>3. /\ to[n + 4 + 1] = to[n + 4] + s[4].w
          /\ to[n + 5 + 1] = to[n + 5] + s[5].w
      BY <1>1, <2>1
    <2>4. /\ n + 1 + 1 = n + 2 /\ n + 2 + 1 = n + 3 /\ n + 3 + 1 = n + 4
          /\ n + 4 + 1 = n + 5 /\ Len(all) + 1 = n + 5 + 1
      BY <1>2, <1>5
    <2> QED
      BY <1>1, <1>3, <2>2, <2>3, <2>4
  <1> QED
    BY <1>4, <1>5 DEF all

-----------------------------------------------------------------------------
(* The bytes that a sequence of instructions reserves on the stack.        *)

SubOf(ins) == IF ins[1] = "SUB" THEN ins[3] ELSE 0

Reserved(ins) ==
  LET reserved[i \in 0 .. Len(ins)] ==
        IF i = 0 THEN InitialFrameSize
        ELSE reserved[i - 1] + (IF ins[i][1] = "SUB" THEN ins[i][3] ELSE 0)
  IN  reserved[Len(ins)]

IsReserved(f, n, ins) ==
  f = [i \in 0 .. n |->
         IF i = 0 THEN InitialFrameSize
         ELSE f[i - 1] + (IF ins[i][1] = "SUB" THEN ins[i][3] ELSE 0)]

LEMMA ReservedExist ==
  ASSUME NEW ins
  PROVE  \A n \in Nat : \E f : IsReserved(f, n, ins)
  <1> DEFINE S == {n \in Nat : \E f : IsReserved(f, n, ins)}
  <1>1. 0 \in S
    <2> DEFINE f == [i \in 0 .. 0 |-> InitialFrameSize]
    <2>1. IsReserved(f, 0, ins)
      BY DEF IsReserved
    <2> QED
      BY <2>1
  <1>2. ASSUME NEW n \in Nat, n \in S
        PROVE  n + 1 \in S
    <2>1. PICK f : IsReserved(f, n, ins)
      BY <1>2
    <2> DEFINE new == f[n] + SubOf(ins[n + 1])
               g == [i \in 0 .. n + 1 |-> IF i = n + 1 THEN new ELSE f[i]]
    <2>2. \A i \in 0 .. n : g[i] = f[i]
      OBVIOUS
    <2>3. \A i \in 1 .. n : f[i] = f[i - 1] + SubOf(ins[i])
      BY <2>1 DEF IsReserved, SubOf
    <2>4. f[0] = InitialFrameSize
      BY <2>1 DEF IsReserved
    <2>5. g[n + 1] = new
      OBVIOUS
    <2> DEFINE h == [i \in 0 .. n + 1 |->
                       IF i = 0 THEN InitialFrameSize
                       ELSE g[i - 1] + SubOf(ins[i])]
    <2>6. ASSUME NEW i \in 0 .. n + 1
          PROVE  g[i] = h[i]
      <3>1. CASE i = 0
        BY <2>2, <2>4, <3>1
      <3>2. CASE i \in 1 .. n
        <4>1. /\ g[i] = f[i] /\ g[i - 1] = f[i - 1]
              /\ h[i] = g[i - 1] + SubOf(ins[i])
          BY <2>2, <3>2
        <4> QED
          BY <2>3, <3>2, <4>1
      <3>3. CASE i = n + 1
        <4>1. g[i - 1] = f[n] /\ h[i] = g[i - 1] + SubOf(ins[n + 1])
          BY <2>2, <3>3
        <4> QED
          BY <2>5, <3>3, <4>1
      <3> QED
        BY <3>1, <3>2, <3>3
    <2>7. g = h
      BY <2>6
    <2> HIDE DEF g
    <2>8. IsReserved(g, n + 1, ins)
      BY <2>7 DEF IsReserved, SubOf
    <2> QED
      BY <2>8
  <1> HIDE DEF S
  <1>3. Nat \subseteq S
    BY <1>1, <1>2, Induction
  <1> QED
    BY <1>3 DEF S

LEMMA ReservedIs ==
  ASSUME NEW ins, Len(ins) \in Nat
  PROVE  \E f : /\ IsReserved(f, Len(ins), ins)
                /\ Reserved(ins) = f[Len(ins)]
  <1>1. \E f : IsReserved(f, Len(ins), ins)
    BY ReservedExist
  <1>2. Reserved(ins)
          = (CHOOSE f : IsReserved(f, Len(ins), ins))[Len(ins)]
    BY Zenon DEF Reserved, IsReserved
  <1> QED
    BY <1>1, <1>2, Zenon

LEMMA ReservedAppended ==
  ASSUME NEW s, NEW t, NEW n \in Nat, Len(s) = n, Len(t) = n + 1,
         \A i \in 1 .. n : t[i] = s[i]
  PROVE  Reserved(t) = Reserved(s) + SubOf(t[n + 1])
  <1>1. PICK f : IsReserved(f, n, s) /\ Reserved(s) = f[n]
    BY ReservedIs
  <1>2. PICK g : IsReserved(g, n + 1, t) /\ Reserved(t) = g[n + 1]
    BY ReservedIs
  <1>3. /\ f[0] = InitialFrameSize
        /\ \A i \in 1 .. n : f[i] = f[i - 1] + SubOf(s[i])
    BY <1>1 DEF IsReserved, SubOf
  <1>4. /\ g[0] = InitialFrameSize
        /\ \A i \in 1 .. n + 1 : g[i] = g[i - 1] + SubOf(t[i])
    BY <1>2 DEF IsReserved, SubOf
  <1> DEFINE S == {i \in Nat : i <= n => g[i] = f[i]}
  <1>5. 0 \in S
    BY <1>3, <1>4
  <1>6. ASSUME NEW i \in Nat, i \in S
        PROVE  i + 1 \in S
    <2> SUFFICES ASSUME i + 1 <= n
                 PROVE  g[i + 1] = f[i + 1]
      OBVIOUS
    <2>1. i + 1 \in 1 .. n /\ i + 1 \in 1 .. n + 1 /\ (i + 1) - 1 = i
      OBVIOUS
    <2>2. f[i + 1] = f[i] + SubOf(s[i + 1])
      BY <1>3, <2>1
    <2>3. g[i + 1] = g[i] + SubOf(t[i + 1])
      BY <1>4, <2>1
    <2>4. g[i] = f[i]
      BY <1>6
    <2>5. t[i + 1] = s[i + 1]
      BY <2>1
    <2> QED
      BY <2>2, <2>3, <2>4, <2>5
  <1> HIDE DEF S
  <1>7. n \in S
    BY <1>5, <1>6, Induction
  <1>8. g[n] = f[n]
    BY <1>7 DEF S
  <1>9. g[n + 1] = g[n] + SubOf(t[n + 1])
    <2>1. n + 1 \in 1 .. n + 1 /\ (n + 1) - 1 = n
      OBVIOUS
    <2> QED
      BY <1>4, <2>1
  <1> QED
    BY <1>1, <1>2, <1>8, <1>9

LEMMA ReservedEmpty ==
  ASSUME NEW ins, Len(ins) = 0
  PROVE  Reserved(ins) = InitialFrameSize
  <1>1. PICK f : IsReserved(f, 0, ins) /\ Reserved(ins) = f[0]
    BY ReservedIs
  <1> QED
    BY <1>1 DEF IsReserved

-----------------------------------------------------------------------------
(* An assembler whose code decodes into its listing.                       *)

Decoded(a) == Disassembly(a.code)

Decodes(a) ==
  /\ IsSequence(a.listing)
  /\ Decoding(a.code, Decoded(a))
  /\ Len(Decoded(a)) = Len(a.listing)
  /\ \A k \in 1 .. Len(a.listing) :
       Decoded(a)[k].ins = AsDecoded(a.listing[k])

(* The loads in the code, with their places in it.                         *)
Loaded(a) ==
  {<< i, a.listing[i] >> :
     i \in {j \in 1 .. Len(a.listing) : a.listing[j][1] = "LOAD"}}

(* The relative calls in the code, with their addresses.                   *)
Relative(a) ==
  {Decoded(a)[i] :
     i \in {j \in 1 .. Len(Decoded(a)) : Decoded(a)[j].ins[1] = "CALLREL"}}

ReservedBy(a) == Reserved(InstructionsOf(Decoded(a)))

(* What is appended when an instruction is emitted.                        *)
New(a, b, ins) ==
  [ at   |-> CodeSize(a.code),
    size |-> CodeSize(b.code) - CodeSize(a.code),
    ins  |-> AsDecoded(ins),
    next |-> Len(b.code) + 1 ]

LEMMA SaysDecodes ==
  ASSUME NEW a, NEW b, NEW ins, IsAssembler(a), Decodes(a), Says(a, b, ins)
  PROVE  /\ Decodes(b)
         /\ Decoded(b) = Append(Decoded(a), New(a, b, ins))
  <1>1. PICK s : Encodes(s, AsDecoded(ins)) /\ b.code = a.code \o s
    BY DEF Says
  <1>2. a.code \in Seq(Items) /\ s \in Seq(Items)
    BY <1>1 DEF IsAssembler, Encodes
  <1>3. /\ Len(b.code) = Len(a.code) + Len(s)
        /\ b.code \in Seq(Items) /\ Len(b.code) \in Nat
    BY <1>1, <1>2
  <1> DEFINE D == Decoded(a)
             new == New(a, b, ins)
             E == Append(D, new)
  <1>4. Appended(a.code, s, AsDecoded(ins)) = new
    BY <1>1, <1>3 DEF Appended, New
  <1>5. Decoding(a.code, D) /\ Len(D) = Len(a.listing)
    BY DEF Decodes
  <1> HIDE DEF D, new
  <1>6. Decoding(b.code, E)
    <2>1. Decoding(a.code \o s, Append(D, Appended(a.code, s, AsDecoded(ins))))
      BY <1>1, <1>2, <1>5, DecodingAppended
    <2> QED
      BY <1>1, <1>4, <2>1
  <1>7. Decoded(b) = E
    BY <1>3, <1>6, DisassemblyIs DEF Decoded
  <1>8. b.listing = Append(a.listing, ins)
    BY DEF Says
  <1>9. /\ Len(E) = Len(D) + 1 /\ Len(D) \in Nat
        /\ E[Len(D) + 1] = new
        /\ \A i \in 1 .. Len(D) : E[i] = D[i]
    BY <1>5, SequenceAppended DEF Decoding
  <1>10. /\ IsSequence(b.listing) /\ Len(b.listing) = Len(a.listing) + 1
         /\ b.listing[Len(a.listing) + 1] = ins
         /\ \A i \in 1 .. Len(a.listing) : b.listing[i] = a.listing[i]
    BY <1>8, SequenceAppended DEF Decodes
  <1>11. new.ins = AsDecoded(ins)
    BY DEF new, New
  <1> HIDE DEF E
  <1>12. ASSUME NEW k \in 1 .. Len(b.listing)
         PROVE  E[k].ins = AsDecoded(b.listing[k])
    <2>1. k \in 1 .. Len(D) \/ k = Len(D) + 1
      BY <1>5, <1>9, <1>10
    <2>2. CASE k \in 1 .. Len(D)
      <3>1. D[k].ins = AsDecoded(a.listing[k])
        BY <1>5, <2>2 DEF Decodes, D
      <3> QED
        BY <1>5, <1>9, <1>10, <2>2, <3>1
    <2>3. CASE k = Len(D) + 1
      BY <1>5, <1>9, <1>10, <1>11, <2>3
    <2> QED
      BY <2>1, <2>2, <2>3
  <1>13. Decodes(b)
    BY <1>5, <1>6, <1>7, <1>9, <1>10, <1>12 DEF Decodes
  <1> QED
    BY <1>7, <1>13 DEF E, D, new

LEMMA KindDecoded ==
  ASSUME NEW ins
  PROVE  /\ AsDecoded(ins)[1] = "CALLREL" <=> ins[1] = "CALLREL"
         /\ SubOf(AsDecoded(ins)) = SubOf(ins)
  <1>1. CASE ins[1] = "CALL" /\ ins[2] >= 8
    BY <1>1 DEF AsDecoded, SubOf
  <1>2. CASE ~(ins[1] = "CALL" /\ ins[2] >= 8)
    BY <1>2 DEF AsDecoded
  <1> QED
    BY <1>1, <1>2

LEMMA SaysAdds ==
  ASSUME NEW a, NEW b, NEW ins, IsAssembler(a), Decodes(a), Says(a, b, ins)
  PROVE  /\ ins[1] # "LOAD" => Loaded(b) = Loaded(a)
         /\ ins[1] = "LOAD" => Loaded(b) = Loaded(a)
                                  \cup {<< Len(a.listing) + 1, ins >>}
         /\ ins[1] # "CALLREL" => Relative(b) = Relative(a)
         /\ ins[1] = "CALLREL" => Relative(b) = Relative(a)
                                     \cup {New(a, b, ins)}
         /\ ReservedBy(b) = ReservedBy(a) + SubOf(ins)
  <1> DEFINE D == Decoded(a)
             E == Decoded(b)
             n == Len(D)
             new == New(a, b, ins)
  <1>1. E = Append(D, new)
    BY SaysDecodes
  <1>2. n = Len(a.listing) /\ IsSequence(D)
    BY DEF Decodes, Decoding
  <1>3. new.ins = AsDecoded(ins)
    BY DEF New
  <1> HIDE DEF D, E, new
  <1>4. /\ Len(E) = n + 1 /\ n \in Nat /\ E[n + 1] = new /\ IsSequence(E)
        /\ \A i \in 1 .. n : E[i] = D[i]
    BY <1>1, <1>2, SequenceAppended
  <1>5. /\ Len(b.listing) = n + 1 /\ b.listing[n + 1] = ins
        /\ \A i \in 1 .. n : b.listing[i] = a.listing[i]
    BY <1>2, SequenceAppended DEF Decodes, Says
  <1>6. /\ DOMAIN D = 1 .. n /\ DOMAIN E = 1 .. n + 1
    <2>1. DOMAIN D = 1 .. n
      BY <1>2, SequenceAppended
    <2>2. DOMAIN E = 1 .. Len(E)
      BY <1>4, SequenceAppended
    <2> QED
      BY <1>4, <2>1, <2>2
  <1> HIDE DEF n
  <1>7. \A i \in 1 .. n + 1 : i \in 1 .. n \/ i = n + 1
    BY <1>4
  <1>8. \A i \in 1 .. n : i \in 1 .. n + 1
    BY <1>4
  <1>9. n + 1 \in 1 .. n + 1
    BY <1>4
  <1>10. /\ ins[1] # "LOAD" => Loaded(b) = Loaded(a)
         /\ ins[1] = "LOAD" => Loaded(b) = Loaded(a)
                                  \cup {<< Len(a.listing) + 1, ins >>}
    <2> DEFINE I == {j \in 1 .. n : a.listing[j][1] = "LOAD"}
               J == {j \in 1 .. n + 1 : b.listing[j][1] = "LOAD"}
               L(i) == << i, a.listing[i] >>
               M(i) == << i, b.listing[i] >>
    <2>1. ins[1] # "LOAD" => J = I
      BY <1>5, <1>7, <1>8
    <2>2. ins[1] = "LOAD" => J = I \cup {n + 1}
      BY <1>5, <1>7, <1>8, <1>9
    <2>3. \A i \in I : M(i) = L(i)
      BY <1>5
    <2>4. M(n + 1) = << n + 1, ins >>
      BY <1>5
    <2>5. Loaded(a) = {L(i) : i \in I} /\ Loaded(b) = {M(i) : i \in J}
      BY <1>2, <1>5 DEF Loaded
    <2> HIDE DEF I, J, L, M
    <2> QED
      BY <1>2, <2>1, <2>2, <2>3, <2>4, <2>5
  <1>11. /\ ins[1] # "CALLREL" => Relative(b) = Relative(a)
         /\ ins[1] = "CALLREL" => Relative(b) = Relative(a) \cup {new}
    <2> DEFINE I == {j \in 1 .. n : D[j].ins[1] = "CALLREL"}
               J == {j \in 1 .. n + 1 : E[j].ins[1] = "CALLREL"}
    <2>1. new.ins[1] = "CALLREL" <=> ins[1] = "CALLREL"
      BY <1>3, KindDecoded
    <2>2. ins[1] # "CALLREL" => J = I
      BY <1>4, <1>7, <1>8, <2>1
    <2>3. ins[1] = "CALLREL" => J = I \cup {n + 1}
      BY <1>4, <1>7, <1>8, <1>9, <2>1
    <2>4. \A i \in I : E[i] = D[i]
      BY <1>4
    <2>5. Relative(a) = {D[i] : i \in I} /\ Relative(b) = {E[i] : i \in J}
      BY <1>4 DEF Relative, D, E, n
    <2> HIDE DEF I, J
    <2> QED
      BY <1>4, <2>2, <2>3, <2>4, <2>5
  <1>12. ReservedBy(b) = ReservedBy(a) + SubOf(ins)
    <2> DEFINE s == InstructionsOf(D)
               t == InstructionsOf(E)
    <2>1. /\ s = [i \in 1 .. n |-> D[i].ins]
          /\ t = [i \in 1 .. n + 1 |-> E[i].ins]
      BY <1>6 DEF InstructionsOf
    <2> HIDE DEF s, t
    <2>2. Len(s) = n /\ Len(t) = n + 1
      BY <1>4, <2>1
    <2>3. \A i \in 1 .. n : t[i] = s[i]
      BY <1>4, <1>8, <2>1
    <2>4. t[n + 1] = AsDecoded(ins)
      BY <1>3, <1>4, <1>9, <2>1
    <2>5. Reserved(t) = Reserved(s) + SubOf(t[n + 1])
      BY <1>4, <2>2, <2>3, ReservedAppended
    <2>6. SubOf(t[n + 1]) = SubOf(ins)
      BY <2>4, KindDecoded
    <2> QED
      BY <2>5, <2>6 DEF ReservedBy, s, t, D, E
  <1> QED
    BY <1>10, <1>11, <1>12 DEF new

-----------------------------------------------------------------------------
(* The operations and the code.                                            *)

CodeOK(a) == Decodes(a) /\ ReservedBy(a) = a.frameSize

(* No instruction but the first starts in the first five bytes.            *)
EntryOK(a) ==
  /\ CodeSize(a.code) >= 5
  /\ \A k \in 2 .. Len(Decoded(a)) : Decoded(a)[k].at >= 5

(* b goes on where a stopped.                                              *)
Continues(a, b) ==
  /\ Len(a.listing) \in Nat /\ Len(b.listing) \in Nat
  /\ Len(a.listing) <= Len(b.listing)
  /\ \A k \in 1 .. Len(a.listing) : b.listing[k] = a.listing[k]
  /\ EntryOK(a) => EntryOK(b)

(* b is a with other instructions than loads and relative calls.           *)
Quiet(a, b) ==
  /\ CodeOK(b)
  /\ Continues(a, b)
  /\ Loaded(b) = Loaded(a) /\ Relative(b) = Relative(a) /\ b.sites = a.sites

(* b is a with one load and other instructions.                            *)
Loads(a, b, r, c) ==
  /\ CodeOK(b)
  /\ Continues(a, b)
  /\ Loaded(b) = Loaded(a) \cup {<< Len(a.listing) + 1, <<"LOAD", r, c>> >>}
  /\ Relative(b) = Relative(a) /\ b.sites = a.sites

LEMMA ContinuesChain ==
  ASSUME NEW a, NEW b, NEW c, Continues(a, b), Continues(b, c)
  PROVE  Continues(a, c)
  <1>1. \A k \in 1 .. Len(a.listing) : k \in 1 .. Len(b.listing)
    BY DEF Continues
  <1> QED
    BY <1>1 DEF Continues

LEMMA QuietChain ==
  ASSUME NEW a, NEW b, NEW c, Quiet(a, b), Quiet(b, c)
  PROVE  Quiet(a, c)
  BY ContinuesChain DEF Quiet

LEMMA LoadsQuiet ==
  ASSUME NEW a, NEW b, NEW c, NEW r, NEW v, Loads(a, b, r, v), Quiet(b, c)
  PROVE  Loads(a, c, r, v)
  BY ContinuesChain DEF Quiet, Loads

(* What leaves code, comments and sites alone.                             *)
LEMMA SameCode ==
  ASSUME NEW a, NEW b, CodeOK(a), b.code = a.code, b.listing = a.listing,
         b.sites = a.sites, b.frameSize = a.frameSize
  PROVE  Quiet(a, b)
  <1>1. Decoded(b) = Decoded(a)
    BY DEF Decoded
  <1>2. Loaded(b) = Loaded(a) /\ Relative(b) = Relative(a)
        /\ ReservedBy(b) = ReservedBy(a)
    BY <1>1 DEF Loaded, Relative, ReservedBy
  <1>3. Decodes(b)
    BY <1>1 DEF CodeOK, Decodes
  <1>4. Len(a.listing) \in Nat
    BY SequenceAppended DEF CodeOK, Decodes
  <1>5. EntryOK(a) => EntryOK(b)
    BY <1>1 DEF EntryOK
  <1>6. Continues(a, b)
    BY <1>4, <1>5 DEF Continues
  <1> QED
    BY <1>2, <1>3, <1>6 DEF CodeOK, Quiet

LEMMA SaysContinues ==
  ASSUME NEW a, NEW b, NEW ins, IsAssembler(a), IsAssembler(b), Decodes(a),
         Says(a, b, ins)
  PROVE  Continues(a, b)
  <1> DEFINE D == Decoded(a)
             E == Decoded(b)
             n == Len(D)
             new == New(a, b, ins)
  <1>1. E = Append(D, new)
    BY SaysDecodes
  <1>2. n = Len(a.listing) /\ IsSequence(D)
    BY DEF Decodes, Decoding
  <1>3. new.at = CodeSize(a.code)
    BY DEF New
  <1>4. CodeSize(b.code) >= CodeSize(a.code)
    <2>1. PICK s : s \in Seq(Items) /\ b.code = a.code \o s
      BY DEF Says, Encodes
    <2> QED
      BY <2>1, AddressesAppended DEF IsAssembler
  <1>5. CodeSize(a.code) \in Nat /\ CodeSize(b.code) \in Nat
    BY AddressesFacts DEF IsAssembler
  <1> HIDE DEF D, E, new
  <1>6. /\ Len(E) = n + 1 /\ n \in Nat /\ E[n + 1] = new
        /\ \A i \in 1 .. n : E[i] = D[i]
    BY <1>1, <1>2, SequenceAppended
  <1>7. /\ Len(b.listing) = n + 1
        /\ \A i \in 1 .. n : b.listing[i] = a.listing[i]
    BY <1>2, SequenceAppended DEF Decodes, Says
  <1> HIDE DEF n
  <1>8. EntryOK(a) => EntryOK(b)
    <2> SUFFICES ASSUME EntryOK(a)
                 PROVE  EntryOK(b)
      OBVIOUS
    <2>1. CodeSize(a.code) >= 5 /\ \A k \in 2 .. n : D[k].at >= 5
      BY DEF EntryOK, D, n
    <2>2. ASSUME NEW k \in 2 .. n + 1
          PROVE  E[k].at >= 5
      <3>1. CASE k \in 2 .. n
        BY <1>6, <2>1, <3>1
      <3>2. CASE k = n + 1
        BY <1>3, <1>6, <2>1, <3>2
      <3> QED
        BY <1>6, <3>1, <3>2
    <2> QED
      BY <1>4, <1>5, <1>6, <2>1, <2>2 DEF EntryOK, E
  <1> QED
    BY <1>2, <1>6, <1>7, <1>8 DEF Continues

LEMMA SaysQuiet ==
  ASSUME NEW a, NEW b, NEW ins, IsAssembler(a), CodeOK(a), Says(a, b, ins),
         ins[1] \notin {"LOAD", "CALLREL", "SUB"}
  PROVE  Quiet(a, b)
  <1>1. a.frameSize \in Nat /\ b.frameSize = a.frameSize /\ IsAssembler(b)
    BY DEF IsAssembler, Says, Emits
  <1>2. SubOf(ins) = 0
    BY DEF SubOf
  <1>3. /\ Loaded(b) = Loaded(a) /\ Relative(b) = Relative(a)
        /\ ReservedBy(b) = ReservedBy(a) + SubOf(ins)
    BY SaysAdds DEF CodeOK
  <1>4. Continues(a, b) /\ Decodes(b)
    BY <1>1, SaysContinues, SaysDecodes DEF CodeOK
  <1>5. ReservedBy(b) = b.frameSize
    BY <1>1, <1>2, <1>3 DEF CodeOK
  <1>6. b.sites = a.sites
    BY DEF Says
  <1> QED
    BY <1>3, <1>4, <1>5, <1>6 DEF CodeOK, Quiet

LEMMA SaysLoads ==
  ASSUME NEW a, NEW b, NEW r, NEW c, IsAssembler(a), CodeOK(a),
         Says(a, b, <<"LOAD", r, c>>)
  PROVE  Loads(a, b, r, c)
  <1> DEFINE ins == <<"LOAD", r, c>>
  <1>1. a.frameSize \in Nat /\ b.frameSize = a.frameSize /\ IsAssembler(b)
    BY DEF IsAssembler, Says, Emits
  <1>2. SubOf(ins) = 0 /\ ins[1] = "LOAD"
    BY DEF SubOf
  <1>3. Says(a, b, ins)
    OBVIOUS
  <1> HIDE DEF ins
  <1>4. /\ Loaded(b) = Loaded(a) \cup {<< Len(a.listing) + 1, ins >>}
        /\ Relative(b) = Relative(a)
        /\ ReservedBy(b) = ReservedBy(a) + SubOf(ins)
    BY <1>2, <1>3, SaysAdds DEF CodeOK
  <1>5. Continues(a, b) /\ Decodes(b)
    BY <1>1, <1>3, SaysContinues, SaysDecodes DEF CodeOK
  <1>6. ReservedBy(b) = b.frameSize
    BY <1>1, <1>2, <1>4 DEF CodeOK
  <1>7. b.sites = a.sites
    BY <1>3 DEF Says
  <1> QED
    BY <1>4, <1>5, <1>6, <1>7 DEF CodeOK, Loads, ins

(* The frame grows by what the code reserves.                              *)
LEMMA GrowFrameQuiet ==
  ASSUME NEW a, AsmOK(a), CodeOK(a), NEW n \in Nat \ {0}
  PROVE  LET b == GrowFrame(a, n)
         IN  /\ Quiet(a, b)
             /\ b.listing = IF a.curStackSlot + n > a.frameSize
                            THEN Append(a.listing, <<"SUB", rsp,
                                   AlignedFrame(a.curStackSlot + n)
                                      - a.frameSize>>)
                            ELSE a.listing
  <1> DEFINE b     == GrowFrame(a, n)
             cur   == a.curStackSlot + n
             moved == [a EXCEPT !.curStackSlot = cur]
             size  == AlignedFrame(cur)
             more  == size - a.frameSize
             grown == EmitGrowStack(moved, more)
             large == [grown EXCEPT !.frameSize = size]
             ins   == <<"SUB", rsp, more>>
  <1>1. a.curStackSlot \in Nat /\ a.frameSize \in Nat
    BY DEF AsmOK, IsAssembler
  <1>2. cur \in Nat
    BY <1>1
  <1>3. size \in Nat
    BY <1>2, FrameAligned
  <1>4. b = IF cur > a.frameSize THEN large ELSE moved
    BY DEF GrowFrame
  <1> HIDE DEF size
  <1>5. more \in Int
    BY <1>1, <1>3
  <1> HIDE DEF b, cur
  <1>6. IsAssembler(moved)
    BY <1>2 DEF AsmOK, IsAssembler
  <1>7. /\ moved.frameSize = a.frameSize /\ moved.code = a.code
        /\ moved.listing = a.listing /\ moved.sites = a.sites
    BY DEF AsmOK, IsAssembler
  <1> HIDE DEF moved
  <1>8. Quiet(a, moved)
    BY <1>7, SameCode
  <1>9. CASE cur > a.frameSize
    <2>1. Says(moved, grown, ins)
      BY <1>5, <1>6, GrowStackSays
    <2>2. ins[1] = "SUB" /\ SubOf(ins) = more
      BY DEF SubOf
    <2> HIDE DEF grown, ins
    <2>3. IsAssembler(grown)
      BY <2>1 DEF Says, Emits
    <2>4. /\ large.frameSize = size /\ large.code = grown.code
          /\ large.listing = grown.listing /\ large.sites = grown.sites
      BY <2>3 DEF IsAssembler
    <2> HIDE DEF large
    <2>5. Decodes(moved) /\ ReservedBy(moved) = a.frameSize
      BY <1>7, <1>8 DEF Quiet, CodeOK
    <2>6. /\ Loaded(grown) = Loaded(moved)
          /\ Relative(grown) = Relative(moved)
          /\ ReservedBy(grown) = ReservedBy(moved) + SubOf(ins)
      BY <1>6, <2>1, <2>2, <2>5, SaysAdds
    <2>7. ReservedBy(grown) = size
      BY <1>1, <1>3, <2>2, <2>5, <2>6
    <2>8. Decodes(grown) /\ Continues(moved, grown)
      BY <1>6, <2>1, <2>3, <2>5, SaysDecodes, SaysContinues
    <2>9. Decoded(large) = Decoded(grown)
      BY <2>4 DEF Decoded
    <2>10. /\ Loaded(large) = Loaded(grown) /\ Relative(large) = Relative(grown)
           /\ ReservedBy(large) = ReservedBy(grown)
      BY <2>4, <2>9 DEF Loaded, Relative, ReservedBy
    <2>11. Decodes(large)
      BY <2>4, <2>8, <2>9 DEF Decodes
    <2>12. Continues(moved, large)
      <3>1. EntryOK(grown) => EntryOK(large)
        BY <2>4, <2>9 DEF EntryOK
      <3> QED
        BY <2>4, <2>8, <3>1 DEF Continues
    <2>13. large.sites = moved.sites
      BY <2>1, <2>4 DEF Says
    <2>14. Quiet(moved, large)
      BY <2>4, <2>6, <2>7, <2>10, <2>11, <2>12, <2>13 DEF Quiet, CodeOK
    <2>15. Quiet(a, large)
      BY <1>8, <2>14, QuietChain
    <2>16. large.listing = Append(a.listing, ins)
      BY <1>7, <2>1, <2>4 DEF Says
    <2> QED
      BY <1>4, <1>9, <2>15, <2>16 DEF b, ins, cur, size
  <1>10. CASE ~(cur > a.frameSize)
    BY <1>4, <1>7, <1>8, <1>10 DEF b, cur
  <1> QED
    BY <1>9, <1>10

LEMMA NewStackSlotQuiet ==
  ASSUME NEW a, AsmOK(a), CodeOK(a), NEW n \in Nat \ {0}
  PROVE  LET b == NewStackSlot(a, n)
         IN  /\ Quiet(a, b)
             /\ b.listing = GrowFrame(a, n).listing
             /\ b.curStackSlot = a.curStackSlot + n
             /\ LastSlot(b) = [offset |-> -(a.curStackSlot + n), size |-> n]
  <1> DEFINE grown == GrowFrame(a, n)
             slot  == [offset |-> -grown.curStackSlot, size |-> n]
             slots == Append(grown.slots, slot)
             b     == [grown EXCEPT !.slots = slots]
  <1>1. /\ AsmOK(grown) /\ grown.curStackSlot = a.curStackSlot + n
        /\ grown.slots \in Seq(Slots) /\ slot \in Slots
    <2>1. AsmOK(grown) /\ grown.curStackSlot = a.curStackSlot + n
      BY GrowFrameOK
    <2>2. grown.slots \in Seq(Slots) /\ grown.curStackSlot \in Nat
      BY <2>1 DEF AsmOK, IsAssembler
    <2>3. slot \in Slots
      BY <2>2 DEF Slots
    <2> QED
      BY <2>1, <2>2, <2>3
  <1>2. Quiet(a, grown)
    BY GrowFrameQuiet
  <1>3. NewStackSlot(a, n) = b
    BY DEF NewStackSlot
  <1>4. slot = [offset |-> -(a.curStackSlot + n), size |-> n]
    BY <1>1
  <1> HIDE DEF grown, slot
  <1>5. Len(slots) = Len(grown.slots) + 1 /\ slots[Len(slots)] = slot
    BY <1>1
  <1> HIDE DEF slots
  <1>6. /\ b.frameSize = grown.frameSize /\ b.code = grown.code
        /\ b.listing = grown.listing /\ b.sites = grown.sites
        /\ b.slots = slots /\ b.curStackSlot = grown.curStackSlot
    BY <1>1 DEF AsmOK, IsAssembler
  <1> HIDE DEF b
  <1>7. Quiet(grown, b)
    BY <1>2, <1>6, SameCode DEF Quiet
  <1>8. Quiet(a, b)
    BY <1>2, <1>7, QuietChain
  <1> QED
    BY <1>1, <1>3, <1>4, <1>5, <1>6, <1>8 DEF LastSlot, grown

LEMMA RegistersGeneral ==
  /\ rax \in GeneralRegisters /\ rsp \in GeneralRegisters
  /\ rbp \in GeneralRegisters /\ rbp # rsp
  BY DEF rax, rsp, rbp, GeneralRegisters

LEMMA MoveQuiet ==
  ASSUME NEW a, IsAssembler(a), CodeOK(a), NEW w \in BOOLEAN,
         NEW to \in GeneralRegisters, NEW from \in GeneralRegisters
  PROVE  LET b == EmitMove(a, w, to, from)
         IN  /\ Quiet(a, b) /\ Emits(a, b)
             /\ b.listing = IF to = from THEN a.listing
                            ELSE Append(a.listing, <<"MOV", w, to, from>>)
  <1> DEFINE b   == EmitMove(a, w, to, from)
             ins == <<"MOV", w, to, from>>
  <1>1. CASE to = from
    <2>1. b = a
      BY <1>1 DEF EmitMove
    <2>2. Quiet(a, b)
      BY <2>1, SameCode
    <2>3. Emits(a, b)
      BY <2>1, EmitsNothing
    <2> QED
      BY <1>1, <2>1, <2>2, <2>3
  <1>2. CASE to # from
    <2>1. Says(a, b, ins)
      BY <1>2, MoveSays
    <2>2. ins[1] \notin {"LOAD", "CALLREL", "SUB"}
      OBVIOUS
    <2> HIDE DEF b, ins
    <2>3. Quiet(a, b)
      BY <2>1, <2>2, SaysQuiet
    <2>4. Emits(a, b) /\ b.listing = Append(a.listing, ins)
      BY <2>1 DEF Says
    <2> QED
      BY <1>2, <2>3, <2>4 DEF b, ins
  <1> QED
    BY <1>1, <1>2

(* The prologue, as far as the move.                                       *)
Entry(a) ==
  EmitMove(EmitBytes(Comment(EmitFatNop(a), <<"PUSH", rbp>>),
                     << \h50 + rbp >>),
           TRUE, rbp, rsp)

EntryListing(l) ==
  Append(Append(Append(l, <<"NOP5">>), <<"PUSH", rbp>>),
         <<"MOV", TRUE, rbp, rsp>>)

(* An entry that begins with the NOP can be patched.                       *)
LEMMA NopEntry ==
  ASSUME NEW a, IsAssembler(a), Decodes(a), Len(a.listing) = 0
  PROVE  EntryOK(EmitFatNop(a))
  <1> DEFINE bytes == << \h0F, \h1F, \h44, \h00, \h00 >>
             s == [i \in 1 .. Len(bytes) |-> ByteItem(bytes[i])]
             said == Comment(a, <<"NOP5">>)
             nop  == EmitBytes(said, bytes)
  <1>1. EmitFatNop(a) = nop
    BY DEF EmitFatNop
  <1>2. Says(a, nop, <<"NOP5">>)
    BY <1>1, FatNopSays
  <1>3. /\ bytes \in Seq(Int) /\ Len(s) = 5
        /\ s[1].w = 1 /\ s[2].w = 1 /\ s[3].w = 1 /\ s[4].w = 1 /\ s[5].w = 1
    BY DEF ByteItem
  <1>4. IsAssembler(said)
    BY CommentEmits DEF Emits
  <1>5. said.code = a.code
    BY DEF Comment, IsAssembler
  <1> HIDE DEF said, bytes
  <1>6. Adds(said, nop, s)
    BY <1>3, <1>4, BytesAdd
  <1> HIDE DEF nop, s
  <1>7. nop.code = a.code \o s /\ s \in Seq(Items) /\ a.code \in Seq(Items)
    BY <1>5, <1>6 DEF Adds, IsAssembler
  <1>8. CodeSize(nop.code) = CodeSize(a.code) + s[1].w + s[2].w + s[3].w
                             + s[4].w + s[5].w
    BY <1>3, <1>7, SizesAdd
  <1>9. CodeSize(a.code) \in Nat
    BY <1>7, AddressesFacts
  <1>10. CodeSize(nop.code) >= 5
    BY <1>3, <1>8, <1>9
  <1>11. Decodes(nop) /\ Len(Decoded(nop)) = 1
    <2>1. Decodes(nop)
      BY <1>2, SaysDecodes
    <2>2. nop.listing = Append(a.listing, <<"NOP5">>)
      BY <1>2 DEF Says
    <2>3. Len(nop.listing) = 1
      BY <2>2, SequenceAppended DEF Decodes
    <2> QED
      BY <2>1, <2>3 DEF Decodes
  <1> QED
    BY <1>1, <1>10, <1>11 DEF EntryOK

LEMMA EntryQuiet ==
  ASSUME NEW a, AsmOK(a), CodeOK(a)
  PROVE  /\ AsmOK(Entry(a)) /\ Emits(a, Entry(a)) /\ Quiet(a, Entry(a))
         /\ Entry(a).listing = EntryListing(a.listing)
         /\ Len(a.listing) = 0 => EntryOK(Entry(a))
  <1> DEFINE nop    == EmitFatNop(a)
             pushed == EmitBytes(Comment(nop, <<"PUSH", rbp>>),
                                 << \h50 + rbp >>)
             moved  == EmitMove(pushed, TRUE, rbp, rsp)
  <1>1. Entry(a) = moved
    BY DEF Entry
  <1>2. Says(a, nop, <<"NOP5">>)
    BY FatNopSays DEF AsmOK
  <1> HIDE DEF nop
  <1>3. IsAssembler(nop) /\ nop.listing = Append(a.listing, <<"NOP5">>)
    BY <1>2 DEF Says, Emits
  <1>4. Quiet(a, nop)
    <2> DEFINE ins == <<"NOP5">>
    <2>1. ins[1] \notin {"LOAD", "CALLREL", "SUB"}
      OBVIOUS
    <2>2. Says(a, nop, ins)
      BY <1>2
    <2> HIDE DEF ins
    <2> QED
      BY <2>1, <2>2, SaysQuiet DEF AsmOK
  <1>5. Says(nop, pushed, <<"PUSH", rbp>>)
    BY <1>3, PushSays
  <1> HIDE DEF pushed
  <1>6. /\ IsAssembler(pushed)
        /\ pushed.listing = Append(nop.listing, <<"PUSH", rbp>>)
    BY <1>5 DEF Says, Emits
  <1>7. Quiet(nop, pushed)
    <2> DEFINE ins == <<"PUSH", rbp>>
    <2>1. ins[1] \notin {"LOAD", "CALLREL", "SUB"}
      OBVIOUS
    <2>2. Says(nop, pushed, ins)
      BY <1>5
    <2>3. CodeOK(nop)
      BY <1>4 DEF Quiet
    <2> HIDE DEF ins
    <2> QED
      BY <1>3, <2>1, <2>2, <2>3, SaysQuiet
  <1>8. /\ Quiet(pushed, moved) /\ Emits(pushed, moved)
        /\ moved.listing = Append(pushed.listing, <<"MOV", TRUE, rbp, rsp>>)
    <2>1. CodeOK(pushed)
      BY <1>7 DEF Quiet
    <2> QED
      BY <1>6, <2>1, RegistersGeneral, MoveQuiet
  <1> HIDE DEF moved
  <1>9. Emits(a, moved)
    <2>1. Emits(a, nop) /\ Emits(nop, pushed)
      BY <1>2, <1>5 DEF Says
    <2> QED
      BY <1>8, <2>1, EmitsChain
  <1>10. AsmOK(moved)
    BY <1>9, EmitsOK
  <1>11. Quiet(a, moved)
    BY <1>4, <1>7, <1>8, QuietChain
  <1>12. moved.listing = EntryListing(a.listing)
    BY <1>3, <1>6, <1>8 DEF EntryListing
  <1>13. Len(a.listing) = 0 => EntryOK(moved)
    <2>1. Len(a.listing) = 0 => EntryOK(nop)
      BY NopEntry DEF AsmOK, CodeOK, nop
    <2> QED
      BY <1>7, <1>8, <2>1 DEF Quiet, Continues
  <1> QED
    BY <1>1, <1>9, <1>10, <1>11, <1>12, <1>13

LEMMA PrologueQuiet ==
  ASSUME NEW a, AsmOK(a), CodeOK(a)
  PROVE  LET b == EmitPrologue(a)
         IN  /\ Quiet(a, b)
             /\ b.listing = GrowFrame(Entry(a), QWORD).listing
             /\ b.curStackSlot = a.curStackSlot + QWORD
             /\ b.deoptRescue = [offset |-> -(a.curStackSlot + QWORD),
                                 size |-> QWORD]
             /\ Len(a.listing) = 0 => EntryOK(b)
  <1> DEFINE moved == Entry(a)
             slot  == NewStackSlot(moved, QWORD)
             last  == LastSlot(slot)
             b     == [slot EXCEPT !.deoptRescue = last]
  <1>1. /\ AsmOK(moved) /\ Quiet(a, moved) /\ CodeOK(moved)
        /\ moved.curStackSlot = a.curStackSlot
        /\ Len(a.listing) = 0 => EntryOK(moved)
    BY EntryQuiet DEF Quiet, Emits
  <1>2. EmitPrologue(a) = b
    BY DEF EmitPrologue, Entry, SetDeoptRescueSlot
  <1>3. QWORD \in Nat \ {0}
    BY DEF QWORD
  <1>4. /\ Quiet(moved, slot) /\ slot.listing = GrowFrame(moved, QWORD).listing
        /\ slot.curStackSlot = a.curStackSlot + QWORD
        /\ last = [offset |-> -(a.curStackSlot + QWORD), size |-> QWORD]
    BY <1>1, <1>3, NewStackSlotQuiet
  <1>5. IsAssembler(slot)
    BY <1>1, <1>3, NewStackSlotOK DEF AsmOK
  <1> HIDE DEF slot, last
  <1>6. /\ b.frameSize = slot.frameSize /\ b.code = slot.code
        /\ b.listing = slot.listing /\ b.sites = slot.sites
        /\ b.curStackSlot = slot.curStackSlot /\ b.deoptRescue = last
    BY <1>5 DEF IsAssembler
  <1> HIDE DEF b
  <1>7. Quiet(slot, b)
    BY <1>4, <1>6, SameCode DEF Quiet
  <1>8. Quiet(a, b)
    BY <1>1, <1>4, <1>7, QuietChain
  <1>9. Len(a.listing) = 0 => EntryOK(b)
    BY <1>1, <1>4, <1>7 DEF Quiet, Continues
  <1> QED
    BY <1>2, <1>4, <1>6, <1>8, <1>9

IntRetListing(l) ==
  Append(Append(Append(l, <<"MOV", TRUE, rsp, rbp>>), <<"POP", rbp>>),
         <<"RET">>)

LEMMA IntRetQuiet ==
  ASSUME NEW a, AsmOK(a), CodeOK(a), NEW r \in GeneralRegisters
  PROVE  LET b == EmitIntRet(a, r)
         IN  /\ Quiet(a, b)
             /\ r = rax => b.listing = IntRetListing(a.listing)
  <1> DEFINE result  == EmitMove(a, FALSE, rax, r)
             unwound == EmitMove(result, TRUE, rsp, rbp)
             popped  == EmitBytes(Comment(unwound, <<"POP", rbp>>),
                                  << \h58 + rbp >>)
             ended   == EmitBytes(Comment(popped, <<"RET">>), << \hC3 >>)
  <1>1. EmitIntRet(a, r) = ended
    BY DEF EmitIntRet
  <1>2. /\ Quiet(a, result) /\ Emits(a, result)
        /\ r = rax => result.listing = a.listing
    BY RegistersGeneral, MoveQuiet DEF AsmOK
  <1> HIDE DEF result
  <1>3. IsAssembler(result) /\ CodeOK(result)
    BY <1>2 DEF Emits, Quiet
  <1>4. /\ Quiet(result, unwound) /\ Emits(result, unwound)
        /\ unwound.listing = Append(result.listing, <<"MOV", TRUE, rsp, rbp>>)
    BY <1>3, RegistersGeneral, MoveQuiet
  <1> HIDE DEF unwound
  <1>5. IsAssembler(unwound) /\ CodeOK(unwound)
    BY <1>4 DEF Emits, Quiet
  <1>6. Says(unwound, popped, <<"POP", rbp>>)
    BY <1>5, PopSays
  <1> HIDE DEF popped
  <1>7. /\ IsAssembler(popped)
        /\ popped.listing = Append(unwound.listing, <<"POP", rbp>>)
    BY <1>6 DEF Says, Emits
  <1>8. Quiet(unwound, popped)
    <2> DEFINE ins == <<"POP", rbp>>
    <2>1. ins[1] \notin {"LOAD", "CALLREL", "SUB"}
      OBVIOUS
    <2>2. Says(unwound, popped, ins)
      BY <1>6
    <2> HIDE DEF ins
    <2> QED
      BY <1>5, <2>1, <2>2, SaysQuiet
  <1>9. Says(popped, ended, <<"RET">>)
    BY <1>7, RetSays
  <1> HIDE DEF ended
  <1>10. ended.listing = Append(popped.listing, <<"RET">>)
    BY <1>9 DEF Says
  <1>11. Quiet(popped, ended)
    <2> DEFINE ins == <<"RET">>
    <2>1. ins[1] \notin {"LOAD", "CALLREL", "SUB"}
      OBVIOUS
    <2>2. Says(popped, ended, ins)
      BY <1>9
    <2>3. CodeOK(popped)
      BY <1>8 DEF Quiet
    <2> HIDE DEF ins
    <2> QED
      BY <1>7, <2>1, <2>2, <2>3, SaysQuiet
  <1>12. Quiet(a, ended)
    BY <1>2, <1>4, <1>8, <1>11, QuietChain
  <1>13. r = rax => ended.listing = IntRetListing(a.listing)
    BY <1>2, <1>4, <1>7, <1>10 DEF IntRetListing
  <1> QED
    BY <1>1, <1>12, <1>13

-----------------------------------------------------------------------------
(* The sites.                                                              *)

SitesOf(s, kind) == {s[i] : i \in {j \in 1 .. Len(s) : s[j].kind = kind}}

(* The call sites are where the relative calls are, and so are the marks.  *)
SitesOK(a) ==
  /\ IsSequence(a.sites)
  /\ {[at |-> s.pos, size |-> s.size] : s \in SitesOf(a.sites, "Call")}
       = {[at |-> d.at, size |-> d.size] : d \in Relative(a)}
  /\ {s.pos : s \in SitesOf(a.sites, "Mark")} = {d.at : d \in Relative(a)}

LEMMA QuietSites ==
  ASSUME NEW a, NEW b, Quiet(a, b), SitesOK(a)
  PROVE  SitesOK(b)
  BY DEF Quiet, SitesOK

LEMMA LoadsSites ==
  ASSUME NEW a, NEW b, NEW r, NEW c, Loads(a, b, r, c), SitesOK(a)
  PROVE  SitesOK(b)
  BY DEF Loads, SitesOK

LEMMA SiteAppended ==
  ASSUME NEW s, IsSequence(s), NEW x, NEW kind
  PROVE  /\ IsSequence(Append(s, x))
         /\ x.kind = kind => SitesOf(Append(s, x), kind)
                               = SitesOf(s, kind) \cup {x}
         /\ x.kind # kind => SitesOf(Append(s, x), kind) = SitesOf(s, kind)
  <1> DEFINE n == Len(s)
             t == Append(s, x)
             I == {j \in 1 .. n : s[j].kind = kind}
             J == {j \in 1 .. n + 1 : t[j].kind = kind}
  <1>1. /\ IsSequence(t) /\ n \in Nat /\ Len(t) = n + 1 /\ t[n + 1] = x
        /\ \A i \in 1 .. n : t[i] = s[i]
    BY SequenceAppended
  <1> HIDE DEF n, t
  <1>2. /\ \A i \in 1 .. n + 1 : i \in 1 .. n \/ i = n + 1
        /\ \A i \in 1 .. n : i \in 1 .. n + 1
        /\ n + 1 \in 1 .. n + 1
    BY <1>1
  <1>3. x.kind = kind => J = I \cup {n + 1}
    BY <1>1, <1>2
  <1>4. x.kind # kind => J = I
    BY <1>1, <1>2
  <1>5. \A i \in I : t[i] = s[i]
    BY <1>1
  <1>6. /\ SitesOf(s, kind) = {s[i] : i \in I}
        /\ SitesOf(t, kind) = {t[i] : i \in J}
    BY <1>1 DEF SitesOf, n
  <1> HIDE DEF I, J
  <1>7. x.kind = kind => SitesOf(t, kind) = SitesOf(s, kind) \cup {x}
    BY <1>1, <1>3, <1>5, <1>6
  <1>8. x.kind # kind => SitesOf(t, kind) = SitesOf(s, kind)
    BY <1>4, <1>5, <1>6
  <1> QED
    BY <1>1, <1>7, <1>8 DEF t

(* A relative call takes five bytes.                                       *)
LEMMA RelativeCallSize ==
  ASSUME NEW a, IsAssembler(a), NEW c \in Int
  PROVE  CodeSize(Emit(EmitBytes(Comment(a, <<"CALLREL", c>>), << \hE8 >>),
                       << IntItem(c) >>).code) = CodeSize(a.code) + 5
  <1> DEFINE s == << ByteItem(\hE8) >>
             t == << IntItem(c) >>
             u == << ByteItem(\hE8), IntItem(c) >>
             said == Comment(a, <<"CALLREL", c>>)
             opcode == EmitBytes(said, << \hE8 >>)
             b == Emit(opcode, t)
  <1>1. s \o t = u
    BY OneAndOne
  <1>2. IsAssembler(said) /\ \hE8 \in Int
    BY CommentEmits DEF Emits
  <1>3. said.code = a.code
    BY DEF Comment, IsAssembler
  <1>4. /\ Len(u) = 2 /\ u[1].w = 1 /\ u[2].w = 4
    BY DEF ByteItem, IntItem
  <1> HIDE DEF s, said, u
  <1>5. Adds(said, opcode, s)
    BY <1>2, FewBytesAdd DEF s
  <1> HIDE DEF opcode
  <1>6. IsAssembler(opcode)
    BY <1>5 DEF Adds, Emits
  <1>7. Adds(opcode, b, t)
    BY <1>6, WideAdds
  <1> HIDE DEF b, t
  <1>8. Adds(said, b, u)
    BY <1>1, <1>2, <1>5, <1>7, AddsChain
  <1>9. b.code = a.code \o u /\ u \in Seq(Items) /\ a.code \in Seq(Items)
    BY <1>3, <1>8 DEF Adds, IsAssembler
  <1>10. CodeSize(b.code) = CodeSize(a.code) + u[1].w + u[2].w
    BY <1>4, <1>9, SizesAdd
  <1>11. CodeSize(a.code) \in Nat
    BY <1>9, AddressesFacts
  <1>12. CodeSize(b.code) = CodeSize(a.code) + 5
    BY <1>4, <1>10, <1>11
  <1> QED
    BY <1>12 DEF b, opcode, said, t

LEMMA EpilogueSites ==
  ASSUME NEW a, AsmOK(a), CodeOK(a), SitesOK(a)
  PROVE  LET b == EmitEpilogue(a)
         IN  /\ CodeOK(b) /\ SitesOK(b) /\ Continues(a, b)
             /\ Loaded(b) = Loaded(a)
             /\ b.listing = Append(a.listing, <<"CALLREL", DEADDEAD>>)
  <1> DEFINE at   == CodeSize(a.code)
             mark == [kind |-> "Mark", pos |-> at,
                      id |-> "DEOPT_HANDLER_ENTRY"]
             call == [kind |-> "Call", pos |-> at,
                      target |-> "handleDeoptStub", size |-> 5]
             marked   == RecordMark(a, "DEOPT_HANDLER_ENTRY")
             recorded == RecordCall(marked, "handleDeoptStub", 5)
             ins      == <<"CALLREL", DEADDEAD>>
             b        == Emit(EmitBytes(Comment(recorded, ins), << \hE8 >>),
                              << IntItem(DEADDEAD) >>)
             new      == New(recorded, b, ins)
  <1>1. EmitEpilogue(a) = b
    BY DEF EmitEpilogue
  <1>2. Emits(a, marked)
    BY RecordKeeps
  <1>3. /\ marked.sites = Append(a.sites, mark) /\ marked.code = a.code
        /\ marked.listing = a.listing
    BY DEF RecordMark, Position, AsmOK, IsAssembler
  <1> HIDE DEF marked
  <1>4. Emits(marked, recorded)
    BY <1>2, EmitsOK, RecordKeeps
  <1>5. /\ recorded.sites = Append(marked.sites, call)
        /\ recorded.code = a.code /\ recorded.listing = a.listing
    <2>1. IsAssembler(marked)
      BY <1>2 DEF Emits
    <2> QED
      BY <1>3, <2>1 DEF RecordCall, Position, IsAssembler
  <1> HIDE DEF recorded
  <1>6. IsAssembler(recorded) /\ recorded.frameSize = a.frameSize
    BY <1>2, <1>4 DEF Emits
  <1>7. DEADDEAD \in Int
    BY SMT DEF DEADDEAD
  <1>8. Says(recorded, b, ins) /\ CodeSize(b.code) = CodeSize(recorded.code) + 5
    BY <1>6, <1>7, RelativeCallSays, RelativeCallSize
  <1>9. ins[1] = "CALLREL" /\ ins[1] # "LOAD" /\ SubOf(ins) = 0
    BY DEF SubOf
  <1> HIDE DEF b, ins
  <1>10. IsAssembler(b) /\ b.frameSize = a.frameSize
    BY <1>6, <1>8 DEF Says, Emits
  <1>11. /\ Decoded(recorded) = Decoded(a) /\ Decodes(recorded)
    BY <1>5 DEF CodeOK, Decodes, Decoded
  <1>12. /\ Loaded(recorded) = Loaded(a) /\ Relative(recorded) = Relative(a)
         /\ ReservedBy(recorded) = a.frameSize
    BY <1>5, <1>11 DEF Loaded, Relative, ReservedBy, CodeOK
  <1>13. /\ Loaded(b) = Loaded(recorded)
         /\ Relative(b) = Relative(recorded) \cup {new}
         /\ ReservedBy(b) = ReservedBy(recorded) + SubOf(ins)
    BY <1>6, <1>8, <1>9, <1>11, SaysAdds
  <1>14. Decodes(b) /\ Continues(recorded, b)
    BY <1>6, <1>8, <1>10, <1>11, SaysDecodes, SaysContinues
  <1>15. Continues(a, b)
    <2>1. EntryOK(a) => EntryOK(recorded)
      BY <1>5, <1>11 DEF EntryOK
    <2> QED
      BY <1>5, <1>14, <2>1 DEF Continues
  <1>16. CodeOK(b)
    <2>1. a.frameSize \in Nat
      BY DEF AsmOK, IsAssembler
    <2> QED
      BY <1>9, <1>10, <1>12, <1>13, <1>14, <2>1 DEF CodeOK
  <1>17. new.at = at /\ new.size = 5
    <2>1. CodeSize(recorded.code) \in Nat
      BY <1>6, AddressesFacts DEF IsAssembler
    <2> QED
      BY <1>5, <1>8, <2>1 DEF New
  <1>18. SitesOK(b)
    <2> DEFINE s == a.sites
               t == Append(s, mark)
               u == Append(t, call)
    <2>1. b.sites = u
      BY <1>3, <1>5, <1>8 DEF Says
    <2>2. IsSequence(s)
      BY DEF SitesOK
    <2>3. /\ mark.kind = "Mark" /\ mark.kind # "Call" /\ mark.pos = at
          /\ call.kind = "Call" /\ call.kind # "Mark" /\ call.pos = at
          /\ call.size = 5
      OBVIOUS
    <2>4. Relative(b) = Relative(a) \cup {new}
      BY <1>12, <1>13
    <2> HIDE DEF mark, call, new, s, t
    <2>5. /\ IsSequence(t)
          /\ SitesOf(t, "Mark") = SitesOf(s, "Mark") \cup {mark}
          /\ SitesOf(t, "Call") = SitesOf(s, "Call")
      BY <2>2, <2>3, SiteAppended DEF t
    <2> HIDE DEF u
    <2>6. /\ IsSequence(u)
          /\ SitesOf(u, "Mark") = SitesOf(t, "Mark")
          /\ SitesOf(u, "Call") = SitesOf(t, "Call") \cup {call}
      BY <2>3, <2>5, SiteAppended DEF u
    <2>7. /\ {[at |-> x.pos, size |-> x.size] : x \in SitesOf(s, "Call")}
               = {[at |-> d.at, size |-> d.size] : d \in Relative(a)}
          /\ {x.pos : x \in SitesOf(s, "Mark")} = {d.at : d \in Relative(a)}
      BY DEF SitesOK, s
    <2>8. {x.pos : x \in SitesOf(u, "Mark")} = {d.at : d \in Relative(b)}
      <3> DEFINE M == SitesOf(s, "Mark")
                 R == Relative(a)
      <3>1. SitesOf(u, "Mark") = M \cup {mark}
        BY <2>5, <2>6
      <3>2. {x.pos : x \in M \cup {mark}} = {x.pos : x \in M} \cup {mark.pos}
        OBVIOUS
      <3>3. {d.at : d \in R \cup {new}} = {d.at : d \in R} \cup {new.at}
        OBVIOUS
      <3>4. {x.pos : x \in M} = {d.at : d \in R}
        BY <2>7
      <3>5. mark.pos = new.at
        BY <1>17, <2>3
      <3> HIDE DEF M, R
      <3> QED
        BY <2>4, <3>1, <3>2, <3>3, <3>4, <3>5 DEF R
    <2>9. {[at |-> x.pos, size |-> x.size] : x \in SitesOf(u, "Call")}
             = {[at |-> d.at, size |-> d.size] : d \in Relative(b)}
      BY <1>17, <2>3, <2>4, <2>5, <2>6, <2>7
    <2> QED
      BY <2>1, <2>6, <2>8, <2>9 DEF SitesOK
  <1>19. b.listing = Append(a.listing, ins)
    BY <1>5, <1>8 DEF Says
  <1>20. Loaded(b) = Loaded(a)
    BY <1>12, <1>13
  <1> QED
    BY <1>1, <1>15, <1>16, <1>18, <1>19, <1>20 DEF ins

-----------------------------------------------------------------------------
(* The loads.                                                              *)

(* An operation that throws for want of a register emits nothing.          *)
EmitsNone(a, b) ==
  /\ Quiet(a, b)
  /\ b.code = a.code /\ b.listing = a.listing /\ b.sites = a.sites
  /\ b.frameSize = a.frameSize

LEMMA NewRegisterEmitsNone ==
  ASSUME NEW a, AsmOK(a), CodeOK(a)
  PROVE  EmitsNone(a, NewRegister(a))
  <1> DEFINE b == NewRegister(a)
  <1>1. /\ b.code = a.code /\ b.listing = a.listing /\ b.sites = a.sites
        /\ b.frameSize = a.frameSize
    BY DEF NewRegister, AsmOK, IsAssembler
  <1> HIDE DEF b
  <1>2. Quiet(a, b)
    BY <1>1, SameCode
  <1> QED
    BY <1>1, <1>2 DEF EmitsNone, b

LEMMA LoadLongLoads ==
  ASSUME NEW a, AsmOK(a), CodeOK(a), NEW c \in Int
  PROVE  LET b == EmitLoadLong(a, c)
             r == NextRegister(a)
         IN  /\ b.raised => EmitsNone(a, b)
             /\ ~b.raised => /\ Loads(a, b, r, c)
                             /\ b.listing = Append(a.listing, <<"LOAD", r, c>>)
  <1> DEFINE r      == NextRegister(a)
             drawn  == NewRegister(a)
             ins    == <<"LOAD", r, c>>
             b      == Emit(EmitBytes(EmitREX(Comment(drawn, ins),
                                              TRUE, 0, 0, r),
                                      << \hB8 + (r % 8) >>),
                            << LongItem(c) >>)
             ended  == EmitLoadLong(a, c)
  <1>1. ended = IF drawn.raised THEN drawn ELSE b
    BY DEF EmitLoadLong
  <1>2. Draws(a, drawn) /\ EmitsNone(a, drawn)
    BY NewRegisterDraws, NewRegisterEmitsNone
  <1> HIDE DEF drawn, ended
  <1>3. CASE drawn.raised
    BY <1>1, <1>2, <1>3 DEF ended
  <1>4. CASE ~drawn.raised
    <2>1. r \in GeneralRegisters
      BY <1>2, <1>4, NextRegisterGeneral DEF Draws
    <2> HIDE DEF r
    <2>2. IsAssembler(drawn) /\ CodeOK(drawn)
      BY <1>2 DEF Draws, AsmOK, EmitsNone, Quiet
    <2>3. Says(drawn, b, ins)
      BY <2>1, <2>2, LoadSays
    <2> HIDE DEF b
    <2>4. Loads(drawn, b, r, c)
      BY <2>2, <2>3, SaysLoads
    <2>5. b.listing = Append(a.listing, ins)
      BY <1>2, <2>3 DEF Says, EmitsNone
    <2>6. Loads(a, b, r, c)
      <3>1. Continues(a, b)
        BY <1>2, <2>4, ContinuesChain DEF EmitsNone, Quiet, Loads
      <3> QED
        BY <1>2, <2>4, <3>1 DEF EmitsNone, Quiet, Loads
    <2>7. ~b.raised
      BY <1>4, <2>3 DEF Says, Emits
    <2> QED
      BY <1>1, <1>4, <2>5, <2>6, <2>7 DEF ended, r, ins
  <1> QED
    BY <1>3, <1>4

LEMMA CallLoads ==
  ASSUME NEW a, AsmOK(a), CodeOK(a), NEW addr \in Int
  PROVE  LET b == EmitCall(a, addr)
             r == NextRegister(a)
         IN  /\ b.raised => EmitsNone(a, b)
             /\ ~b.raised => /\ Loads(a, b, r, addr)
                             /\ b.listing
                                  = Append(Append(a.listing,
                                                  <<"LOAD", r, addr>>),
                                           <<"CALL", r>>)
  <1> DEFINE r      == NextRegister(a)
             loaded == EmitLoadLong(a, addr)
             ins    == <<"CALL", r>>
             opcode == EmitBytes(Comment(loaded, ins), << \hFF >>)
             high   == EmitBytes(opcode, << \h41, \hD0 + (r - 8) >>)
             low    == EmitBytes(opcode, << \hD0 + r >>)
             b      == IF r >= 8 THEN high ELSE low
             ended  == EmitCall(a, addr)
  <1>1. ended = IF loaded.raised THEN loaded ELSE b
    BY DEF EmitCall
  <1>2. /\ Draws(a, loaded)
        /\ loaded.raised => EmitsNone(a, loaded)
        /\ ~loaded.raised => /\ Loads(a, loaded, r, addr)
                             /\ loaded.listing
                                  = Append(a.listing, <<"LOAD", r, addr>>)
    BY EmitLoadLongDraws, LoadLongLoads
  <1> HIDE DEF loaded, ended
  <1>3. CASE loaded.raised
    BY <1>1, <1>2, <1>3 DEF ended
  <1>4. CASE ~loaded.raised
    <2>1. r \in GeneralRegisters
      BY <1>2, <1>4, NextRegisterGeneral DEF Draws
    <2> HIDE DEF r
    <2>2. IsAssembler(loaded) /\ CodeOK(loaded)
      BY <1>2, <1>4 DEF Draws, AsmOK, Loads
    <2>3. Says(loaded, b, ins)
      <3>1. r >= 8 => Says(loaded, high, ins)
        BY <2>1, <2>2, CallSays
      <3>2. ~(r >= 8) => Says(loaded, low, ins)
        BY <2>1, <2>2, CallSays
      <3> QED
        BY <3>1, <3>2
    <2>4. ins[1] \notin {"LOAD", "CALLREL", "SUB"}
      OBVIOUS
    <2> HIDE DEF b, ins
    <2>5. Quiet(loaded, b)
      BY <2>2, <2>3, <2>4, SaysQuiet
    <2>6. Loads(a, b, r, addr)
      BY <1>2, <1>4, <2>5, LoadsQuiet
    <2>7. b.listing = Append(Append(a.listing, <<"LOAD", r, addr>>), ins)
      BY <1>2, <1>4, <2>3 DEF Says
    <2>8. ~b.raised
      BY <1>4, <2>3 DEF Says, Emits
    <2> QED
      BY <1>1, <1>4, <2>6, <2>7, <2>8 DEF ended, r, ins
  <1> QED
    BY <1>3, <1>4

-----------------------------------------------------------------------------
(* A new assembler.                                                        *)

LEMMA NewAssemblerOK ==
  /\ AsmOK(NewAssembler) /\ CodeOK(NewAssembler) /\ SitesOK(NewAssembler)
  /\ Loaded(NewAssembler) = {}
  /\ Len(NewAssembler.listing) = 0
  <1> DEFINE a == NewAssembler
  <1>1. AsmOK(a)
    BY DEF AsmOK, IsAssembler, FrameOK, NewAssembler, InitialFrameSize,
           StackAlignment, Stacked
  <1>2. /\ a.code = << >> /\ a.listing = << >> /\ a.sites = << >>
        /\ a.frameSize = InitialFrameSize
    BY DEF NewAssembler
  <1>3. /\ << >> \in Seq({}) /\ Len(<< >>) = 0 /\ << >> \in Seq(Items)
    OBVIOUS
  <1> HIDE DEF a
  <1>4. Decoded(a) = << >>
    BY <1>2, <1>3, DecodingEmpty, DisassemblyIs DEF Decoded
  <1>5. IsSequence(<< >>)
    BY <1>3 DEF IsSequence
  <1>6. Decodes(a)
    BY <1>2, <1>3, <1>4, <1>5, DecodingEmpty DEF Decodes
  <1>7. Loaded(a) = {} /\ Relative(a) = {}
    BY <1>2, <1>3, <1>4 DEF Loaded, Relative
  <1>8. ReservedBy(a) = a.frameSize
    <2>1. Len(InstructionsOf(<< >>)) = 0
      BY DEF InstructionsOf
    <2> QED
      BY <1>2, <1>4, <2>1, ReservedEmpty DEF ReservedBy
  <1>9. SitesOK(a)
    <2>1. SitesOf(<< >>, "Call") = {} /\ SitesOf(<< >>, "Mark") = {}
      BY <1>3 DEF SitesOf
    <2> QED
      BY <1>2, <1>5, <1>7, <2>1 DEF SitesOK
  <1> QED
    BY <1>1, <1>2, <1>3, <1>6, <1>7, <1>8, <1>9 DEF CodeOK, a

=============================================================================
