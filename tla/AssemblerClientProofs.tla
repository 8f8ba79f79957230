------------------------ MODULE AssemblerClientProofs ------------------------
(***************************************************************************)
(* Proofs about AssemblerClient, for any number of operations and any      *)
(* values and sizes, from the lemmas of AssemblerProofs about each         *)
(* operation.                                                              *)
(***************************************************************************)
EXTENDS AssemblerClient, AssemblerProofs, FiniteSetTheorems

(* Every register the client was given is one drawn before.                *)
LoadsOK ==
  /\ loads \in Seq([register : GeneralRegisters, value : Longs])
  /\ \A k \in 1 .. Len(loads) :
       \E m \in 1 .. Len(Registers) :
          m <= asm.nextRegister /\ loads[k].register = Registers[m]
  /\ \A k, l \in 1 .. Len(loads) :
       loads[k].register = loads[l].register => k = l

ClientInv ==
  /\ AsmOK(asm)
  /\ LoadsOK
  /\ ops \in 0 .. MaxOperations

(* No two loads in the code have the same register, and their registers    *)
(* have been drawn.                                                        *)
LoadsDiffer(a) ==
  /\ \A p \in Loaded(a) : \E m \in 1 .. 6 :
       m <= a.nextRegister /\ p[2][2] = Registers[m]
  /\ \A p, q \in Loaded(a) : p[2][2] = q[2][2] => p = q

(* What the client was given is loaded somewhere in the code.              *)
LoadsPlaced ==
  \A k \in 1 .. Len(loads) : \E p \in Loaded(asm) :
     p[2] = <<"LOAD", loads[k].register, loads[k].value>>

CodeInv ==
  CodeOK(asm) /\ SitesOK(asm) /\ LoadsDiffer(asm) /\ LoadsPlaced

-----------------------------------------------------------------------------
(* The client.                                                             *)

LEMMA CalledOK ==
  ASSUME AsmOK(asm)
  PROVE  AsmOK(Called) /\ Called.nextRegister = asm.nextRegister
  <1>1. IsAssembler(Called)
    BY DEF AsmOK, IsAssembler, Called
  <1>2. /\ Called.slots = asm.slots /\ Called.frameSize = asm.frameSize
        /\ Called.curStackSlot = asm.curStackSlot
        /\ Called.deoptRescue = asm.deoptRescue
        /\ Called.nextRegister = asm.nextRegister
    BY DEF AsmOK, IsAssembler, Called
  <1>3. FrameOK(Called)
    BY <1>2 DEF AsmOK, FrameOK
  <1> QED
    BY <1>1, <1>2, <1>3 DEF AsmOK

LEMMA InitClientInv ==
  ASSUME Init
  PROVE  ClientInv
  <1>1. LoadsOK
    BY DEF Init, LoadsOK
  <1>2. ops \in 0 .. MaxOperations
    BY ClientAssumption DEF Init
  <1> QED
    BY <1>1, <1>2, NewAssemblerOK DEF Init, ClientInv

(* What the client knows of its registers outlives every operation that    *)
(* tells it of no other.                                                   *)
LEMMA LoadsKept ==
  ASSUME AsmOK(asm), AsmOK(asm'), LoadsOK, loads' = loads,
         asm'.nextRegister >= asm.nextRegister
  PROVE  LoadsOK'
  <1>1. asm.nextRegister \in Nat /\ asm'.nextRegister \in Nat
    BY DEF AsmOK, IsAssembler
  <1>2. \A k \in 1 .. Len(loads) :
          \E m \in 1 .. Len(Registers) :
             m <= asm'.nextRegister /\ loads[k].register = Registers[m]
    <2> TAKE k \in 1 .. Len(loads)
    <2>1. PICK m \in 1 .. Len(Registers) :
             m <= asm.nextRegister /\ loads[k].register = Registers[m]
      BY DEF LoadsOK
    <2>2. m <= asm'.nextRegister
      BY <1>1, <2>1, RegistersDiffer
    <2> QED
      BY <2>1, <2>2
  <1> QED
    BY <1>2 DEF LoadsOK

LEMMA KeepsInv ==
  ASSUME ClientInv, Keeps(Called, asm'), loads' = loads
  PROVE  (AsmOK(asm) /\ LoadsOK)'
  <1>1. AsmOK(asm') /\ asm'.nextRegister = asm.nextRegister
    BY CalledOK DEF ClientInv, Keeps
  <1>2. asm.nextRegister \in Nat
    BY DEF ClientInv, AsmOK, IsAssembler
  <1> QED
    BY <1>1, <1>2, LoadsKept DEF ClientInv

LEMMA CallInv ==
  ASSUME ClientInv, NEW addr \in Longs, Call(addr)
  PROVE  (AsmOK(asm) /\ LoadsOK)'
  <1>1. AsmOK(Called) /\ Called.nextRegister = asm.nextRegister /\ addr \in Int
    BY CalledOK, ClientAssumption DEF ClientInv
  <1>2. Draws(Called, asm')
    BY <1>1, EmitCallDraws DEF Call
  <1>3. asm.nextRegister \in Nat
    BY DEF ClientInv, AsmOK, IsAssembler
  <1>4. AsmOK(asm') /\ asm'.nextRegister >= asm.nextRegister
    BY <1>1, <1>2, <1>3 DEF Draws
  <1> QED
    BY <1>4, LoadsKept DEF ClientInv, Call

LEMMA LoadLongInv ==
  ASSUME ClientInv, NEW c \in Longs, LoadLong(c)
  PROVE  (AsmOK(asm) /\ LoadsOK)'
  <1> DEFINE given == [register |-> NextRegister(asm), value |-> c]
  <1>1. AsmOK(Called) /\ Called.nextRegister = asm.nextRegister /\ c \in Int
    BY CalledOK, ClientAssumption DEF ClientInv
  <1>2. Draws(Called, asm')
    BY <1>1, EmitLoadLongDraws DEF LoadLong
  <1>3. asm.nextRegister \in Nat /\ AsmOK(asm) /\ LoadsOK
    BY DEF ClientInv, AsmOK, IsAssembler
  <1>4. /\ AsmOK(asm') /\ asm'.nextRegister = asm.nextRegister + 1
        /\ asm'.raised <=> asm.nextRegister >= 6
    BY <1>1, <1>2 DEF Draws
  <1>5. loads' = IF asm'.raised THEN loads ELSE Append(loads, given)
    BY DEF LoadLong
  <1>6. CASE asm'.raised
    BY <1>3, <1>4, <1>5, <1>6, LoadsKept
  <1>7. CASE ~asm'.raised
    <2>1. /\ asm.nextRegister + 1 \in 1 .. 6
          /\ NextRegister(asm) = Registers[asm.nextRegister + 1]
          /\ NextRegister(asm) \in GeneralRegisters
      BY <1>3, <1>4, <1>7, NextRegisterGeneral
    <2>2. /\ given \in [register : GeneralRegisters, value : Longs]
          /\ given.register = Registers[asm.nextRegister + 1]
      BY <2>1
    <2> HIDE DEF given
    <2>3. loads \in Seq([register : GeneralRegisters, value : Longs])
      BY <1>3 DEF LoadsOK
    <2>4. /\ loads' \in Seq([register : GeneralRegisters, value : Longs])
          /\ Len(loads') = Len(loads) + 1
          /\ loads'[Len(loads')] = given
          /\ \A k \in 1 .. Len(loads) : loads'[k] = loads[k]
      BY <1>5, <1>7, <2>2, <2>3
    <2>5. \A k \in 1 .. Len(loads') : k \in 1 .. Len(loads) \/ k = Len(loads')
      BY <2>3, <2>4
    <2>6. ASSUME NEW k \in 1 .. Len(loads)
          PROVE  \E m \in 1 .. 6 : /\ m <= asm.nextRegister
                                   /\ loads'[k].register = Registers[m]
      BY <1>3, <2>4, RegistersDiffer DEF LoadsOK
    <2>7. ASSUME NEW k \in 1 .. Len(loads')
          PROVE  \E m \in 1 .. 6 : /\ m <= asm'.nextRegister
                                   /\ loads'[k].register = Registers[m]
      <3>1. CASE k = Len(loads')
        <4>1. asm.nextRegister + 1 <= asm'.nextRegister
          BY <1>3, <1>4
        <4> QED
          BY <2>1, <2>2, <2>4, <3>1, <4>1
      <3>2. CASE k \in 1 .. Len(loads)
        <4>1. PICK m \in 1 .. 6 : /\ m <= asm.nextRegister
                                  /\ loads'[k].register = Registers[m]
          BY <2>6, <3>2
        <4>2. m <= asm'.nextRegister
          BY <1>3, <1>4, <4>1
        <4> QED
          BY <4>1, <4>2
      <3> QED
        BY <2>5, <3>1, <3>2
    <2>8. ASSUME NEW k \in 1 .. Len(loads)
          PROVE  loads'[k].register # given.register
      <3>1. PICK m \in 1 .. 6 : /\ m <= asm.nextRegister
                                /\ loads'[k].register = Registers[m]
        BY <2>6
      <3>2. m # asm.nextRegister + 1
        BY <1>3, <3>1
      <3> QED
        BY <2>1, <2>2, <3>1, <3>2, RegistersDiffer
    <2>9. \A k, l \in 1 .. Len(loads') :
             loads'[k].register = loads'[l].register => k = l
      <3> SUFFICES ASSUME NEW k \in 1 .. Len(loads'),
                          NEW l \in 1 .. Len(loads'),
                          loads'[k].register = loads'[l].register
                   PROVE  k = l
        OBVIOUS
      <3>1. CASE k \in 1 .. Len(loads) /\ l \in 1 .. Len(loads)
        BY <1>3, <2>4, <3>1 DEF LoadsOK
      <3>2. CASE k = Len(loads') /\ l \in 1 .. Len(loads)
        BY <2>4, <2>8, <3>2
      <3>3. CASE k \in 1 .. Len(loads) /\ l = Len(loads')
        BY <2>4, <2>8, <3>3
      <3> QED
        BY <2>5, <3>1, <3>2, <3>3
    <2>10. LoadsOK'
      BY <2>4, <2>7, <2>9, RegistersDiffer DEF LoadsOK
    <2> QED
      BY <1>4, <2>10
  <1> QED
    BY <1>6, <1>7

LEMMA NextClientInv ==
  ASSUME ClientInv, [Next]_vars
  PROVE  ClientInv'
  <1>1. CASE Next
    <2>1. ops' \in 0 .. MaxOperations
      BY <1>1, ClientAssumption DEF ClientInv, Next
    <2>2. AsmOK(Called)
      BY CalledOK DEF ClientInv
    <2>3. ASSUME Prologue
          PROVE  (AsmOK(asm) /\ LoadsOK)'
      BY <2>2, <2>3, EmitPrologueKeeps, KeepsInv DEF Prologue
    <2>4. ASSUME Epilogue
          PROVE  (AsmOK(asm) /\ LoadsOK)'
      BY <2>2, <2>4, EmitEpilogueKeeps, KeepsInv DEF Epilogue
    <2>5. ASSUME NEW addr \in Longs, Call(addr)
          PROVE  (AsmOK(asm) /\ LoadsOK)'
      BY <2>5, CallInv
    <2>6. ASSUME NEW c \in Longs, LoadLong(c)
          PROVE  (AsmOK(asm) /\ LoadsOK)'
      BY <2>6, LoadLongInv
    <2>7. ASSUME NEW r \in ReturnRegisters, IntRet(r)
          PROVE  (AsmOK(asm) /\ LoadsOK)'
      <3>1. r \in Int
        BY ClientAssumption DEF GeneralRegisters
      <3> QED
        BY <2>2, <2>7, <3>1, EmitIntRetKeeps, KeepsInv DEF IntRet
    <2>8. ASSUME NEW n \in SlotSizes, NewSlot(n)
          PROVE  (AsmOK(asm) /\ LoadsOK)'
      <3>1. n \in Nat \ {0}
        BY ClientAssumption
      <3>2. Keeps(Called, asm')
        BY <2>2, <2>8, <3>1, NewStackSlotOK DEF NewSlot, Keeps
      <3> QED
        BY <2>8, <3>2, KeepsInv DEF NewSlot
    <2>9. (AsmOK(asm) /\ LoadsOK)'
      BY <1>1, <2>3, <2>4, <2>5, <2>6, <2>7, <2>8 DEF Next
    <2> QED
      BY <2>1, <2>9 DEF ClientInv
  <1>2. CASE UNCHANGED vars
    BY <1>2 DEF vars, ClientInv, LoadsOK
  <1> QED
    BY <1>1, <1>2

LEMMA Invariance == Spec => []ClientInv
  <1> QED
    BY InitClientInv, NextClientInv, PTL DEF Spec

-----------------------------------------------------------------------------
(* The code.                                                               *)

LEMMA CalledCode ==
  ASSUME AsmOK(asm), CodeOK(asm)
  PROVE  /\ Quiet(asm, Called) /\ Called.nextRegister = asm.nextRegister
         /\ NextRegister(Called) = NextRegister(asm)
  <1>1. /\ Called.code = asm.code /\ Called.listing = asm.listing
        /\ Called.sites = asm.sites /\ Called.frameSize = asm.frameSize
        /\ Called.nextRegister = asm.nextRegister
    BY DEF AsmOK, IsAssembler, Called
  <1> QED
    BY <1>1, SameCode DEF NextRegister

(* Loads that differ still do when the code and the registers go on.       *)
LEMMA DifferKept ==
  ASSUME NEW a, NEW b, LoadsDiffer(a), Loaded(b) = Loaded(a),
         a.nextRegister \in Nat, b.nextRegister \in Nat,
         b.nextRegister >= a.nextRegister
  PROVE  LoadsDiffer(b)
  <1>1. \A m \in 1 .. 6 : m <= a.nextRegister => m <= b.nextRegister
    OBVIOUS
  <1> QED
    BY <1>1 DEF LoadsDiffer

(* A drawn register has been loaded by no instruction before.              *)
LEMMA DifferDrawn ==
  ASSUME NEW a, NEW b, NEW c, AsmOK(a), LoadsDiffer(a), Draws(a, b),
         ~b.raised, Loads(a, b, NextRegister(a), c)
  PROVE  LoadsDiffer(b)
  <1> DEFINE r   == NextRegister(a)
             n   == a.nextRegister
             new == << Len(a.listing) + 1, <<"LOAD", r, c>> >>
  <1>1. n \in Nat /\ b.nextRegister = n + 1 /\ ~(n >= 6)
    BY DEF Draws, AsmOK, IsAssembler
  <1>2. n + 1 \in 1 .. 6 /\ r = Registers[n + 1]
    BY <1>1, NextRegisterGeneral
  <1>3. Loaded(b) = Loaded(a) \cup {new}
    BY DEF Loads
  <1>4. new[2][2] = r
    OBVIOUS
  <1> HIDE DEF r, n, new
  <1>5. ASSUME NEW p \in Loaded(a)
        PROVE  /\ \E m \in 1 .. 6 : /\ m <= b.nextRegister
                                    /\ p[2][2] = Registers[m]
               /\ p[2][2] # r
    <2>1. PICK m \in 1 .. 6 : m <= n /\ p[2][2] = Registers[m]
      BY DEF LoadsDiffer, n
    <2>2. m <= b.nextRegister /\ m # n + 1
      BY <1>1, <2>1
    <2> QED
      BY <1>2, <2>1, <2>2, RegistersDiffer
  <1>6. \E m \in 1 .. 6 : m <= b.nextRegister /\ new[2][2] = Registers[m]
    BY <1>1, <1>2, <1>4
  <1>7. \A p \in Loaded(b) : \E m \in 1 .. 6 :
           m <= b.nextRegister /\ p[2][2] = Registers[m]
    BY <1>3, <1>5, <1>6
  <1>8. \A p, q \in Loaded(a) : p[2][2] = q[2][2] => p = q
    BY DEF LoadsDiffer
  <1>9. \A p, q \in Loaded(b) : p[2][2] = q[2][2] => p = q
    BY <1>3, <1>4, <1>5, <1>8
  <1> QED
    BY <1>7, <1>9 DEF LoadsDiffer

LEMMA QuietInv ==
  ASSUME ClientInv, CodeInv, Quiet(Called, asm'), Keeps(Called, asm'),
         loads' = loads
  PROVE  CodeInv'
  <1>1. Quiet(asm, Called) /\ Called.nextRegister = asm.nextRegister
    BY CalledCode DEF ClientInv, CodeInv
  <1>2. Quiet(asm, asm')
    BY <1>1, QuietChain
  <1>3. CodeOK(asm') /\ SitesOK(asm')
    BY <1>2, QuietSites DEF Quiet, CodeInv
  <1>4. asm.nextRegister \in Nat /\ asm'.nextRegister = asm.nextRegister
    BY <1>1 DEF ClientInv, AsmOK, IsAssembler, Keeps
  <1>5. LoadsDiffer(asm')
    BY <1>2, <1>4, DifferKept DEF Quiet, CodeInv
  <1>6. LoadsPlaced'
    BY <1>2 DEF Quiet, CodeInv, LoadsPlaced
  <1> QED
    BY <1>3, <1>5, <1>6 DEF CodeInv

LEMMA EpilogueCode ==
  ASSUME ClientInv, CodeInv, Epilogue
  PROVE  CodeInv'
  <1>1. Quiet(asm, Called) /\ Called.nextRegister = asm.nextRegister
    BY CalledCode DEF ClientInv, CodeInv
  <1>2. AsmOK(Called) /\ CodeOK(Called) /\ SitesOK(Called)
    BY <1>1, CalledOK, QuietSites DEF ClientInv, CodeInv, Quiet
  <1>3. asm' = EmitEpilogue(Called) /\ loads' = loads
    BY DEF Epilogue
  <1>4. /\ CodeOK(asm') /\ SitesOK(asm') /\ Loaded(asm') = Loaded(asm)
    BY <1>1, <1>2, <1>3, EpilogueSites DEF Quiet
  <1>5. asm.nextRegister \in Nat /\ asm'.nextRegister = asm.nextRegister
    BY <1>1, <1>2, <1>3, EmitEpilogueKeeps
       DEF ClientInv, AsmOK, IsAssembler, Keeps
  <1>6. LoadsDiffer(asm')
    BY <1>4, <1>5, DifferKept DEF CodeInv
  <1>7. LoadsPlaced'
    BY <1>3, <1>4 DEF CodeInv, LoadsPlaced
  <1> QED
    BY <1>4, <1>6, <1>7 DEF CodeInv

(* What a call or a load leaves behind, whether it throws or not.          *)
LEMMA DrawnCode ==
  ASSUME ClientInv, CodeInv, NEW c, Draws(Called, asm'),
         asm'.raised => EmitsNone(Called, asm'),
         ~asm'.raised => Loads(Called, asm', NextRegister(Called), c)
  PROVE  /\ CodeOK(asm') /\ SitesOK(asm') /\ LoadsDiffer(asm')
         /\ Loaded(asm) \subseteq Loaded(asm')
         /\ ~asm'.raised => \E p \in Loaded(asm') :
                               p[2] = <<"LOAD", NextRegister(asm), c>>
  <1>1. /\ Quiet(asm, Called) /\ Called.nextRegister = asm.nextRegister
        /\ NextRegister(Called) = NextRegister(asm)
    BY CalledCode DEF ClientInv, CodeInv
  <1>2. AsmOK(Called) /\ SitesOK(Called) /\ LoadsDiffer(Called)
    <2>1. asm.nextRegister \in Nat
      BY DEF ClientInv, AsmOK, IsAssembler
    <2> QED
      BY <1>1, <2>1, CalledOK, QuietSites, DifferKept
         DEF ClientInv, CodeInv, Quiet
  <1>3. /\ Called.nextRegister \in Nat
        /\ asm'.nextRegister = Called.nextRegister + 1
    BY <1>2 DEF Draws, AsmOK, IsAssembler
  <1>4. CASE asm'.raised
    <2>1. Quiet(Called, asm')
      BY <1>4 DEF EmitsNone
    <2>2. CodeOK(asm') /\ SitesOK(asm') /\ Loaded(asm') = Loaded(Called)
      BY <1>2, <2>1, QuietSites DEF Quiet
    <2>3. LoadsDiffer(asm')
      <3>1. /\ asm'.nextRegister \in Nat
            /\ asm'.nextRegister >= Called.nextRegister
        BY <1>3
      <3> QED
        BY <1>2, <1>3, <2>2, <3>1, DifferKept
    <2> QED
      BY <1>1, <1>4, <2>2, <2>3 DEF Quiet
  <1>5. CASE ~asm'.raised
    <2>1. Loads(Called, asm', NextRegister(Called), c)
      BY <1>5
    <2>2. CodeOK(asm') /\ SitesOK(asm')
      BY <1>2, <2>1, LoadsSites DEF Loads
    <2>3. LoadsDiffer(asm')
      BY <1>2, <1>5, <2>1, DifferDrawn
    <2> DEFINE ins == <<"LOAD", NextRegister(asm), c>>
               new == << Len(Called.listing) + 1, ins >>
    <2>4. Loaded(asm') = Loaded(asm) \cup {new}
      BY <1>1, <2>1 DEF Loads, Quiet
    <2>5. new[2] = ins
      OBVIOUS
    <2> HIDE DEF new
    <2> QED
      BY <1>5, <2>2, <2>3, <2>4, <2>5
  <1> QED
    BY <1>4, <1>5

LEMMA CallCode ==
  ASSUME ClientInv, CodeInv, NEW addr \in Longs, Call(addr)
  PROVE  CodeInv'
  <1>1. addr \in Int /\ AsmOK(Called) /\ CodeOK(Called)
    BY CalledOK, CalledCode, ClientAssumption DEF ClientInv, CodeInv, Quiet
  <1>2. asm' = EmitCall(Called, addr) /\ loads' = loads
    BY DEF Call
  <1>3. /\ Draws(Called, asm')
        /\ asm'.raised => EmitsNone(Called, asm')
        /\ ~asm'.raised => Loads(Called, asm', NextRegister(Called), addr)
    BY <1>1, <1>2, EmitCallDraws, CallLoads
  <1>4. /\ CodeOK(asm') /\ SitesOK(asm') /\ LoadsDiffer(asm')
        /\ Loaded(asm) \subseteq Loaded(asm')
    BY <1>3, DrawnCode
  <1>5. LoadsPlaced'
    BY <1>2, <1>4 DEF CodeInv, LoadsPlaced
  <1> QED
    BY <1>4, <1>5 DEF CodeInv

LEMMA LoadLongCode ==
  ASSUME ClientInv, CodeInv, NEW c \in Longs, LoadLong(c)
  PROVE  CodeInv'
  <1> DEFINE given == [register |-> NextRegister(asm), value |-> c]
             ins   == <<"LOAD", NextRegister(asm), c>>
  <1>1. c \in Int /\ AsmOK(Called) /\ CodeOK(Called)
    BY CalledOK, CalledCode, ClientAssumption DEF ClientInv, CodeInv, Quiet
  <1>2. /\ asm' = EmitLoadLong(Called, c)
        /\ loads' = IF asm'.raised THEN loads ELSE Append(loads, given)
    BY DEF LoadLong
  <1>3. /\ Draws(Called, asm')
        /\ asm'.raised => EmitsNone(Called, asm')
        /\ ~asm'.raised => Loads(Called, asm', NextRegister(Called), c)
    BY <1>1, <1>2, EmitLoadLongDraws, LoadLongLoads
  <1>4. /\ CodeOK(asm') /\ SitesOK(asm') /\ LoadsDiffer(asm')
        /\ Loaded(asm) \subseteq Loaded(asm')
        /\ ~asm'.raised => \E p \in Loaded(asm') : p[2] = ins
    BY <1>3, DrawnCode
  <1>5. \A k \in 1 .. Len(loads) : \E p \in Loaded(asm') :
           p[2] = <<"LOAD", loads[k].register, loads[k].value>>
    BY <1>4 DEF CodeInv, LoadsPlaced
  <1>6. CASE asm'.raised
    BY <1>2, <1>4, <1>5, <1>6 DEF CodeInv, LoadsPlaced
  <1>7. CASE ~asm'.raised
    <2>1. IsSequence(loads)
      BY DEF ClientInv, LoadsOK, IsSequence
    <2>2. /\ Len(loads) \in Nat /\ Len(loads') = Len(loads) + 1
          /\ loads'[Len(loads) + 1] = given
          /\ \A k \in 1 .. Len(loads) : loads'[k] = loads[k]
      BY <1>2, <1>7, <2>1, SequenceAppended
    <2>3. ins = <<"LOAD", given.register, given.value>>
      OBVIOUS
    <2> HIDE DEF ins, given
    <2>4. ASSUME NEW k \in 1 .. Len(loads')
          PROVE  \E p \in Loaded(asm') :
                    p[2] = <<"LOAD", loads'[k].register, loads'[k].value>>
      <3>1. CASE k \in 1 .. Len(loads)
        BY <1>5, <2>2, <3>1
      <3>2. CASE k = Len(loads) + 1
        BY <1>4, <1>7, <2>2, <2>3, <3>2
      <3> QED
        BY <2>2, <3>1, <3>2
    <2>5. LoadsPlaced'
      BY <2>4 DEF LoadsPlaced
    <2> QED
      BY <1>4, <2>5 DEF CodeInv
  <1> QED
    BY <1>6, <1>7

LEMMA InitCodeInv ==
  ASSUME Init
  PROVE  CodeInv
  BY NewAssemblerOK DEF Init, CodeInv, LoadsDiffer, LoadsPlaced

LEMMA NextCodeInv ==
  ASSUME ClientInv, CodeInv, [Next]_vars
  PROVE  CodeInv'
  <1>1. AsmOK(Called) /\ CodeOK(Called)
    BY CalledOK, CalledCode DEF ClientInv, CodeInv, Quiet
  <1>2. CASE Prologue
    BY <1>1, <1>2, EmitPrologueKeeps, PrologueQuiet, QuietInv DEF Prologue
  <1>3. CASE Epilogue
    BY <1>3, EpilogueCode
  <1>4. ASSUME NEW addr \in Longs, Call(addr)
        PROVE  CodeInv'
    BY <1>4, CallCode
  <1>5. ASSUME NEW c \in Longs, LoadLong(c)
        PROVE  CodeInv'
    BY <1>5, LoadLongCode
  <1>6. ASSUME NEW r \in ReturnRegisters, IntRet(r)
        PROVE  CodeInv'
    <2>1. r \in GeneralRegisters /\ r \in Int
      BY ClientAssumption DEF GeneralRegisters
    <2>2. asm' = EmitIntRet(Called, r) /\ loads' = loads
      BY <1>6 DEF IntRet
    <2>3. Keeps(Called, asm')
      BY <1>1, <2>1, <2>2, EmitIntRetKeeps
    <2>4. Quiet(Called, asm')
      BY <1>1, <2>1, <2>2, IntRetQuiet
    <2> QED
      BY <2>2, <2>3, <2>4, QuietInv
  <1>7. ASSUME NEW n \in SlotSizes, NewSlot(n)
        PROVE  CodeInv'
    <2>1. n \in Nat \ {0}
      BY ClientAssumption
    <2>2. asm' = NewStackSlot(Called, n) /\ loads' = loads
      BY <1>7 DEF NewSlot
    <2>3. Keeps(Called, asm')
      BY <1>1, <2>1, <2>2, NewStackSlotOK DEF Keeps
    <2>4. Quiet(Called, asm')
      BY <1>1, <2>1, <2>2, NewStackSlotQuiet
    <2> QED
      BY <2>2, <2>3, <2>4, QuietInv
  <1>8. CASE UNCHANGED vars
    BY <1>8 DEF vars, CodeInv, LoadsPlaced
  <1> QED
    BY <1>2, <1>3, <1>4, <1>5, <1>6, <1>7, <1>8 DEF Next

LEMMA CodeInvariance == Spec => []CodeInv
  <1> QED
    BY InitClientInv, NextClientInv, InitCodeInv, NextCodeInv, PTL DEF Spec

-----------------------------------------------------------------------------

(* The assembler stays a well-formed record of bytes, ints and longs.      *)
THEOREM ClientTypeCorrect == Spec => []TypeOK
  <1>1. ASSUME ClientInv
        PROVE  TypeOK
    <2>1. asm.code \in Seq(Items)
      BY <1>1 DEF ClientInv, AsmOK, IsAssembler
    <2>2. Elements(asm.code) \subseteq Items
      BY <2>1 DEF Elements
    <2>3. /\ asm.frameSize \in Nat /\ asm.curStackSlot \in Nat
          /\ asm.nextRegister \in Nat /\ asm.raised \in BOOLEAN
      BY <1>1 DEF ClientInv, AsmOK, IsAssembler
    <2>4. loads \in Seq([register : GeneralRegisters, value : Longs])
      BY <1>1 DEF ClientInv, LoadsOK
    <2>5. Elements(loads) \subseteq [register : GeneralRegisters, value : Longs]
      <3> DEFINE Load == [register : GeneralRegisters, value : Longs]
      <3>1. loads \in Seq(Load)
        BY <2>4
      <3> HIDE DEF Load
      <3>2. Elements(loads) \subseteq Load
        BY <3>1 DEF Elements
      <3> QED
        BY <3>2 DEF Load
    <2>6. ops \in 0 .. MaxOperations
      BY <1>1 DEF ClientInv
    <2> QED
      BY <2>2, <2>3, <2>5, <2>6 DEF TypeOK, Items
  <1> QED
    BY <1>1, Invariance, PTL

(* Whatever slots newStackSlot is asked for, in any order and between any  *)
(* operations: they lie in the frame without overlapping, the rescue slot  *)
(* is one of them, and the frame is aligned and no larger than needed.     *)
THEOREM SlotsNeverOverlap == Spec => []SlotsLaidOut
  <1>1. ASSUME ClientInv
        PROVE  SlotsLaidOut
    <2>1. asm.slots \in Seq(Slots) /\ FrameOK(asm)
      BY <1>1 DEF ClientInv, AsmOK, IsAssembler
    <2>2. DOMAIN asm.slots = 1 .. Len(asm.slots)
      BY <2>1
    <2>3. asm.deoptRescue \in {NoSlot} \cup Elements(asm.slots)
      BY <2>1, <2>2 DEF FrameOK, Elements
    <2> QED
      BY <2>1, <2>2, <2>3 DEF FrameOK, Stacked, SlotsLaidOut
  <1> QED
    BY <1>1, Invariance, PTL

(* newRegister gives no register to the client twice, also after it has    *)
(* run out of registers and thrown.                                        *)
THEOREM RegistersGivenOnce == Spec => []NoRegisterTwice
  <1>1. ASSUME ClientInv
        PROVE  NoRegisterTwice
    <2>1. /\ loads \in Seq([register : GeneralRegisters, value : Longs])
          /\ \A k, l \in 1 .. Len(loads) :
                loads[k].register = loads[l].register => k = l
      BY <1>1 DEF ClientInv, LoadsOK
    <2>2. DOMAIN loads = 1 .. Len(loads)
      BY <2>1
    <2> QED
      BY <2>1, <2>2 DEF NoRegisterTwice
  <1> QED
    BY <1>1, Invariance, PTL

(* The processor decodes the code into the instructions that the comments  *)
(* beside the emissions name, as long as no call goes through r8 or above; *)
(* and every register that emitLoadLong gave the client is loaded once in  *)
(* all of the code, with the client's value.                               *)
THEOREM CodeDecodesAsCommented == Spec => []DecodesAsCommented
  <1>1. ASSUME ClientInv, CodeInv
        PROVE  DecodesAsCommented
    <2> DEFINE ins == Instructions(asm.code)
               l   == asm.listing
               n   == Len(l)
               loadsOf(r) == {i \in DOMAIN ins :
                                ins[i][1] = "LOAD" /\ ins[i][2] = r}
    <2>1. Decodes(asm) /\ LoadsDiffer(asm) /\ LoadsPlaced
      BY <1>1 DEF CodeInv, CodeOK
    <2> SUFFICES ASSUME ~CallsThroughHighRegister
                 PROVE  /\ ins = l
                        /\ \A k \in DOMAIN loads :
                             /\ {ins[i] : i \in loadsOf(loads[k].register)}
                                  = {<<"LOAD", loads[k].register,
                                       loads[k].value>>}
                             /\ Cardinality(loadsOf(loads[k].register)) = 1
      BY DEF DecodesAsCommented
    <2>2. /\ DOMAIN Decoded(asm) = 1 .. n /\ n \in Nat
          /\ IsSequence(l) /\ DOMAIN l = 1 .. n
      <3>1. IsSequence(Decoded(asm)) /\ IsSequence(l) /\ Len(Decoded(asm)) = n
        BY <2>1 DEF Decodes, Decoding
      <3> QED
        BY <3>1, SequenceAppended
    <2>3. ins = [i \in 1 .. n |-> Decoded(asm)[i].ins]
      BY <2>2 DEF Instructions, InstructionsOf, Decoded
    <2>4. \A i \in 1 .. n : Decoded(asm)[i].ins = l[i]
      <3> TAKE i \in 1 .. n
      <3>1. Decoded(asm)[i].ins = AsDecoded(l[i])
        BY <2>1 DEF Decodes
      <3>2. ~(l[i][1] = "CALL" /\ l[i][2] >= 8)
        BY <2>2 DEF CallsThroughHighRegister
      <3> QED
        BY <3>1, <3>2 DEF AsDecoded
    <2> HIDE DEF l
    <2>5. ins = l
      <3>1. PICK S : l \in Seq(S)
        BY <2>2 DEF IsSequence
      <3>2. l = [i \in 1 .. n |-> l[i]]
        BY <3>1
      <3> QED
        BY <2>3, <2>4, <3>2
    <2> HIDE DEF ins
    <2>6. Loaded(asm) = {<< i, l[i] >> : i \in {j \in 1 .. n :
                                                 l[j][1] = "LOAD"}}
      BY DEF Loaded, l
    <2>7. ASSUME NEW k \in DOMAIN loads
          PROVE  /\ {ins[i] : i \in loadsOf(loads[k].register)}
                      = {<<"LOAD", loads[k].register, loads[k].value>>}
                 /\ Cardinality(loadsOf(loads[k].register)) = 1
      <3> DEFINE r == loads[k].register
                 w == <<"LOAD", loads[k].register, loads[k].value>>
      <3>1. k \in 1 .. Len(loads)
        BY <1>1 DEF ClientInv, LoadsOK
      <3>2. PICK p \in Loaded(asm) : p[2] = w
        BY <2>1, <3>1 DEF LoadsPlaced
      <3>3. PICK i \in 1 .. n : l[i][1] = "LOAD" /\ p = << i, l[i] >>
        BY <2>6, <3>2
      <3>4. l[i] = w /\ w[1] = "LOAD" /\ w[2] = r
        BY <3>2, <3>3
      <3>5. ASSUME NEW j \in 1 .. n, l[j][1] = "LOAD", l[j][2] = r
            PROVE  j = i
        <4> DEFINE q == << j, l[j] >>
        <4>1. q \in Loaded(asm)
          BY <2>6, <3>5
        <4>2. q[2][2] = r /\ p[2][2] = r
          BY <3>2, <3>4, <3>5
        <4>3. q = p
          BY <2>1, <4>1, <4>2 DEF LoadsDiffer
        <4> QED
          BY <3>3, <4>3
      <3> HIDE DEF w, r
      <3>6. loadsOf(r) = {i}
        BY <2>2, <2>5, <3>3, <3>4, <3>5
      <3>7. ins[i] = w
        BY <2>5, <3>4
      <3>8. Cardinality({i}) = 1
        BY FS_Singleton
      <3>9. {ins[j] : j \in {i}} = {w}
        BY <3>7
      <3> HIDE DEF loadsOf
      <3> QED
        BY <3>6, <3>8, <3>9 DEF w, r
    <2> QED
      BY <2>5, <2>7
  <1> QED
    BY <1>1, Invariance, CodeInvariance, PTL

(* recordCall and recordMark name every five-byte call that the epilogues  *)
(* emit, at its position, and nothing else, whatever is emitted in between.*)
THEOREM SitesStayWithCalls == Spec => []SitesNameCalls
  <1>1. ASSUME CodeInv
        PROVE  SitesNameCalls
    <2> DEFINE D == Disassembly(asm.code)
    <2>1. SitesOK(asm) /\ IsSequence(D) /\ IsSequence(asm.sites)
      BY <1>1 DEF CodeInv, CodeOK, Decodes, Decoding, SitesOK, Decoded
    <2>2. DOMAIN D = 1 .. Len(D) /\ DOMAIN asm.sites = 1 .. Len(asm.sites)
      BY <2>1, SequenceAppended
    <2>3. Relative(asm) = {d \in Elements(D) : d.ins[1] = "CALLREL"}
      BY <2>2 DEF Relative, Decoded, Elements
    <2>4. \A kind : SitesOf(asm.sites, kind)
                      = {s \in Elements(asm.sites) : s.kind = kind}
      BY <2>2 DEF SitesOf, Elements
    <2> HIDE DEF D
    <2> QED
      BY <2>1, <2>3, <2>4 DEF SitesOK, SitesNameCalls, D
  <1> QED
    BY <1>1, CodeInvariance, PTL

(* The frame size HotSpot is told is the initial frame and what the code   *)
(* subtracts from rsp, and every stack slot lies in it.                    *)
THEOREM FrameIsReserved == Spec => []SlotsFit
  <1>1. ASSUME SlotsLaidOut, CodeInv
        PROVE  SlotsFit
    <2>1. asm.frameSize = Reserved(Instructions(asm.code))
      BY <1>1 DEF CodeInv, CodeOK, ReservedBy, Instructions, Decoded
    <2> QED
      BY <1>1, <2>1 DEF SlotsFit, Reserved
  <1> QED
    BY <1>1, SlotsNeverOverlap, CodeInvariance, PTL

=============================================================================
