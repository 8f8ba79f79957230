------------------------- MODULE NativeRuntimeProofs -------------------------
(***************************************************************************)
(* Proofs of the safety properties of NativeRuntime, for any number of     *)
(* threads, bitcodes and calls; and, at the end, of those of NativeHeap,   *)
(* whose steps are steps of NativeRuntime or leave it unchanged.           *)
(***************************************************************************)
EXTENDS NativeHeap, TLAPS

(* "exited" is left to those who extend the module.                        *)
Processes == {"running", "aborted", "crashed", "terminated", "undefined",
              "corrupted", "exited"}

Modes == {"running", "returning", "throwing"}

(* The objects in a scope, and those of LLVM and Java.                     *)
ScopeKinds == {"context", "array", "module", "string", "engine"}
LiveKinds  == {"context", "module", "engine", "state", "machine"}

Args == {<< >>} \cup UNION {Arguments(op) : op \in Operations}

Frames ==
  [ op : Operations \cup {"none"}, n : Nat, arg : Args, next : Nat,
    mode : Modes, scope : Seq(ScopeKinds \X Nat) ]

Kinds(s) == {s[i][1] : i \in 1 .. Len(s)}

Listings == {"toLLVMAssemblyCode", "toMachineAssemblyCode"}

(* An object of kind k may be older than one of kind l in the scope of a   *)
(* call: a context is older than what is in it, and the inner functions of *)
(* the listings begin when the array and the string are there.             *)
MayPrecede(op, k, l) ==
  /\ k # l
  /\ l = "context" => k \notin {"module", "engine"}
  /\ op \in Listings /\ l \in {"array", "string"} =>
       k \notin {"context", "module"}

Ordered(op, n, s) ==
  /\ \A i \in 1 .. Len(s) : s[i][2] = n
  /\ \A i, j \in 1 .. Len(s) : i < j => MayPrecede(op, s[i][1], s[j][1])

(* What is in scope before each statement of a call.                       *)
InScope(op, next, K) ==
  /\ op \in {"initialize", "getIntFuncAddr"} => K = {}
  /\ op = "compileToFunc" =>
       /\ "context" \in K <=> next > 1
       /\ "array"   \in K <=> next > 2
       /\ "module"  \in K <=> next \in 4 .. 6
       /\ "string"  \in K <=> next > 4
       /\ "engine"  \in K <=> next > 6
  /\ op = "toLLVMAssemblyCode" =>
       /\ "array"   \in K <=> next > 1
       /\ "context" \in K <=> next \in 3 .. 4
       /\ "module"  \in K => next = 4
       /\ "string" \notin K /\ "engine" \notin K
  /\ op = "toMachineAssemblyCode" =>
       /\ "string"  \in K <=> next > 1
       /\ "array"   \in K <=> next > 2
       /\ "context" \in K <=> next \in 4 .. 6
       /\ "module"  \in K => next = 6
       /\ "engine" \notin K

(* Where the module and the engine of compileToFunc are.                   *)
InPlace(op, next, s) ==
  op = "compileToFunc" =>
    /\ next = 4 => s[Len(s)][1] = "module"
    /\ next \in 5 .. 6 => Len(s) > 1 /\ s[Len(s) - 1][1] = "module"
    /\ next \in 7 .. 8 => s[Len(s)][1] = "engine"

(* The number of statements of a call.                                    *)
StepCount(op) == Len(Steps[op])

(* The scope of a call fits the statement that it is at, and is one that   *)
(* can be unwound.                                                         *)
ScopeInv(f) ==
  /\ f \in Frames
  /\ Ordered(f.op, f.n, f.scope)
  /\ "engine" \in Kinds(f.scope) => "module" \notin Kinds(f.scope)
  /\ f.op = "none" => f = InJava
  /\ f.n = 0 => f.op \in {"none", "initialize"}
  /\ f.op # "none" /\ f.mode = "running" =>
       /\ f.next \in 1 .. StepCount(f.op)
       /\ InScope(f.op, f.next, Kinds(f.scope))
       /\ InPlace(f.op, f.next, f.scope)
  /\ f.op = "compileToFunc" /\ f.mode = "returning" =>
       "engine" \notin Kinds(f.scope)

(* The objects L that exist fit the scope of a call, where there are those *)
(* of kinds K: what is in scope exists, and a context and a module exist   *)
(* only while a context is in scope.                                       *)
Objects(op, n, K, L) ==
  /\ \A k \in {"context", "module", "engine"} : k \in K => << k, n >> \in L
  /\ "engine" \in K => << "module", n >> \in L
  /\ "context" \notin K =>
       << "context", n >> \notin L /\ << "module", n >> \notin L
  /\ << "engine", n >> \in L \/ << "state", n >> \in L => op = "compileToFunc"

Made(n, L) == << "engine", n >> \in L /\ << "state", n >> \in L

ObjectInv(f, L) ==
  /\ Objects(f.op, f.n, Kinds(f.scope), L)
  /\ f.op = "compileToFunc" /\ f.mode = "returning" => Made(f.n, L)

(* The number of objects of a kind that a scope holds for the VM.          *)
Held(kind, s) == IF kind \in Kinds(s) THEN 1 ELSE 0

ThreadInv(t) ==
  /\ ScopeInv(frame[t])
  /\ ObjectInv(frame[t], live)
  /\ critical[t] = Held("array", frame[t].scope)
  /\ chars[t]    = Held("string", frame[t].scope)

TypeInv ==
  /\ process \in Processes
  /\ initialised \in BOOLEAN
  /\ frame \in [Threads -> Frames]
  /\ critical \in [Threads -> 0 .. 1]
  /\ chars \in [Threads -> 0 .. 1]
  /\ calls \in Nat
  /\ calls <= MaxCalls
  /\ live \subseteq LiveKinds \X (1 .. calls)
  /\ handles \subseteq 1 .. calls
  /\ addresses \subseteq 1 .. calls

(* A number belongs to one call, and to no call when Java has its handle.  *)
NumberInv ==
  /\ \A t \in Threads : frame[t].n \in 0 .. calls
  /\ \A t, u \in Threads :
       t # u /\ frame[t].n # 0 => frame[t].n # frame[u].n
  /\ \A n \in handles \cup addresses : \A t \in Threads : frame[t].n # n

(* The module of a handle is gone; its engine is there.                    *)
HandleInv ==
  /\ \A n \in handles :
       << "module", n >> \notin live /\ << "state", n >> \in live
  /\ process # "undefined" =>
       \A n \in handles \cup addresses : << "engine", n >> \in live

Inv ==
  /\ TypeInv
  /\ \A t \in Threads : ThreadInv(t)
  /\ NumberInv
  /\ HandleInv
  /\ OnlyHandlesOutlive

-----------------------------------------------------------------------------
(* Operators of SequencesExt.                                              *)

(* The last element, and what is left without it.                          *)
LEMMA FrontFacts ==
  ASSUME NEW S, NEW s \in Seq(S), s # << >>
  PROVE  /\ Front(s) \in Seq(S)
         /\ Len(Front(s)) = Len(s) - 1
         /\ Len(s) \in Nat \ {0}
         /\ \A i \in 1 .. Len(s) - 1 : Front(s)[i] = s[i]
         /\ Last(s) = s[Len(s)] /\ Last(s) \in S
  <1>1. Len(s) \in Nat \ {0}
    OBVIOUS
  <1>2. \A i \in 1 .. Len(s) - 1 : s[i] \in S
    OBVIOUS
  <1>3. Front(s) = [i \in 1 .. Len(s) - 1 |-> s[i]]
    BY <1>1 DEF Front
  <1>4. Last(s) = s[Len(s)] /\ Last(s) \in S
    BY <1>1 DEF Last
  <1> QED
    BY <1>1, <1>2, <1>3, <1>4

(* What is left without one element.                                       *)
LEMMA RemoveAtFacts ==
  ASSUME NEW S, NEW s \in Seq(S), NEW k \in 1 .. Len(s)
  PROVE  /\ RemoveAt(s, k) \in Seq(S)
         /\ Len(RemoveAt(s, k)) = Len(s) - 1
         /\ \A i \in 1 .. Len(s) - 1 :
              RemoveAt(s, k)[i] = IF i < k THEN s[i] ELSE s[i + 1]
  <1> DEFINE n == Len(s)
             older == SubSeq(s, 1, k - 1)
             younger == SubSeq(s, k + 1, n)
  <1>1. n \in Nat \ {0} /\ k \in Nat \ {0} /\ k <= n
    OBVIOUS
  <1>2. \A i \in 1 .. n : s[i] \in S
    OBVIOUS
  <1>3. older = [i \in 1 .. k - 1 |-> s[i]]
    BY <1>1
  <1>4. younger = [i \in 1 .. n - k |-> s[i + k]]
    BY <1>1
  <1>5. older \in Seq(S) /\ Len(older) = k - 1
    BY <1>1, <1>2, <1>3
  <1>6. younger \in Seq(S) /\ Len(younger) = n - k
    BY <1>1, <1>2, <1>4
  <1>7. RemoveAt(s, k) = older \o younger
    BY DEF RemoveAt
  <1> HIDE DEF n, older, younger
  <1>8. older \o younger \in Seq(S) /\ Len(older \o younger) = n - 1
    BY <1>1, <1>5, <1>6
  <1>9. \A i \in 1 .. n - 1 :
          (older \o younger)[i] = IF i < k THEN s[i] ELSE s[i + 1]
    <2> SUFFICES ASSUME NEW i \in 1 .. n - 1
                 PROVE  (older \o younger)[i] = IF i < k THEN s[i] ELSE s[i + 1]
      OBVIOUS
    <2>1. (older \o younger)[i] =
            IF i <= k - 1 THEN older[i] ELSE younger[i - (k - 1)]
      BY <1>1, <1>5, <1>6
    <2>2. CASE i < k
      BY <1>1, <1>3, <2>1, <2>2
    <2>3. CASE ~(i < k)
      <3>1. i - (k - 1) \in 1 .. n - k /\ i - (k - 1) + k = i + 1
        BY <1>1, <2>3
      <3>2. \A j \in 1 .. n - k : younger[j] = s[j + k]
        BY <1>4
      <3>3. younger[i - (k - 1)] = s[i + 1]
        BY <3>1, <3>2
      <3> QED
        BY <1>1, <2>1, <2>3, <3>3
    <2> QED
      BY <2>2, <2>3
  <1> QED
    BY <1>7, <1>8, <1>9 DEF n

-----------------------------------------------------------------------------
(* Scopes.                                                                 *)

Scopes == Seq(ScopeKinds \X Nat)

LEMMA KindsFacts ==
  ASSUME NEW s \in Scopes
  PROVE  /\ Kinds(s) \subseteq ScopeKinds
         /\ s = << >> => Kinds(s) = {}
         /\ Kinds(s) = {} => s = << >>
         /\ Len(s) \in Nat
  <1>1. Len(s) \in Nat /\ \A i \in 1 .. Len(s) : s[i] \in ScopeKinds \X Nat
    BY DEF Scopes
  <1>2. Kinds(s) \subseteq ScopeKinds
    BY <1>1 DEF Kinds
  <1>3. s = << >> => Len(s) = 0
    OBVIOUS
  <1>4. s # << >> => 1 \in 1 .. Len(s)
    BY DEF Scopes
  <1>5. s # << >> => s[1][1] \in Kinds(s)
    BY <1>4 DEF Kinds
  <1>6. s = << >> => Kinds(s) = {}
    BY <1>3 DEF Kinds
  <1> QED
    BY <1>1, <1>2, <1>5, <1>6

(* One more object.                                                        *)
LEMMA AppendFacts ==
  ASSUME NEW s \in Scopes, NEW k \in ScopeKinds, NEW n \in Nat
  PROVE  /\ Append(s, << k, n >>) \in Scopes
         /\ Len(Append(s, << k, n >>)) = Len(s) + 1
         /\ Append(s, << k, n >>)[Len(s) + 1] = << k, n >>
         /\ \A i \in 1 .. Len(s) : Append(s, << k, n >>)[i] = s[i]
  <1>1. Len(s) \in Nat /\ << k, n >> \in ScopeKinds \X Nat
    BY DEF Scopes
  <1> QED
    BY <1>1 DEF Scopes

LEMMA MoreKinds ==
  ASSUME NEW s \in Scopes, NEW k \in ScopeKinds, NEW n \in Nat
  PROVE  Kinds(Append(s, << k, n >>)) = Kinds(s) \cup {k}
  <1> DEFINE t == Append(s, << k, n >>)
  <1>1. Len(s) \in Nat
    BY DEF Scopes
  <1>2. /\ Len(t) = Len(s) + 1
        /\ t[Len(s) + 1] = << k, n >>
        /\ \A i \in 1 .. Len(s) : t[i] = s[i]
    BY AppendFacts
  <1> HIDE DEF t
  <1>3. \A i \in 1 .. Len(t) : i \in 1 .. Len(s) \/ i = Len(s) + 1
    BY <1>1, <1>2
  <1>4. \A i \in 1 .. Len(s) : i \in 1 .. Len(t)
    BY <1>1, <1>2
  <1>5. Len(s) + 1 \in 1 .. Len(t)
    BY <1>1, <1>2
  <1>6. Kinds(t) = Kinds(s) \cup {k}
    BY <1>2, <1>3, <1>4, <1>5 DEF Kinds
  <1> QED
    BY <1>6 DEF t

LEMMA StillOrdered ==
  ASSUME NEW op, NEW n \in Nat, NEW s \in Scopes, Ordered(op, n, s),
         NEW k \in ScopeKinds, \A l \in Kinds(s) : MayPrecede(op, l, k)
  PROVE  Ordered(op, n, Append(s, << k, n >>))
  <1> DEFINE t == Append(s, << k, n >>)
  <1>1. Len(s) \in Nat
    BY DEF Scopes
  <1>2. /\ Len(t) = Len(s) + 1
        /\ t[Len(s) + 1] = << k, n >>
        /\ \A i \in 1 .. Len(s) : t[i] = s[i]
    BY AppendFacts
  <1> HIDE DEF t
  <1>3. \A i \in 1 .. Len(t) : t[i][2] = n
    BY <1>1, <1>2 DEF Ordered
  <1>4. ASSUME NEW i \in 1 .. Len(t), NEW j \in 1 .. Len(t), i < j
        PROVE  MayPrecede(op, t[i][1], t[j][1])
    <2>1. i \in 1 .. Len(s)
      BY <1>1, <1>2, <1>4
    <2>2. CASE j \in 1 .. Len(s)
      BY <1>2, <1>4, <2>1, <2>2 DEF Ordered
    <2>3. CASE j = Len(s) + 1
      <3>1. t[i][1] \in Kinds(s) /\ t[j][1] = k
        BY <1>2, <2>1, <2>3 DEF Kinds
      <3> QED
        BY <3>1
    <2> QED
      BY <1>1, <1>2, <2>2, <2>3
  <1>5. Ordered(op, n, t)
    BY <1>3, <1>4 DEF Ordered
  <1> QED
    BY <1>5 DEF t

(* The youngest object gone.                                               *)
LEMMA Shorter ==
  ASSUME NEW op, NEW n \in Nat, NEW s \in Scopes, Ordered(op, n, s), s # << >>
  PROVE  /\ Front(s) \in Scopes
         /\ Ordered(op, n, Front(s))
         /\ Last(s) = << Last(s)[1], n >>
         /\ Last(s)[1] \in Kinds(s)
         /\ Kinds(Front(s)) = Kinds(s) \ {Last(s)[1]}
         /\ \A k \in Kinds(Front(s)) : MayPrecede(op, k, Last(s)[1])
         /\ Last(s) = s[Len(s)]
  <1> DEFINE t == Front(s)
  <1>1. /\ t \in Scopes
        /\ Len(t) = Len(s) - 1
        /\ Len(s) \in Nat \ {0}
        /\ \A i \in 1 .. Len(s) - 1 : t[i] = s[i]
        /\ Last(s) = s[Len(s)] /\ Last(s) \in ScopeKinds \X Nat
    BY FrontFacts DEF Scopes
  <1> HIDE DEF t
  <1>2. /\ Len(s) \in 1 .. Len(s)
        /\ \A i \in 1 .. Len(s) : i \in 1 .. Len(t) \/ i = Len(s)
        /\ \A i \in 1 .. Len(t) : i \in 1 .. Len(s) /\ i < Len(s) /\ t[i] = s[i]
    BY <1>1
  <1>3. \A i \in 1 .. Len(t) : MayPrecede(op, s[i][1], s[Len(s)][1])
    BY <1>2 DEF Ordered
  <1>4. \A i \in 1 .. Len(t) : s[i][1] # s[Len(s)][1]
    BY <1>3 DEF MayPrecede
  <1>5. Kinds(t) = Kinds(s) \ {Last(s)[1]}
    <2>1. \A x \in Kinds(t) : x \in Kinds(s) \ {Last(s)[1]}
      BY <1>1, <1>2, <1>4 DEF Kinds
    <2>2. \A x \in Kinds(s) \ {Last(s)[1]} : x \in Kinds(t)
      BY <1>1, <1>2 DEF Kinds
    <2> QED
      BY <2>1, <2>2
  <1>6. Ordered(op, n, t)
    BY <1>2 DEF Ordered
  <1>7. Last(s)[1] \in Kinds(s)
    BY <1>1, <1>2 DEF Kinds
  <1>8. \A k \in Kinds(t) : MayPrecede(op, k, Last(s)[1])
    BY <1>1, <1>2, <1>3 DEF Kinds
  <1>9. Last(s) = << Last(s)[1], n >>
    <2>1. Last(s)[2] = n
      BY <1>1, <1>2 DEF Ordered
    <2> QED
      BY <1>1, <2>1
  <1> QED
    BY <1>1, <1>5, <1>6, <1>7, <1>8, <1>9 DEF t

(* An older object gone.                                                   *)
LEMMA Without ==
  ASSUME NEW op, NEW n \in Nat, NEW s \in Scopes, Ordered(op, n, s),
         NEW k \in 1 .. Len(s)
  PROVE  /\ RemoveAt(s, k) \in Scopes
         /\ Ordered(op, n, RemoveAt(s, k))
         /\ Kinds(RemoveAt(s, k)) = Kinds(s) \ {s[k][1]}
  <1> DEFINE t == RemoveAt(s, k)
             was(i) == IF i < k THEN i ELSE i + 1
  <1>1. Len(s) \in Nat
    BY DEF Scopes
  <1>2. /\ t \in Scopes
        /\ Len(t) = Len(s) - 1
        /\ \A i \in 1 .. Len(s) - 1 : t[i] = IF i < k THEN s[i] ELSE s[i + 1]
    BY RemoveAtFacts DEF Scopes
  <1> HIDE DEF t
  <1>3. \A i \in 1 .. Len(t) :
          t[i] = s[was(i)] /\ was(i) \in 1 .. Len(s) /\ was(i) # k
    BY <1>1, <1>2
  <1>4. \A i, j \in 1 .. Len(t) : i < j => was(i) < was(j)
    BY <1>1, <1>2
  <1>5. \A i \in 1 .. Len(s) : i # k => \E j \in 1 .. Len(t) : was(j) = i
    <2> SUFFICES ASSUME NEW i \in 1 .. Len(s), i # k
                 PROVE  \E j \in 1 .. Len(t) : was(j) = i
      OBVIOUS
    <2>1. CASE i < k
      <3>1. i \in 1 .. Len(t) /\ was(i) = i
        BY <1>1, <1>2, <2>1
      <3> QED
        BY <3>1
    <2>2. CASE ~(i < k)
      <3>1. i - 1 \in 1 .. Len(t) /\ was(i - 1) = i
        BY <1>1, <1>2, <2>2
      <3> QED
        BY <3>1
    <2> QED
      BY <2>1, <2>2
  <1> HIDE DEF was
  <1>6. Ordered(op, n, t)
    <2>1. \A i \in 1 .. Len(t) : t[i][2] = n
      BY <1>3 DEF Ordered
    <2>2. \A i, j \in 1 .. Len(t) : i < j => MayPrecede(op, t[i][1], t[j][1])
      BY <1>3, <1>4 DEF Ordered
    <2> QED
      BY <2>1, <2>2 DEF Ordered
  <1>7. \A i \in 1 .. Len(s) : i # k => s[i][1] # s[k][1]
    <2> SUFFICES ASSUME NEW i \in 1 .. Len(s), i # k
                 PROVE  s[i][1] # s[k][1]
      OBVIOUS
    <2>1. i < k \/ k < i
      BY <1>1
    <2> QED
      BY <2>1 DEF Ordered, MayPrecede
  <1>8. Kinds(t) = Kinds(s) \ {s[k][1]}
    <2>1. \A x \in Kinds(t) : x \in Kinds(s) \ {s[k][1]}
      BY <1>3, <1>7 DEF Kinds
    <2>2. \A x \in Kinds(s) \ {s[k][1]} : x \in Kinds(t)
      <3> SUFFICES ASSUME NEW i \in 1 .. Len(s), s[i][1] # s[k][1]
                   PROVE  s[i][1] \in Kinds(t)
        BY DEF Kinds
      <3>1. PICK j \in 1 .. Len(t) : was(j) = i
        BY <1>5
      <3> QED
        BY <1>3, <3>1 DEF Kinds
    <2> QED
      BY <2>1, <2>2
  <1> QED
    BY <1>2, <1>6, <1>8 DEF t

-----------------------------------------------------------------------------
(* Calls.                                                                  *)

LEMMA StepsOf ==
  /\ Operations = {"initialize", "getIntFuncAddr", "compileToFunc",
                   "toLLVMAssemblyCode", "toMachineAssemblyCode"}
  /\ Steps["initialize"] = << "check", "register" >>
  /\ Steps["getIntFuncAddr"] = << "select" >>
  /\ Steps["compileToFunc"] =
       << "context", "array", "parse", "string", "find", "engine", "address",
          "state" >>
  /\ Steps["toLLVMAssemblyCode"] =
       << "array", "context", "parse", "leave", "result" >>
  /\ Steps["toMachineAssemblyCode"] =
       << "string", "array", "context", "target", "parse", "leave",
          "result" >>
  BY DEF Steps, Operations

LEMMA Lengths ==
  /\ StepCount("initialize") = 2
  /\ StepCount("getIntFuncAddr") = 1
  /\ StepCount("compileToFunc") = 8
  /\ StepCount("toLLVMAssemblyCode") = 5
  /\ StepCount("toMachineAssemblyCode") = 7
  BY StepsOf DEF StepCount

LEMMA Statements ==
  /\ Steps["initialize"][1] = "check"
  /\ Steps["initialize"][2] = "register"
  /\ Steps["getIntFuncAddr"][1] = "select"
  /\ Steps["compileToFunc"][1] = "context"
  /\ Steps["compileToFunc"][2] = "array"
  /\ Steps["compileToFunc"][3] = "parse"
  /\ Steps["compileToFunc"][4] = "string"
  /\ Steps["compileToFunc"][5] = "find"
  /\ Steps["compileToFunc"][6] = "engine"
  /\ Steps["compileToFunc"][7] = "address"
  /\ Steps["compileToFunc"][8] = "state"
  /\ Steps["toLLVMAssemblyCode"][1] = "array"
  /\ Steps["toLLVMAssemblyCode"][2] = "context"
  /\ Steps["toLLVMAssemblyCode"][3] = "parse"
  /\ Steps["toLLVMAssemblyCode"][4] = "leave"
  /\ Steps["toLLVMAssemblyCode"][5] = "result"
  /\ Steps["toMachineAssemblyCode"][1] = "string"
  /\ Steps["toMachineAssemblyCode"][2] = "array"
  /\ Steps["toMachineAssemblyCode"][3] = "context"
  /\ Steps["toMachineAssemblyCode"][4] = "target"
  /\ Steps["toMachineAssemblyCode"][5] = "parse"
  /\ Steps["toMachineAssemblyCode"][6] = "leave"
  /\ Steps["toMachineAssemblyCode"][7] = "result"
  <1>1. /\ Steps["initialize"][1] = "check"
        /\ Steps["initialize"][2] = "register"
    BY StepsOf
  <1>2. /\ Steps["getIntFuncAddr"][1] = "select"
    BY StepsOf
  <1>3. /\ Steps["compileToFunc"][1] = "context"
        /\ Steps["compileToFunc"][2] = "array"
        /\ Steps["compileToFunc"][3] = "parse"
        /\ Steps["compileToFunc"][4] = "string"
        /\ Steps["compileToFunc"][5] = "find"
        /\ Steps["compileToFunc"][6] = "engine"
        /\ Steps["compileToFunc"][7] = "address"
        /\ Steps["compileToFunc"][8] = "state"
    BY StepsOf
  <1>4. /\ Steps["toLLVMAssemblyCode"][1] = "array"
        /\ Steps["toLLVMAssemblyCode"][2] = "context"
        /\ Steps["toLLVMAssemblyCode"][3] = "parse"
        /\ Steps["toLLVMAssemblyCode"][4] = "leave"
        /\ Steps["toLLVMAssemblyCode"][5] = "result"
    <2>1. Steps["toLLVMAssemblyCode"] =
           << "array", "context", "parse", "leave", "result" >>
      BY StepsOf
    <2> QED
      BY <2>1
  <1>5. /\ Steps["toMachineAssemblyCode"][1] = "string"
        /\ Steps["toMachineAssemblyCode"][2] = "array"
        /\ Steps["toMachineAssemblyCode"][3] = "context"
        /\ Steps["toMachineAssemblyCode"][4] = "target"
        /\ Steps["toMachineAssemblyCode"][5] = "parse"
        /\ Steps["toMachineAssemblyCode"][6] = "leave"
        /\ Steps["toMachineAssemblyCode"][7] = "result"
    <2>1. Steps["toMachineAssemblyCode"] =
           << "string", "array", "context", "target", "parse", "leave",
              "result" >>
      BY StepsOf
    <2> QED
      BY <2>1
  <1> QED
    BY <1>1, <1>2, <1>3, <1>4, <1>5

Is(f, op, next) == f.op = op /\ f.next = next

(* The statements of each name.                                            *)
LEMMA Places ==
  ASSUME NEW f, f.op \in Operations, f.next \in 1 .. StepCount(f.op)
  PROVE  LET step == Steps[f.op][f.next]
         IN  /\ step = "check" => Is(f, "initialize", 1)
             /\ step = "register" => Is(f, "initialize", 2)
             /\ step = "select" => Is(f, "getIntFuncAddr", 1)
             /\ step = "context" =>
                  \/ Is(f, "compileToFunc", 1)
                  \/ Is(f, "toLLVMAssemblyCode", 2)
                  \/ Is(f, "toMachineAssemblyCode", 3)
             /\ step = "array" =>
                  \/ Is(f, "compileToFunc", 2)
                  \/ Is(f, "toLLVMAssemblyCode", 1)
                  \/ Is(f, "toMachineAssemblyCode", 2)
             /\ step = "string" =>
                  \/ Is(f, "compileToFunc", 4)
                  \/ Is(f, "toMachineAssemblyCode", 1)
             /\ step = "parse" =>
                  \/ Is(f, "compileToFunc", 3)
                  \/ Is(f, "toLLVMAssemblyCode", 3)
                  \/ Is(f, "toMachineAssemblyCode", 5)
             /\ step = "find" => Is(f, "compileToFunc", 5)
             /\ step = "engine" => Is(f, "compileToFunc", 6)
             /\ step = "address" => Is(f, "compileToFunc", 7)
             /\ step = "state" => Is(f, "compileToFunc", 8)
             /\ step = "target" => Is(f, "toMachineAssemblyCode", 4)
             /\ step = "leave" =>
                  \/ Is(f, "toLLVMAssemblyCode", 4)
                  \/ Is(f, "toMachineAssemblyCode", 6)
             /\ step = "result" =>
                  \/ Is(f, "toLLVMAssemblyCode", 5)
                  \/ Is(f, "toMachineAssemblyCode", 7)
  <1> DEFINE step == Steps[f.op][f.next]
  <1>1. CASE f.op = "initialize"
    <2>1. f.next \in 1 .. 2
      BY <1>1, Lengths
    <2>2. Steps[f.op] = Steps["initialize"]
      BY <1>1
    <2>3. f.next = 1 \/ f.next = 2
      BY <2>1
    <2>4. /\ f.next = 1 => step = "check"
          /\ f.next = 2 => step = "register"
      BY <2>2, Statements
    <2> HIDE DEF step
    <2> QED
      BY <1>1, <2>3, <2>4 DEF Is, step
  <1>2. CASE f.op = "getIntFuncAddr"
    <2>1. f.next \in 1 .. 1
      BY <1>2, Lengths
    <2>2. Steps[f.op] = Steps["getIntFuncAddr"]
      BY <1>2
    <2>3. f.next = 1
      BY <2>1
    <2>4. /\ f.next = 1 => step = "select"
      BY <2>2, Statements
    <2> HIDE DEF step
    <2> QED
      BY <1>2, <2>3, <2>4 DEF Is, step
  <1>3. CASE f.op = "compileToFunc"
    <2>1. f.next \in 1 .. 8
      BY <1>3, Lengths
    <2>2. Steps[f.op] = Steps["compileToFunc"]
      BY <1>3
    <2>3. \/ f.next = 1 \/ f.next = 2 \/ f.next = 3 \/ f.next = 4
          \/ f.next = 5 \/ f.next = 6 \/ f.next = 7 \/ f.next = 8
      BY <2>1
    <2>4. /\ f.next = 1 => step = "context"
          /\ f.next = 2 => step = "array"
          /\ f.next = 3 => step = "parse"
          /\ f.next = 4 => step = "string"
          /\ f.next = 5 => step = "find"
          /\ f.next = 6 => step = "engine"
          /\ f.next = 7 => step = "address"
          /\ f.next = 8 => step = "state"
      BY <2>2, Statements
    <2> HIDE DEF step
    <2> QED
      BY <1>3, <2>3, <2>4 DEF Is, step
  <1>4. CASE f.op = "toLLVMAssemblyCode"
    <2>1. f.next \in 1 .. 5
      BY <1>4, Lengths
    <2>2. Steps[f.op] = Steps["toLLVMAssemblyCode"]
      BY <1>4
    <2>3. f.next = 1 \/ f.next = 2 \/ f.next = 3 \/ f.next = 4 \/ f.next = 5
      BY <2>1
    <2>4. /\ f.next = 1 => step = "array"
          /\ f.next = 2 => step = "context"
          /\ f.next = 3 => step = "parse"
          /\ f.next = 4 => step = "leave"
          /\ f.next = 5 => step = "result"
      BY <2>2, Statements
    <2> HIDE DEF step
    <2> QED
      BY <1>4, <2>3, <2>4 DEF Is, step
  <1>5. CASE f.op = "toMachineAssemblyCode"
    <2>1. f.next \in 1 .. 7
      BY <1>5, Lengths
    <2>2. Steps[f.op] = Steps["toMachineAssemblyCode"]
      BY <1>5
    <2>3. \/ f.next = 1 \/ f.next = 2 \/ f.next = 3 \/ f.next = 4
          \/ f.next = 5 \/ f.next = 6 \/ f.next = 7
      BY <2>1
    <2>4. /\ f.next = 1 => step = "string"
          /\ f.next = 2 => step = "array"
          /\ f.next = 3 => step = "context"
          /\ f.next = 4 => step = "target"
          /\ f.next = 5 => step = "parse"
          /\ f.next = 6 => step = "leave"
          /\ f.next = 7 => step = "result"
      BY <2>2, Statements
    <2> HIDE DEF step
    <2> QED
      BY <1>5, <2>3, <2>4 DEF Is, step
  <1> QED
    BY <1>1, <1>2, <1>3, <1>4, <1>5, StepsOf

(* What a guard says of the call.                                          *)
LEMMA At ==
  ASSUME Inv, NEW t \in Threads, NEW step, IsAt(t, step)
  PROVE  /\ process = "running"
         /\ ScopeInv(frame[t])
         /\ frame[t] \in Frames
         /\ frame[t].op \in Operations
         /\ frame[t].op # "none"
         /\ frame[t].mode = "running"
         /\ frame[t].next \in 1 .. StepCount(frame[t].op)
         /\ Steps[frame[t].op][frame[t].next] = step
         /\ frame[t].n \in 0 .. calls
         /\ frame[t].scope \in Scopes
         /\ Ordered(frame[t].op, frame[t].n, frame[t].scope)
         /\ InScope(frame[t].op, frame[t].next, Kinds(frame[t].scope))
         /\ InPlace(frame[t].op, frame[t].next, frame[t].scope)
         /\ ObjectInv(frame[t], live)
  <1>1. ScopeInv(frame[t]) /\ ObjectInv(frame[t], live)
    BY DEF Inv, ThreadInv
  <1>2. frame[t].op # "none"
    BY StepsOf DEF IsAt
  <1>3. frame[t].n \in 0 .. calls
    BY DEF Inv, NumberInv
  <1>4. frame[t] \in Frames /\ frame[t].scope \in Scopes
    BY <1>1 DEF ScopeInv, Frames, Scopes
  <1> QED
    BY <1>1, <1>2, <1>3, <1>4 DEF IsAt, ScopeInv

LEMMA ProceedFacts ==
  ASSUME NEW f \in Frames, f.op \in Operations, NEW s \in Scopes
  PROVE  /\ Proceed(f, s) \in Frames
         /\ Proceed(f, s).op = f.op
         /\ Proceed(f, s).n = f.n
         /\ Proceed(f, s).next = f.next + 1
         /\ Proceed(f, s).scope = s
         /\ Proceed(f, s).mode =
              IF f.next = StepCount(f.op) THEN "returning" ELSE f.mode
  <1> DEFINE mode == IF f.next = StepCount(f.op) THEN "returning" ELSE f.mode
  <1>1. mode \in Modes /\ f.next + 1 \in Nat
    BY DEF Frames, Modes
  <1>2. Proceed(f, s) =
          [f EXCEPT !.scope = s, !.next = f.next + 1, !.mode = mode]
    BY DEF Proceed, Frames, StepCount
  <1> HIDE DEF mode
  <1>3. Proceed(f, s) =
          [ op |-> f.op, n |-> f.n, arg |-> f.arg, next |-> f.next + 1,
            mode |-> mode, scope |-> s ]
    BY <1>2 DEF Frames
  <1> QED
    BY <1>1, <1>3 DEF Frames, Scopes, mode

(* A call may go on with a scope that fits its next statement.             *)
LEMMA GoesOn ==
  ASSUME NEW f, ScopeInv(f), f.op \in Operations, f.mode = "running",
         f.op # "none", NEW s \in Scopes, Ordered(f.op, f.n, s),
         "engine" \in Kinds(s) => "module" \notin Kinds(s),
         f.next < StepCount(f.op) =>
           InScope(f.op, f.next + 1, Kinds(s)) /\ InPlace(f.op, f.next + 1, s),
         f.next = StepCount(f.op) /\ f.op = "compileToFunc" =>
           "engine" \notin Kinds(s)
  PROVE  ScopeInv(Proceed(f, s))
  <1> DEFINE g == Proceed(f, s)
  <1>1. f \in Frames /\ f.next \in 1 .. StepCount(f.op)
    BY DEF ScopeInv
  <1>2. /\ g \in Frames
        /\ g.op = f.op /\ g.n = f.n /\ g.next = f.next + 1 /\ g.scope = s
        /\ g.mode = IF f.next = StepCount(f.op) THEN "returning" ELSE f.mode
    BY <1>1, ProceedFacts
  <1>3. StepCount(f.op) \in Nat
    <2>1. \/ f.op = "initialize" \/ f.op = "getIntFuncAddr"
          \/ f.op = "compileToFunc" \/ f.op = "toLLVMAssemblyCode"
          \/ f.op = "toMachineAssemblyCode"
      BY StepsOf
    <2> QED
      BY <2>1, Lengths
  <1> HIDE DEF g
  <1>4. g.mode = "running" =>
          f.next < StepCount(f.op) /\ g.next \in 1 .. StepCount(f.op)
    BY <1>1, <1>2, <1>3
  <1>5. f.n = 0 => f.op \in {"none", "initialize"}
    BY DEF ScopeInv
  <1>6. g.op = "compileToFunc" /\ g.mode = "returning" =>
          "engine" \notin Kinds(g.scope)
    BY <1>2
  <1> QED
    BY <1>2, <1>4, <1>5, <1>6 DEF ScopeInv, g

(* A return or a throw leaves the scope to the unwinding.                  *)
LEMMA Leaves ==
  ASSUME NEW f, ScopeInv(f), f.op # "none", NEW s \in Scopes,
         Ordered(f.op, f.n, s),
         "engine" \in Kinds(s) => "module" \notin Kinds(s),
         NEW mode \in {"returning", "throwing"},
         f.op = "compileToFunc" /\ mode = "returning" =>
           "engine" \notin Kinds(s)
  PROVE  LET g == [f EXCEPT !.mode = mode, !.scope = s]
         IN  /\ ScopeInv(g)
             /\ g.op = f.op /\ g.n = f.n /\ g.scope = s /\ g.mode = mode
  <1> DEFINE g == [f EXCEPT !.mode = mode, !.scope = s]
  <1>1. f \in Frames
    BY DEF ScopeInv
  <1>2. /\ g \in Frames
        /\ g.op = f.op /\ g.n = f.n /\ g.scope = s /\ g.mode = mode
    BY <1>1 DEF Frames, Scopes, Modes
  <1> HIDE DEF g
  <1>3. f.n = 0 => f.op \in {"none", "initialize"}
    BY DEF ScopeInv
  <1>4. ScopeInv(g)
    BY <1>2, <1>3 DEF ScopeInv
  <1> QED
    BY <1>2, <1>4 DEF g

-----------------------------------------------------------------------------
(* A thread takes a step of its call.                                      *)

(* The VM knows of what a thread that has scope s afterwards holds.        *)
VmFollows(t, s) ==
  /\ critical' \in [Threads -> 0 .. 1]
  /\ chars' \in [Threads -> 0 .. 1]
  /\ \A u \in Threads \ {t} :
       critical'[u] = critical[u] /\ chars'[u] = chars[u]
  /\ critical'[t] = Held("array", s)
  /\ chars'[t] = Held("string", s)

(* Objects are made and destroyed only for the call of the thread.         *)
OwnOnly(t) ==
  /\ live' \subseteq LiveKinds \X (1 .. calls)
  /\ \A k \in LiveKinds, n \in 1 .. calls :
       n # frame[t].n => (<< k, n >> \in live' <=> << k, n >> \in live)

LEMMA LocalStep ==
  ASSUME Inv, NEW t \in Threads, process = "running", frame[t].op # "none",
         NEW g, frame' = [frame EXCEPT ![t] = g],
         ScopeInv(g), g.op = frame[t].op, g.n = frame[t].n,
         ObjectInv(g, live'), VmFollows(t, g.scope), OwnOnly(t),
         process' \in Processes \ {"undefined"}, initialised' \in BOOLEAN,
         UNCHANGED javaVars
  PROVE  Inv'
  <1>1. /\ frame' \in [Threads -> Frames]
        /\ frame'[t] = g
        /\ \A u \in Threads \ {t} : frame'[u] = frame[u]
    BY DEF Inv, TypeInv, ScopeInv
  <1>2. handles' = handles /\ addresses' = addresses /\ calls' = calls
    BY DEF javaVars
  <1>3. TypeInv'
    BY <1>1, <1>2 DEF Inv, TypeInv, Processes, VmFollows, OwnOnly
  <1>4. NumberInv'
    <2>1. \A u \in Threads : frame'[u].n = frame[u].n
      BY <1>1
    <2> QED
      BY <1>2, <2>1 DEF Inv, NumberInv
  <1>5. HandleInv'
    <2>1. \A n \in handles \cup addresses : n \in 1 .. calls /\ frame[t].n # n
      BY DEF Inv, TypeInv, NumberInv
    <2>2. \A n \in handles :
            << "module", n >> \notin live /\ << "state", n >> \in live
      BY DEF Inv, HandleInv
    <2>3. \A n \in handles \cup addresses : << "engine", n >> \in live
      BY DEF Inv, HandleInv
    <2>4. \A n \in handles :
            << "module", n >> \notin live' /\ << "state", n >> \in live'
      BY <2>1, <2>2 DEF LiveKinds, OwnOnly
    <2>5. \A n \in handles \cup addresses : << "engine", n >> \in live'
      BY <2>1, <2>3 DEF LiveKinds, OwnOnly
    <2> QED
      BY <1>2, <2>4, <2>5 DEF HandleInv
  <1>6. OnlyHandlesOutlive'
    <2> SUFFICES ASSUME NEW o \in live'
                 PROVE  \/ \E u \in Threads :
                             frame'[u] # InJava /\ frame'[u].n = o[2]
                        \/ o[1] \in {"engine", "state"} /\ o[2] \in handles'
                        \/ o[1] = "machine"
      BY DEF OnlyHandlesOutlive
    <2>1. CASE o[2] = g.n
      <3>1. g # InJava
        BY DEF InJava, Frame
      <3> QED
        BY <1>1, <2>1, <3>1
    <2>2. CASE o[2] # g.n
      <3>1. o[1] \in LiveKinds /\ o[2] \in 1 .. calls /\ o = << o[1], o[2] >>
        BY DEF OwnOnly
      <3>2. o \in live
        BY <2>2, <3>1 DEF OwnOnly
      <3>3. \/ \E u \in Threads : frame[u] # InJava /\ frame[u].n = o[2]
            \/ o[1] \in {"engine", "state"} /\ o[2] \in handles
            \/ o[1] = "machine"
        BY <3>2 DEF Inv, OnlyHandlesOutlive
      <3>4. ASSUME NEW u \in Threads, frame[u] # InJava, frame[u].n = o[2]
            PROVE  frame'[u] # InJava /\ frame'[u].n = o[2]
        BY <1>1, <2>2, <3>4
      <3> QED
        BY <1>2, <3>3, <3>4
    <2> QED
      BY <2>1, <2>2
  <1>7. ASSUME NEW u \in Threads
        PROVE  ThreadInv(u)'
    <2>1. CASE u = t
      BY <1>1, <2>1 DEF ThreadInv, VmFollows
    <2>2. CASE u # t
      <3>1. ScopeInv(frame[u]) /\ ObjectInv(frame[u], live)
            /\ critical[u] = Held("array", frame[u].scope)
            /\ chars[u] = Held("string", frame[u].scope)
        BY DEF Inv, ThreadInv
      <3>2. frame[u].n \in 0 .. calls /\ calls \in Nat
        BY DEF Inv, NumberInv, TypeInv
      <3>3. ASSUME NEW k \in LiveKinds
            PROVE  << k, frame[u].n >> \in live'
                     <=> << k, frame[u].n >> \in live
        <4>1. CASE frame[u].n = 0
          <5>1. live \subseteq LiveKinds \X (1 .. calls)
            BY DEF Inv, TypeInv
          <5>2. << k, frame[u].n >> \notin LiveKinds \X (1 .. calls)
            BY <3>2, <4>1
          <5> QED
            BY <5>1, <5>2 DEF OwnOnly
        <4>2. CASE frame[u].n # 0
          <5>1. frame[u].n # frame[t].n
            BY <2>2, <4>2 DEF Inv, NumberInv
          <5>2. frame[u].n \in 1 .. calls
            BY <3>2, <4>2
          <5> QED
            BY <5>1, <5>2 DEF OwnOnly
        <4> QED
          BY <4>1, <4>2
      <3>4. ObjectInv(frame[u], live')
        BY <3>1, <3>3 DEF ObjectInv, Objects, Made, LiveKinds
      <3> QED
        BY <1>1, <2>2, <3>1, <3>4 DEF ThreadInv, VmFollows
    <2> QED
      BY <2>1, <2>2
  <1> QED
    BY <1>3, <1>4, <1>5, <1>6, <1>7 DEF Inv

(* A step that neither takes nor releases an array or a string.            *)
LEMMA QuietVm ==
  ASSUME Inv, NEW t \in Threads, UNCHANGED vmVars, NEW s,
         \A k \in {"array", "string"} :
            k \in Kinds(s) <=> k \in Kinds(frame[t].scope)
  PROVE  VmFollows(t, s)
  <1>1. critical' = critical /\ chars' = chars
    BY DEF vmVars
  <1>2. critical \in [Threads -> 0 .. 1] /\ chars \in [Threads -> 0 .. 1]
    BY DEF Inv, TypeInv
  <1>3. /\ critical[t] = Held("array", frame[t].scope)
        /\ chars[t] = Held("string", frame[t].scope)
    BY DEF Inv, ThreadInv
  <1>4. \A k \in {"array", "string"} : Held(k, s) = Held(k, frame[t].scope)
    BY DEF Held
  <1> QED
    BY <1>1, <1>2, <1>3, <1>4 DEF VmFollows

(* A step that makes no object, or one, for the call of the thread.        *)
LEMMA QuietHeap ==
  ASSUME Inv, NEW t \in Threads, UNCHANGED live
  PROVE  OwnOnly(t)
  BY DEF Inv, TypeInv, OwnOnly

LEMMA NewObject ==
  ASSUME Inv, NEW t \in Threads, frame[t].op \notin {"none", "initialize"},
         NEW k \in LiveKinds, live' = live \cup {<< k, frame[t].n >>}
  PROVE  OwnOnly(t)
  <1>1. frame[t].n \in 1 .. calls
    BY DEF Inv, TypeInv, NumberInv, ThreadInv, ScopeInv
  <1> QED
    BY <1>1 DEF Inv, TypeInv, OwnOnly

(* The call goes on.                                                       *)
LEMMA GoOnStep ==
  ASSUME Inv, NEW t \in Threads, NEW step, IsAt(t, step),
         NEW s \in Scopes, GoOn(t, s),
         Ordered(frame[t].op, frame[t].n, s),
         "engine" \in Kinds(s) => "module" \notin Kinds(s),
         frame[t].next < StepCount(frame[t].op) =>
           /\ InScope(frame[t].op, frame[t].next + 1, Kinds(s))
           /\ InPlace(frame[t].op, frame[t].next + 1, s),
         frame[t].next = StepCount(frame[t].op) /\ frame[t].op = "compileToFunc"
           => "engine" \notin Kinds(s) /\ Made(frame[t].n, live'),
         Objects(frame[t].op, frame[t].n, Kinds(s), live'),
         VmFollows(t, s), OwnOnly(t),
         process' \in Processes \ {"undefined"}, initialised' \in BOOLEAN,
         UNCHANGED javaVars
  PROVE  Inv'
  <1> DEFINE f == frame[t]
             g == Proceed(f, s)
  <1>1. /\ process = "running" /\ ScopeInv(f) /\ f \in Frames
        /\ f.op \in Operations /\ f.op # "none" /\ f.mode = "running"
    BY At
  <1>2. /\ g.op = f.op /\ g.n = f.n /\ g.scope = s
        /\ g.mode = IF f.next = StepCount(f.op) THEN "returning" ELSE f.mode
    BY <1>1, ProceedFacts
  <1>3. ScopeInv(g)
    BY <1>1, GoesOn
  <1>4. frame' = [frame EXCEPT ![t] = g]
    BY DEF GoOn
  <1>5. g.mode = "returning" => f.next = StepCount(f.op)
    BY <1>1, <1>2
  <1> HIDE DEF g
  <1>6. ObjectInv(g, live')
    BY <1>2, <1>5 DEF ObjectInv
  <1> QED
    BY <1>1, <1>2, <1>3, <1>4, <1>6, LocalStep

(* The call throws.                                                        *)
LEMMA ThrowStep ==
  ASSUME Inv, NEW t \in Threads, NEW step, IsAt(t, step),
         NEW s \in Scopes, Throw(t, s),
         Ordered(frame[t].op, frame[t].n, s),
         Kinds(s) = Kinds(frame[t].scope),
         UNCHANGED << process, initialised, live, vmVars, javaVars >>
  PROVE  Inv'
  <1> DEFINE f == frame[t]
             g == [f EXCEPT !.mode = "throwing", !.scope = s]
  <1>1. /\ process = "running" /\ ScopeInv(f) /\ f.op # "none"
        /\ ObjectInv(f, live)
    BY At
  <1>2. /\ ScopeInv(g)
        /\ g.op = f.op /\ g.n = f.n /\ g.scope = s /\ g.mode = "throwing"
    <2>1. "engine" \in Kinds(s) => "module" \notin Kinds(s)
      BY <1>1 DEF ScopeInv
    <2> QED
      BY <1>1, <2>1, Leaves
  <1>3. frame' = [frame EXCEPT ![t] = g]
    BY DEF Throw
  <1> HIDE DEF g
  <1>4. ObjectInv(g, live')
    BY <1>1, <1>2 DEF ObjectInv
  <1>5. VmFollows(t, g.scope) /\ OwnOnly(t)
    BY <1>2, QuietVm, QuietHeap
  <1>6. process' \in Processes \ {"undefined"} /\ initialised' \in BOOLEAN
    BY <1>1 DEF Processes, Inv, TypeInv
  <1> QED
    BY <1>1, <1>2, <1>3, <1>4, <1>5, <1>6, LocalStep

(* The process ends.                                                       *)
LEMMA EndStep ==
  ASSUME Inv, process = "running", process' \in Processes \ {"undefined"},
         UNCHANGED << initialised, frame, live, vmVars, javaVars >>
  PROVE  Inv'
  <1>1. TypeInv'
    BY DEF Inv, TypeInv, vmVars, javaVars
  <1>2. \A t \in Threads : ThreadInv(t)'
    BY DEF Inv, ThreadInv, vmVars
  <1>3. NumberInv'
    BY DEF Inv, NumberInv, javaVars
  <1>4. HandleInv'
    BY DEF Inv, HandleInv, javaVars
  <1>5. OnlyHandlesOutlive'
    BY DEF Inv, OnlyHandlesOutlive, javaVars
  <1> QED
    BY <1>1, <1>2, <1>3, <1>4, <1>5 DEF Inv

-----------------------------------------------------------------------------
(* The statements of a call.                                               *)

LEMMA CheckStep ==
  ASSUME Inv, NEW t \in Threads, Check(t)
  PROVE  Inv'
  <1> DEFINE f == frame[t]
             s == Owned(t)
  <1>1. /\ IsAt(t, "check")
        /\ UNCHANGED << process, initialised, live, vmVars, javaVars >>
    BY DEF Check
  <1>2. /\ process = "running" /\ ScopeInv(f) /\ f.op # "none"
        /\ f \in Frames /\ s \in Scopes /\ Ordered(f.op, f.n, s)
        /\ InScope(f.op, f.next, Kinds(s)) /\ ObjectInv(f, live)
    BY <1>1, At DEF Owned
  <1>3. Is(f, "initialize", 1)
    BY <1>1, At, Places
  <1>4. Kinds(s) = {}
    BY <1>2, <1>3 DEF InScope, Is
  <1>5. VmFollows(t, s) /\ OwnOnly(t)
    BY <1>1, QuietVm, QuietHeap DEF Owned
  <1>6. process' \in Processes \ {"undefined"} /\ initialised' \in BOOLEAN
    BY <1>1, <1>2 DEF Processes, Inv, TypeInv
  <1>7. CASE initialised
    <2> DEFINE g == [f EXCEPT !.mode = "returning", !.scope = s]
    <2>1. /\ ScopeInv(g)
          /\ g.op = f.op /\ g.n = f.n /\ g.scope = s /\ g.mode = "returning"
      BY <1>2, <1>4, Leaves
    <2>2. g = [f EXCEPT !.mode = "returning"]
      BY <1>2 DEF Frames, Owned
    <2>3. frame' = [frame EXCEPT ![t] = g]
      BY <1>7, <2>2 DEF Check
    <2> HIDE DEF g
    <2>4. ObjectInv(g, live')
      BY <1>1, <1>2, <1>3, <2>1 DEF ObjectInv, Owned, Is
    <2> QED
      BY <1>1, <1>2, <1>5, <1>6, <2>1, <2>3, <2>4, LocalStep
  <1>8. CASE ~initialised
    <2>1. GoOn(t, s)
      BY <1>8 DEF Check
    <2>2. InScope(f.op, f.next + 1, Kinds(s)) /\ InPlace(f.op, f.next + 1, s)
      BY <1>3, <1>4 DEF InScope, InPlace, Is
    <2>3. Objects(f.op, f.n, Kinds(s), live')
      BY <1>1, <1>2 DEF ObjectInv, Owned
    <2>4. "engine" \notin Kinds(s) /\ f.op # "compileToFunc"
      BY <1>3, <1>4 DEF Is
    <2> QED
      BY <1>1, <1>2, <1>5, <1>6, <2>1, <2>2, <2>3, <2>4, GoOnStep
  <1> QED
    BY <1>7, <1>8

LEMMA RegisterStep ==
  ASSUME Inv, NEW t \in Threads, Register(t)
  PROVE  Inv'
  <1> DEFINE f == frame[t]
             s == Owned(t)
  <1>1. /\ IsAt(t, "register") /\ GoOn(t, s)
        /\ UNCHANGED << live, vmVars, javaVars >>
        /\ process' \in {"running", "corrupted"} /\ initialised' = TRUE
    BY DEF Register
  <1>2. /\ f \in Frames /\ s \in Scopes /\ Ordered(f.op, f.n, s)
        /\ InScope(f.op, f.next, Kinds(s)) /\ ObjectInv(f, live)
    BY <1>1, At DEF Owned
  <1>3. Is(f, "initialize", 2) /\ f.next = StepCount(f.op)
    BY <1>1, At, Places, Lengths DEF Is
  <1>4. Kinds(s) = {}
    BY <1>2, <1>3 DEF InScope, Is
  <1>5. VmFollows(t, s) /\ OwnOnly(t)
    BY <1>1, QuietVm, QuietHeap DEF Owned
  <1>6. process' \in Processes \ {"undefined"} /\ initialised' \in BOOLEAN
    BY <1>1 DEF Processes
  <1>7. Objects(f.op, f.n, Kinds(s), live')
    BY <1>1, <1>2 DEF ObjectInv, Owned
  <1>8. "engine" \notin Kinds(s) /\ f.op # "compileToFunc"
    BY <1>3, <1>4 DEF Is
  <1>9. ~(f.next < StepCount(f.op))
    BY <1>3 DEF Is
  <1> QED
    BY <1>1, <1>2, <1>5, <1>6, <1>7, <1>8, <1>9, GoOnStep

LEMMA ConstructContextStep ==
  ASSUME Inv, NEW t \in Threads, ConstructContext(t)
  PROVE  Inv'
  <1> DEFINE f == frame[t]
             s == Owned(t)
             K == Kinds(s)
             r == Append(s, << "context", f.n >>)
  <1>1. /\ IsAt(t, "context") /\ GoOn(t, r)
        /\ live' = live \cup {<< "context", f.n >>}
        /\ UNCHANGED << process, initialised, vmVars, javaVars >>
    BY DEF ConstructContext, Named
  <1>2. /\ process = "running" /\ ScopeInv(f) /\ f.op # "none"
        /\ f \in Frames /\ s \in Scopes /\ Ordered(f.op, f.n, s)
        /\ InScope(f.op, f.next, K) /\ ObjectInv(f, live)
    BY <1>1, At DEF Owned
  <1>3. \/ Is(f, "compileToFunc", 1)
        \/ Is(f, "toLLVMAssemblyCode", 2)
        \/ Is(f, "toMachineAssemblyCode", 3)
    BY <1>1, At, Places
  <1>4. "context" \notin K /\ "module" \notin K /\ "engine" \notin K
    BY <1>2, <1>3 DEF InScope, Is
  <1>5. \A l \in K : MayPrecede(f.op, l, "context")
    BY <1>4 DEF MayPrecede
  <1>6. /\ r \in Scopes /\ Ordered(f.op, f.n, r)
        /\ Kinds(r) = K \cup {"context"}
    <2>1. f.n \in Nat /\ "context" \in ScopeKinds
      BY <1>2 DEF Frames, ScopeKinds
    <2>2. r \in Scopes
      BY <1>2, <2>1, AppendFacts
    <2>3. Ordered(f.op, f.n, r)
      BY <1>2, <1>5, <2>1, StillOrdered
    <2>4. Kinds(r) = K \cup {"context"}
      BY <1>2, <2>1, MoreKinds
    <2> QED
      BY <2>2, <2>3, <2>4
  <1> HIDE DEF K, r
  <1>7. InScope(f.op, f.next + 1, Kinds(r)) /\ InPlace(f.op, f.next + 1, r)
    BY <1>2, <1>3, <1>4, <1>6 DEF InScope, InPlace, Is
  <1>8. f.next # StepCount(f.op)
    BY <1>3, Lengths DEF Is
  <1>9. VmFollows(t, r) /\ OwnOnly(t)
    <2>1. \A k \in {"array", "string"} : k \in Kinds(r) <=> k \in K
      BY <1>6
    <2>2. f.op \notin {"none", "initialize"}
      BY <1>3 DEF Is
    <2> QED
      BY <1>1, <2>1, <2>2, QuietVm, NewObject DEF Owned, K, LiveKinds
  <1>10. Objects(f.op, f.n, Kinds(r), live')
    BY <1>1, <1>2, <1>4, <1>6 DEF ObjectInv, Objects, Owned, K
  <1>11. process' \in Processes \ {"undefined"} /\ initialised' \in BOOLEAN
    BY <1>1, <1>2 DEF Processes, Inv, TypeInv
  <1>12. "engine" \notin Kinds(r)
    BY <1>4, <1>6
  <1> QED
    BY <1>1, <1>6, <1>7, <1>8, <1>9, <1>10, <1>11, <1>12, GoOnStep

LEMMA ConstructArrayStep ==
  ASSUME Inv, NEW t \in Threads, ConstructArray(t)
  PROVE  Inv'
  <1> DEFINE f == frame[t]
             s == Owned(t)
             K == Kinds(s)
             r == Append(s, << "array", f.n >>)
  <1>1. /\ IsAt(t, "array") /\ GoOn(t, r)
        /\ critical' = [critical EXCEPT ![t] = @ + 1]
        /\ UNCHANGED << process, initialised, live, chars, javaVars >>
    BY DEF ConstructArray, Named
  <1>2. /\ process = "running" /\ ScopeInv(f) /\ f.op # "none"
        /\ f \in Frames /\ s \in Scopes /\ Ordered(f.op, f.n, s)
        /\ InScope(f.op, f.next, K) /\ ObjectInv(f, live)
    BY <1>1, At DEF Owned
  <1>3. \/ Is(f, "compileToFunc", 2)
        \/ Is(f, "toLLVMAssemblyCode", 1)
        \/ Is(f, "toMachineAssemblyCode", 2)
    BY <1>1, At, Places
  <1>4. /\ "array" \notin K /\ "module" \notin K /\ "engine" \notin K
        /\ f.op \in Listings => "context" \notin K
    BY <1>2, <1>3 DEF InScope, Is, Listings
  <1>5. \A l \in K : MayPrecede(f.op, l, "array")
    BY <1>4 DEF MayPrecede
  <1>6. /\ r \in Scopes /\ Ordered(f.op, f.n, r)
        /\ Kinds(r) = K \cup {"array"}
    <2>1. f.n \in Nat /\ "array" \in ScopeKinds
      BY <1>2 DEF Frames, ScopeKinds
    <2>2. r \in Scopes
      BY <1>2, <2>1, AppendFacts
    <2>3. Ordered(f.op, f.n, r)
      BY <1>2, <1>5, <2>1, StillOrdered
    <2>4. Kinds(r) = K \cup {"array"}
      BY <1>2, <2>1, MoreKinds
    <2> QED
      BY <2>2, <2>3, <2>4
  <1> HIDE DEF K, r
  <1>7. InScope(f.op, f.next + 1, Kinds(r)) /\ InPlace(f.op, f.next + 1, r)
    BY <1>2, <1>3, <1>4, <1>6 DEF InScope, InPlace, Is
  <1>8. f.next # StepCount(f.op)
    BY <1>3, Lengths DEF Is
  <1>9. VmFollows(t, r) /\ OwnOnly(t)
    <2>1. critical[t] = 0 /\ chars[t] = Held("string", s)
      BY <1>4 DEF Inv, ThreadInv, Held, Owned, K
    <2>2. Held("array", r) = 1 /\ Held("string", r) = Held("string", s)
      BY <1>6 DEF Held, K
    <2>3. critical \in [Threads -> 0 .. 1] /\ chars \in [Threads -> 0 .. 1]
      BY DEF Inv, TypeInv
    <2>4. /\ critical'[t] = 1
          /\ \A u \in Threads \ {t} : critical'[u] = critical[u]
      BY <1>1, <2>1, <2>3
    <2>5. critical' \in [Threads -> 0 .. 1]
      BY <1>1, <2>1, <2>3
    <2> QED
      BY <1>1, <2>1, <2>2, <2>3, <2>4, <2>5, QuietHeap DEF VmFollows
  <1>10. Objects(f.op, f.n, Kinds(r), live')
    BY <1>1, <1>2, <1>6 DEF ObjectInv, Objects, Owned, K
  <1>11. process' \in Processes \ {"undefined"} /\ initialised' \in BOOLEAN
    BY <1>1, <1>2 DEF Processes, Inv, TypeInv
  <1>12. "engine" \notin Kinds(r)
    BY <1>4, <1>6
  <1> QED
    BY <1>1, <1>6, <1>7, <1>8, <1>9, <1>10, <1>11, <1>12, GoOnStep

LEMMA ConstructStringStep ==
  ASSUME Inv, NEW t \in Threads, ConstructString(t)
  PROVE  Inv'
  <1> DEFINE f == frame[t]
             s == Owned(t)
             K == Kinds(s)
             r == Append(s, << "string", f.n >>)
  <1>1. /\ IsAt(t, "string") /\ GoOn(t, r)
        /\ chars' = [chars EXCEPT ![t] = @ + 1]
        /\ UNCHANGED << process, initialised, live, critical, javaVars >>
    BY DEF ConstructString, Named
  <1>2. /\ process = "running" /\ ScopeInv(f) /\ f.op # "none"
        /\ f \in Frames /\ s \in Scopes /\ Ordered(f.op, f.n, s)
        /\ InScope(f.op, f.next, K) /\ InPlace(f.op, f.next, s)
        /\ ObjectInv(f, live)
    BY <1>1, At DEF Owned
  <1>3. Is(f, "compileToFunc", 4) \/ Is(f, "toMachineAssemblyCode", 1)
    BY <1>1, At, Places
  <1>4. /\ "string" \notin K /\ "engine" \notin K
        /\ f.op \in Listings => "context" \notin K /\ "module" \notin K
    BY <1>2, <1>3 DEF InScope, Is, Listings
  <1>5. \A l \in K : MayPrecede(f.op, l, "string")
    BY <1>4 DEF MayPrecede
  <1>6. /\ r \in Scopes /\ Ordered(f.op, f.n, r)
        /\ Kinds(r) = K \cup {"string"}
        /\ Len(r) = Len(s) + 1 /\ \A i \in 1 .. Len(s) : r[i] = s[i]
    <2>1. f.n \in Nat /\ "string" \in ScopeKinds
      BY <1>2 DEF Frames, ScopeKinds
    <2>2. r \in Scopes
      BY <1>2, <2>1, AppendFacts
    <2>3. Ordered(f.op, f.n, r)
      BY <1>2, <1>5, <2>1, StillOrdered
    <2>4. Kinds(r) = K \cup {"string"}
      BY <1>2, <2>1, MoreKinds
    <2>5. Len(r) = Len(s) + 1
      BY <1>2, <2>1, AppendFacts
    <2>6. \A i \in 1 .. Len(s) : r[i] = s[i]
      BY <1>2, <2>1, AppendFacts
    <2> QED
      BY <2>2, <2>3, <2>4, <2>5, <2>6
  <1>7. K # {} => Len(s) > 0
    BY <1>2, KindsFacts
  <1>8. Len(s) \in Nat
    BY <1>2, KindsFacts
  <1> HIDE DEF K, r
  <1>9. InScope(f.op, f.next + 1, Kinds(r))
    BY <1>2, <1>3, <1>4, <1>6 DEF InScope, Is
  <1>10. InPlace(f.op, f.next + 1, r)
    <2>1. CASE Is(f, "compileToFunc", 4)
      <3>1. "module" \in K /\ s[Len(s)][1] = "module"
        BY <1>2, <2>1 DEF InScope, InPlace, Is
      <3>2. Len(s) \in 1 .. Len(s) /\ Len(r) - 1 = Len(s)
        BY <1>6, <1>7, <1>8, <3>1
      <3>3. r[Len(r) - 1][1] = "module" /\ Len(r) > 1
        BY <1>6, <1>8, <3>1, <3>2
      <3> QED
        BY <2>1, <3>3 DEF InPlace, Is
    <2>2. CASE Is(f, "toMachineAssemblyCode", 1)
      BY <2>2 DEF InPlace, Is
    <2> QED
      BY <1>3, <2>1, <2>2
  <1>11. f.next # StepCount(f.op)
    BY <1>3, Lengths DEF Is
  <1>12. VmFollows(t, r) /\ OwnOnly(t)
    <2>1. chars[t] = 0 /\ critical[t] = Held("array", s)
      BY <1>4 DEF Inv, ThreadInv, Held, Owned, K
    <2>2. Held("string", r) = 1 /\ Held("array", r) = Held("array", s)
      BY <1>6 DEF Held, K
    <2>3. critical \in [Threads -> 0 .. 1] /\ chars \in [Threads -> 0 .. 1]
      BY DEF Inv, TypeInv
    <2>4. chars'[t] = 1 /\ \A u \in Threads \ {t} : chars'[u] = chars[u]
      BY <1>1, <2>1, <2>3
    <2>5. chars' \in [Threads -> 0 .. 1]
      BY <1>1, <2>1, <2>3
    <2> QED
      BY <1>1, <2>1, <2>2, <2>3, <2>4, <2>5, QuietHeap DEF VmFollows
  <1>13. Objects(f.op, f.n, Kinds(r), live')
    BY <1>1, <1>2, <1>6 DEF ObjectInv, Objects, Owned, K
  <1>14. process' \in Processes \ {"undefined"} /\ initialised' \in BOOLEAN
    BY <1>1, <1>2 DEF Processes, Inv, TypeInv
  <1>15. "engine" \notin Kinds(r)
    BY <1>4, <1>6
  <1> QED
    BY <1>1, <1>6, <1>9, <1>10, <1>11, <1>12, <1>13, <1>14, <1>15, GoOnStep

LEMMA ParseStep ==
  ASSUME Inv, NEW t \in Threads, Parse(t)
  PROVE  Inv'
  <1> DEFINE f == frame[t]
             s == Owned(t)
             K == Kinds(s)
             r == Append(s, << "module", f.n >>)
  <1>1. /\ IsAt(t, "parse")
        /\ UNCHANGED << initialised, vmVars, javaVars >>
    BY DEF Parse
  <1>2. /\ process = "running" /\ ScopeInv(f) /\ f.op # "none"
        /\ f \in Frames /\ s \in Scopes /\ Ordered(f.op, f.n, s)
        /\ InScope(f.op, f.next, K) /\ ObjectInv(f, live)
    BY <1>1, At DEF Owned
  <1>3. \/ Is(f, "compileToFunc", 3)
        \/ Is(f, "toLLVMAssemblyCode", 3)
        \/ Is(f, "toMachineAssemblyCode", 5)
    BY <1>1, At, Places
  <1>4. "module" \notin K /\ "engine" \notin K /\ "context" \in K
    BY <1>2, <1>3 DEF InScope, Is
  <1>5. \A l \in K : MayPrecede(f.op, l, "module")
    BY <1>4 DEF MayPrecede
  <1>6. /\ r \in Scopes /\ Ordered(f.op, f.n, r)
        /\ Kinds(r) = K \cup {"module"}
        /\ Len(r) = Len(s) + 1 /\ r[Len(s) + 1] = << "module", f.n >>
    <2>1. f.n \in Nat /\ "module" \in ScopeKinds
      BY <1>2 DEF Frames, ScopeKinds
    <2>2. r \in Scopes
      BY <1>2, <2>1, AppendFacts
    <2>3. Ordered(f.op, f.n, r)
      BY <1>2, <1>5, <2>1, StillOrdered
    <2>4. Kinds(r) = K \cup {"module"}
      BY <1>2, <2>1, MoreKinds
    <2>5. Len(r) = Len(s) + 1
      BY <1>2, <2>1, AppendFacts
    <2>6. r[Len(s) + 1] = << "module", f.n >>
      BY <1>2, <2>1, AppendFacts
    <2> QED
      BY <2>2, <2>3, <2>4, <2>5, <2>6
  <1> HIDE DEF K, r
  <1>7. CASE process' = "terminated" /\ UNCHANGED << frame, live >>
    BY <1>1, <1>2, <1>7, EndStep DEF Processes
  <1>8. CASE /\ live' = live \cup {<< "module", f.n >>}
             /\ GoOn(t, r) /\ UNCHANGED process
    <2>1. InScope(f.op, f.next + 1, Kinds(r))
      BY <1>2, <1>3, <1>4, <1>6 DEF InScope, Is
    <2>2. InPlace(f.op, f.next + 1, r)
      <3>1. r[Len(r)][1] = "module"
        BY <1>6
      <3>2. f.op = "compileToFunc" => f.next + 1 = 4
        BY <1>3 DEF Is
      <3> QED
        BY <3>1, <3>2 DEF InPlace
    <2>3. f.next # StepCount(f.op)
      BY <1>3, Lengths DEF Is
    <2>4. VmFollows(t, r) /\ OwnOnly(t)
      <3>1. \A k \in {"array", "string"} : k \in Kinds(r) <=> k \in K
        BY <1>6
      <3>2. f.op \notin {"none", "initialize"}
        BY <1>3 DEF Is
      <3> QED
        BY <1>1, <1>8, <3>1, <3>2, QuietVm, NewObject DEF Owned, K, LiveKinds
    <2>5. Objects(f.op, f.n, Kinds(r), live')
      BY <1>2, <1>4, <1>6, <1>8 DEF ObjectInv, Objects, Owned, K
    <2>6. process' \in Processes \ {"undefined"} /\ initialised' \in BOOLEAN
      BY <1>1, <1>2, <1>8 DEF Processes, Inv, TypeInv
    <2>7. "engine" \notin Kinds(r)
      BY <1>4, <1>6
    <2> QED
      BY <1>1, <1>6, <1>8, <2>1, <2>2, <2>3, <2>4, <2>5, <2>6, <2>7, GoOnStep
  <1> QED
    BY <1>7, <1>8 DEF Parse, ThrowChars, Named, r

(* A statement that leaves the scope of the call and its objects alone, or *)
(* makes a TargetMachine.                                                  *)
LEMMA PlainStep ==
  ASSUME Inv, NEW t \in Threads, NEW step,
         step \in {"find", "address", "target", "result"},
         IsAt(t, step), GoOn(t, Owned(t)),
         \/ UNCHANGED live
         \/ live' = live \cup {<< "machine", frame[t].n >>},
         UNCHANGED << process, initialised, vmVars, javaVars >>
  PROVE  Inv'
  <1> DEFINE f == frame[t]
             s == Owned(t)
             K == Kinds(s)
  <1>1. /\ process = "running" /\ ScopeInv(f) /\ f.op # "none"
        /\ f \in Frames /\ s \in Scopes /\ Ordered(f.op, f.n, s)
        /\ InScope(f.op, f.next, K) /\ InPlace(f.op, f.next, s)
        /\ ObjectInv(f, live)
    BY At DEF Owned
  <1>2. \/ Is(f, "compileToFunc", 5) \/ Is(f, "compileToFunc", 7)
        \/ Is(f, "toMachineAssemblyCode", 4)
        \/ Is(f, "toLLVMAssemblyCode", 5)
        \/ Is(f, "toMachineAssemblyCode", 7)
    BY At, Places
  <1> HIDE DEF K
  <1>3. f.next < StepCount(f.op) => InScope(f.op, f.next + 1, K)
    <2>1. CASE \/ Is(f, "toLLVMAssemblyCode", 5)
               \/ Is(f, "toMachineAssemblyCode", 7)
      BY <2>1, Lengths DEF Is
    <2>2. CASE \/ Is(f, "compileToFunc", 5) \/ Is(f, "compileToFunc", 7)
               \/ Is(f, "toMachineAssemblyCode", 4)
      BY <1>1, <2>2 DEF InScope, Is
    <2> QED
      BY <1>2, <2>1, <2>2
  <1>4. InPlace(f.op, f.next + 1, s)
    BY <1>1, <1>2 DEF InPlace, Is
  <1>5. f.op = "compileToFunc" => f.next # StepCount(f.op)
    BY <1>2, Lengths DEF Is
  <1>6. VmFollows(t, s)
    BY QuietVm DEF Owned
  <1>7. OwnOnly(t)
    <2>1. f.op \notin {"none", "initialize"}
      BY <1>2 DEF Is
    <2> QED
      BY <2>1, QuietHeap, NewObject DEF LiveKinds
  <1>8. Objects(f.op, f.n, K, live')
    <2>1. Objects(f.op, f.n, K, live)
      BY <1>1 DEF ObjectInv, Owned, K
    <2>2. \A k \in LiveKinds \ {"machine"} :
            << k, f.n >> \in live' <=> << k, f.n >> \in live
      OBVIOUS
    <2> QED
      BY <2>1, <2>2 DEF Objects, LiveKinds
  <1>9. process' \in Processes \ {"undefined"} /\ initialised' \in BOOLEAN
    BY <1>1 DEF Processes, Inv, TypeInv
  <1>10. "engine" \in K => "module" \notin K
    BY <1>1 DEF ScopeInv, Owned, K
  <1> QED
    BY <1>1, <1>3, <1>4, <1>5, <1>6, <1>7, <1>8, <1>9, <1>10, GoOnStep DEF K

LEMMA FindStep ==
  ASSUME Inv, NEW t \in Threads, Find(t) \/ FindAddress(t)
  PROVE  Inv'
  <1>1. /\ IsAt(t, "find") \/ IsAt(t, "address")
        /\ GoOn(t, Owned(t)) \/ Throw(t, Owned(t))
        /\ UNCHANGED << process, initialised, live, vmVars, javaVars >>
    BY DEF Find, FindAddress
  <1>2. Owned(t) \in Scopes /\ Ordered(frame[t].op, frame[t].n, Owned(t))
    BY <1>1, At DEF Owned
  <1>3. CASE Throw(t, Owned(t))
    BY <1>1, <1>2, <1>3, ThrowStep DEF Owned
  <1>4. CASE GoOn(t, Owned(t))
    BY <1>1, <1>4, PlainStep
  <1> QED
    BY <1>1, <1>3, <1>4

LEMMA LookupTargetMachineStep ==
  ASSUME Inv, NEW t \in Threads, LookupTargetMachine(t)
  PROVE  Inv'
  <1>1. IsAt(t, "target")
        /\ UNCHANGED << process, initialised, vmVars, javaVars >>
    BY DEF LookupTargetMachine
  <1>2. Owned(t) \in Scopes /\ Ordered(frame[t].op, frame[t].n, Owned(t))
    BY <1>1, At DEF Owned
  <1>3. CASE Throw(t, Owned(t)) /\ UNCHANGED live
    BY <1>1, <1>2, <1>3, ThrowStep DEF Owned
  <1>4. CASE /\ GoOn(t, Owned(t))
             /\ live' = live \cup {<< "machine", frame[t].n >>}
    BY <1>1, <1>4, PlainStep
  <1> QED
    BY <1>3, <1>4 DEF LookupTargetMachine, Named

LEMMA NewStringUTFStep ==
  ASSUME Inv, NEW t \in Threads, NewStringUTF(t)
  PROVE  Inv'
  BY PlainStep DEF NewStringUTF

LEMMA SelectStep ==
  ASSUME Inv, NEW t \in Threads, Select(t)
  PROVE  Inv'
  <1> DEFINE f == frame[t]
  <1>1. /\ IsAt(t, "select")
        /\ UNCHANGED << process, initialised, live, vmVars, javaVars >>
        /\ GoOn(t, << >>) \/ Throw(t, << >>)
    BY DEF Select
  <1>2. /\ process = "running" /\ f \in Frames /\ f.scope \in Scopes
        /\ Ordered(f.op, f.n, f.scope)
        /\ InScope(f.op, f.next, Kinds(f.scope)) /\ ObjectInv(f, live)
    BY <1>1, At
  <1>3. Is(f, "getIntFuncAddr", 1) /\ f.next = StepCount(f.op)
    BY <1>1, At, Places, Lengths DEF Is
  <1>4. f.scope = << >>
    BY <1>2, <1>3, KindsFacts DEF InScope, Is
  <1>5. CASE Throw(t, << >>)
    BY <1>1, <1>2, <1>4, <1>5, ThrowStep
  <1>6. CASE GoOn(t, << >>)
    <2>1. VmFollows(t, << >>) /\ OwnOnly(t)
      BY <1>1, <1>4, QuietVm, QuietHeap
    <2>2. process' \in Processes \ {"undefined"} /\ initialised' \in BOOLEAN
      BY <1>1, <1>2 DEF Processes, Inv, TypeInv
    <2>3. Objects(f.op, f.n, Kinds(<< >>), live')
      BY <1>1, <1>2, <1>4 DEF ObjectInv
    <2>4. f.op # "compileToFunc" /\ ~(f.next < StepCount(f.op))
      BY <1>2, <1>3 DEF Is, Frames
    <2>5. "engine" \notin Kinds(<< >>)
      BY <1>2, <1>4, KindsFacts
    <2> QED
      BY <1>1, <1>2, <1>4, <1>6, <2>1, <2>2, <2>3, <2>4, <2>5, GoOnStep
  <1> QED
    BY <1>1, <1>5, <1>6

LEMMA CreateEngineStep ==
  ASSUME Inv, NEW t \in Threads, CreateEngine(t)
  PROVE  Inv'
  <1> DEFINE f == frame[t]
             s == Owned(t)
             K == Kinds(s)
             rest == RemoveAt(s, Len(s) - 1)
  <1>1. /\ IsAt(t, "engine")
        /\ UNCHANGED << process, initialised, vmVars, javaVars >>
    BY DEF CreateEngine
  <1>2. /\ process = "running" /\ ScopeInv(f) /\ f.op # "none"
        /\ f \in Frames /\ s \in Scopes /\ Ordered(f.op, f.n, s)
        /\ InScope(f.op, f.next, K) /\ InPlace(f.op, f.next, s)
        /\ ObjectInv(f, live)
    BY <1>1, At DEF Owned
  <1>3. Is(f, "compileToFunc", 6)
    BY <1>1, At, Places
  <1>4. /\ "context" \in K /\ "module" \in K /\ "engine" \notin K
    BY <1>2, <1>3 DEF InScope, Is
  <1>5. Len(s) - 1 \in 1 .. Len(s) /\ s[Len(s) - 1][1] = "module"
    BY <1>2, <1>3, KindsFacts DEF InPlace, Is
  <1>6. f.n \in Nat /\ "module" \in ScopeKinds /\ "engine" \in ScopeKinds
    BY <1>2 DEF Frames, ScopeKinds
  <1>7. rest \in Scopes /\ Ordered(f.op, f.n, rest)
    BY <1>2, <1>5, <1>6, Without
  <1>8. Kinds(rest) = K \ {"module"}
    <2>1. Kinds(rest) = K \ {s[Len(s) - 1][1]}
      BY <1>2, <1>5, <1>6, <1>7, Without
    <2> QED
      BY <1>5, <2>1
  <1> HIDE DEF K, rest
  <1>9. CASE UNCHANGED live /\ Throw(t, Append(rest, << "module", f.n >>))
    <2> DEFINE r == Append(rest, << "module", f.n >>)
    <2>1. \A l \in Kinds(rest) : MayPrecede(f.op, l, "module")
      BY <1>8 DEF MayPrecede
    <2>2. r \in Scopes
      BY <1>6, <1>7, AppendFacts
    <2>3. Ordered(f.op, f.n, r)
      BY <1>6, <1>7, <2>1, StillOrdered
    <2>4. Kinds(r) = Kinds(rest) \cup {"module"}
      BY <1>6, <1>7, MoreKinds
    <2> HIDE DEF r
    <2>5. Kinds(r) = Kinds(f.scope)
      BY <1>4, <1>8, <2>4 DEF K, Owned
    <2> QED
      BY <1>1, <1>9, <2>2, <2>3, <2>5, ThrowStep DEF r
  <1>10. CASE /\ live' = live \cup {<< "engine", f.n >>}
              /\ GoOn(t, Append(rest, << "engine", f.n >>))
    <2> DEFINE r == Append(rest, << "engine", f.n >>)
    <2>1. \A l \in Kinds(rest) : MayPrecede(f.op, l, "engine")
      BY <1>4, <1>8 DEF MayPrecede
    <2>2. r \in Scopes
      BY <1>6, <1>7, AppendFacts
    <2>3. Ordered(f.op, f.n, r)
      BY <1>6, <1>7, <2>1, StillOrdered
    <2>4. Kinds(r) = Kinds(rest) \cup {"engine"}
      BY <1>6, <1>7, MoreKinds
    <2>5. Len(r) = Len(rest) + 1
      BY <1>6, <1>7, AppendFacts
    <2>6. r[Len(rest) + 1] = << "engine", f.n >>
      BY <1>6, <1>7, AppendFacts
    <2> HIDE DEF r
    <2>7. Kinds(r) = (K \ {"module"}) \cup {"engine"}
      BY <1>8, <2>4
    <2>8. InScope(f.op, f.next + 1, Kinds(r))
      BY <1>2, <1>3, <1>4, <2>7 DEF InScope, Is
    <2>9. InPlace(f.op, f.next + 1, r)
      BY <1>3, <2>5, <2>6 DEF InPlace, Is
    <2>10. f.next # StepCount(f.op)
      BY <1>3, Lengths DEF Is
    <2>11. VmFollows(t, r) /\ OwnOnly(t)
      <3>1. \A k \in {"array", "string"} : k \in Kinds(r) <=> k \in K
        BY <2>7
      <3>2. f.op \notin {"none", "initialize"}
        BY <1>3 DEF Is
      <3> QED
        BY <1>1, <1>10, <3>1, <3>2, QuietVm, NewObject DEF Owned, K, LiveKinds
    <2>12. Objects(f.op, f.n, Kinds(r), live')
      <3>1. f.op = "compileToFunc"
        BY <1>3 DEF Is
      <3>2. << "context", f.n >> \in live /\ << "module", f.n >> \in live
        BY <1>2, <1>4 DEF ObjectInv, Objects, Owned, K
      <3> QED
        BY <1>4, <1>10, <2>7, <3>1, <3>2 DEF Objects
    <2>13. process' \in Processes \ {"undefined"} /\ initialised' \in BOOLEAN
      BY <1>1, <1>2 DEF Processes, Inv, TypeInv
    <2>14. "engine" \in Kinds(r) => "module" \notin Kinds(r)
      BY <2>7
    <2> QED
      BY <1>1, <1>10, <2>2, <2>3, <2>8, <2>9, <2>10, <2>11, <2>12, <2>13, <2>14,
         GoOnStep DEF r
  <1> QED
    BY <1>9, <1>10 DEF CreateEngine, Named, rest

LEMMA NewStateStep ==
  ASSUME Inv, NEW t \in Threads, NewState(t)
  PROVE  Inv'
  <1> DEFINE f == frame[t]
             s == Owned(t)
             K == Kinds(s)
             r == Front(s)
  <1>1. /\ IsAt(t, "state") /\ GoOn(t, r)
        /\ live' = live \cup {<< "state", f.n >>}
        /\ UNCHANGED << process, initialised, vmVars, javaVars >>
    BY DEF NewState, Named
  <1>2. /\ process = "running" /\ ScopeInv(f) /\ f.op # "none"
        /\ f \in Frames /\ s \in Scopes /\ Ordered(f.op, f.n, s)
        /\ InScope(f.op, f.next, K) /\ InPlace(f.op, f.next, s)
        /\ ObjectInv(f, live)
    BY <1>1, At DEF Owned
  <1>3. Is(f, "compileToFunc", 8) /\ f.next = StepCount(f.op)
    BY <1>1, At, Places, Lengths DEF Is
  <1>4. "context" \in K /\ "module" \notin K /\ "engine" \in K
    BY <1>2, <1>3 DEF InScope, Is
  <1>5. s # << >> /\ f.n \in Nat
    BY <1>2, <1>4, KindsFacts DEF Frames
  <1>6. r \in Scopes /\ Ordered(f.op, f.n, r)
    BY <1>2, <1>5, Shorter
  <1>7. Kinds(r) = K \ {"engine"}
    <2>1. Last(s)[1] = "engine"
      <3>1. Last(s) = s[Len(s)]
        BY <1>2, <1>5, Shorter
      <3> QED
        BY <1>2, <1>3, <3>1 DEF InPlace, Is
    <2> QED
      BY <1>2, <1>5, <2>1, Shorter
  <1> HIDE DEF K, r
  <1>8. VmFollows(t, r) /\ OwnOnly(t)
    <2>1. \A k \in {"array", "string"} : k \in Kinds(r) <=> k \in K
      BY <1>7
    <2>2. f.op \notin {"none", "initialize"}
      BY <1>3 DEF Is
    <2> QED
      BY <1>1, <2>1, <2>2, QuietVm, NewObject DEF Owned, K, LiveKinds
  <1>9. << "context", f.n >> \in live /\ << "engine", f.n >> \in live
    BY <1>2, <1>4 DEF ObjectInv, Objects, Owned, K
  <1>10. Objects(f.op, f.n, Kinds(r), live')
    BY <1>1, <1>3, <1>4, <1>7, <1>9 DEF Objects, Is
  <1>11. Made(f.n, live')
    BY <1>1, <1>9 DEF Made
  <1>12. process' \in Processes \ {"undefined"} /\ initialised' \in BOOLEAN
    BY <1>1, <1>2 DEF Processes, Inv, TypeInv
  <1>13. "engine" \notin Kinds(r) /\ ~(f.next < StepCount(f.op))
    BY <1>2, <1>3, <1>7 DEF Frames
  <1> QED
    BY <1>1, <1>6, <1>8, <1>10, <1>11, <1>12, <1>13, GoOnStep

(* The states that Java may release are there until it does.               *)
StatesKept ==
  \A n \in Nat : << "state", n >> \in live => << "state", n >> \in live'

(* The destructor of the youngest object in scope.                         *)
LEMMA DestroyYoungest ==
  ASSUME Inv, NEW t \in Threads, process = "running", frame[t].op # "none",
         frame[t].scope # << >>, Destroy(t, Last(frame[t].scope))
  PROVE  /\ process' = process
         /\ StatesKept
         /\ OwnOnly(t)
         /\ VmFollows(t, Front(frame[t].scope))
         /\ Objects(frame[t].op, frame[t].n, Kinds(Front(frame[t].scope)),
                    live')
         /\ frame[t].op = "compileToFunc" /\ frame[t].mode = "returning" =>
              Made(frame[t].n, live')
  <1> DEFINE f == frame[t]
             s == f.scope
             K == Kinds(s)
             o == Last(s)
             k == o[1]
             R == Kinds(Front(s))
  <1>1. /\ f \in Frames /\ s \in Scopes /\ Ordered(f.op, f.n, s)
        /\ ScopeInv(f) /\ ObjectInv(f, live) /\ f.n \in Nat
    BY DEF Inv, ThreadInv, ScopeInv, Frames, Scopes
  <1>2. o = << k, f.n >> /\ k \in K /\ k \in ScopeKinds
    <2>1. o = << k, f.n >> /\ k \in K
      BY <1>1, Shorter
    <2> QED
      BY <1>1, <2>1, KindsFacts
  <1>3. R = K \ {k}
    BY <1>1, Shorter
  <1>4. \A l \in R : MayPrecede(f.op, l, k)
    BY <1>1, Shorter
  <1> HIDE DEF R
  <1>5. /\ "engine" \in K => "module" \notin K
        /\ f.op = "compileToFunc" /\ f.mode = "returning" => "engine" \notin K
    BY <1>1 DEF ScopeInv
  <1>6. /\ Objects(f.op, f.n, K, live)
        /\ f.op = "compileToFunc" /\ f.mode = "returning" => Made(f.n, live)
    BY <1>1 DEF ObjectInv
  <1> HIDE DEF K
  <1>7. /\ live' = AfterDestroying(o)
        /\ critical' = [critical EXCEPT ![t] = IF k = "array" THEN @ - 1 ELSE @]
        /\ chars' = [chars EXCEPT ![t] = IF k = "string" THEN @ - 1 ELSE @]
        /\ process' = IF DestroysTwice(o) THEN "undefined" ELSE process
    BY DEF Destroy
  <1> HIDE DEF o, k, s
  <1>8. o[1] = k /\ o[2] = f.n
    BY <1>2
  <1>9. \/ k = "context" /\ live' = live \ {o, << "module", f.n >>}
        \/ k = "engine" /\ live' = live \ {o, << "module", f.n >>}
        \/ k \in {"array", "string", "module"} /\ live' = live \ {o}
    BY <1>2, <1>7, <1>8 DEF AfterDestroying, ScopeKinds
  <1>10. ~DestroysTwice(o)
    BY <1>2, <1>6, <1>8 DEF DestroysTwice, Objects
  <1>11. StatesKept
    BY <1>2, <1>9 DEF StatesKept
  <1>12. OwnOnly(t)
    <2>1. live' \subseteq live
      BY <1>9
    <2>2. live \subseteq LiveKinds \X (1 .. calls)
      BY DEF Inv, TypeInv
    <2>3. \A l \in LiveKinds, n \in 1 .. calls :
            n # f.n => (<< l, n >> \in live' <=> << l, n >> \in live)
      BY <1>2, <1>9
    <2> QED
      BY <2>1, <2>2, <2>3 DEF OwnOnly
  <1>13. VmFollows(t, Front(s))
    <2>1. /\ critical[t] = Held("array", s) /\ chars[t] = Held("string", s)
          /\ critical \in [Threads -> 0 .. 1] /\ chars \in [Threads -> 0 .. 1]
      BY DEF Inv, ThreadInv, TypeInv, s
    <2>2. /\ k = "array" => Held("array", s) = 1
          /\ k = "string" => Held("string", s) = 1
      BY <1>2 DEF Held, K
    <2>3. /\ k = "array" => Held("array", Front(s)) = 0
          /\ k # "array" => Held("array", Front(s)) = Held("array", s)
          /\ k = "string" => Held("string", Front(s)) = 0
          /\ k # "string" => Held("string", Front(s)) = Held("string", s)
      BY <1>3 DEF Held, K, R
    <2>4. \A u \in Threads \ {t} :
            critical'[u] = critical[u] /\ chars'[u] = chars[u]
      BY <1>7, <2>1
    <2>5. /\ critical'[t] = Held("array", Front(s))
          /\ chars'[t] = Held("string", Front(s))
      BY <1>7, <2>1, <2>2, <2>3
    <2>6. \A l \in {"array", "string"} : Held(l, Front(s)) \in 0 .. 1
      BY DEF Held
    <2>7. critical' \in [Threads -> 0 .. 1] /\ chars' \in [Threads -> 0 .. 1]
      BY <1>7, <2>1, <2>5, <2>6
    <2> QED
      BY <2>4, <2>5, <2>7 DEF VmFollows
  <1>14. Objects(f.op, f.n, R, live')
    <2>1. CASE k = "context"
      <3>1. R \cap {"context", "module", "engine"} = {}
        BY <1>3, <1>4, <2>1 DEF MayPrecede
      <3> QED
        BY <1>2, <1>6, <1>9, <2>1, <3>1 DEF Objects
    <2>2. CASE k = "module"
      <3>1. "engine" \notin R /\ "module" \notin R
        BY <1>2, <1>3, <1>5, <2>2
      <3> QED
        BY <1>2, <1>3, <1>6, <1>9, <2>2, <3>1 DEF Objects
    <2>3. CASE k = "engine"
      <3>1. "engine" \notin R /\ "module" \notin R
        BY <1>2, <1>3, <1>5, <2>3
      <3> QED
        BY <1>2, <1>3, <1>6, <1>9, <2>3, <3>1 DEF Objects
    <2>4. CASE k \in {"array", "string"}
      <3>1. \A l \in {"context", "module", "engine", "state"} :
              << l, f.n >> \in live' <=> << l, f.n >> \in live
        BY <1>2, <1>9, <2>4
      <3>2. \A l \in {"context", "module", "engine"} : l \in R <=> l \in K
        BY <1>3, <2>4
      <3> QED
        BY <1>6, <3>1, <3>2 DEF Objects
    <2> QED
      BY <1>2, <2>1, <2>2, <2>3, <2>4 DEF ScopeKinds
  <1>15. f.op = "compileToFunc" /\ f.mode = "returning" => Made(f.n, live')
    BY <1>2, <1>5, <1>6, <1>9 DEF Made
  <1> QED
    BY <1>7, <1>10, <1>11, <1>12, <1>13, <1>14, <1>15 DEF o, s, R

LEMMA UnwindStep ==
  ASSUME Inv, NEW t \in Threads, Unwind(t)
  PROVE  /\ Inv'
         /\ process' = process
         /\ StatesKept
  <1> DEFINE f == frame[t]
             s == f.scope
             g == [f EXCEPT !.mode = f.mode, !.scope = Front(s)]
  <1>1. /\ process = "running" /\ f.mode \in {"returning", "throwing"}
        /\ s # << >> /\ Destroy(t, Last(s))
        /\ frame' = [frame EXCEPT ![t] = [f EXCEPT !.scope = Front(s)]]
        /\ initialised' = initialised /\ UNCHANGED javaVars
    BY DEF Unwind, Owned
  <1>2. /\ f \in Frames /\ s \in Scopes /\ Ordered(f.op, f.n, s)
        /\ ScopeInv(f) /\ f.n \in Nat
    BY DEF Inv, ThreadInv, ScopeInv, Frames, Scopes
  <1>3. f.op # "none"
    BY <1>1, <1>2 DEF ScopeInv, InJava, Frame
  <1>4. /\ process' = process
        /\ StatesKept
        /\ OwnOnly(t) /\ VmFollows(t, Front(s))
        /\ Objects(f.op, f.n, Kinds(Front(s)), live')
        /\ f.op = "compileToFunc" /\ f.mode = "returning" => Made(f.n, live')
    BY <1>1, <1>3, DestroyYoungest
  <1>5. /\ Front(s) \in Scopes /\ Ordered(f.op, f.n, Front(s))
        /\ Kinds(Front(s)) \subseteq Kinds(s)
    BY <1>1, <1>2, Shorter
  <1>6. /\ "engine" \in Kinds(Front(s)) => "module" \notin Kinds(Front(s))
        /\ f.op = "compileToFunc" /\ f.mode = "returning" =>
             "engine" \notin Kinds(Front(s))
    BY <1>2, <1>5 DEF ScopeInv
  <1>7. ScopeInv(g)
    BY <1>1, <1>2, <1>3, <1>5, <1>6, Leaves
  <1>8. g.op = f.op /\ g.n = f.n /\ g.scope = Front(s) /\ g.mode = f.mode
    BY <1>2 DEF Frames
  <1>9. frame' = [frame EXCEPT ![t] = g]
    <2>1. g = [f EXCEPT !.scope = Front(s)]
      BY <1>2 DEF Frames
    <2> QED
      BY <1>1, <2>1
  <1> HIDE DEF g
  <1>10. ObjectInv(g, live')
    BY <1>4, <1>8 DEF ObjectInv
  <1>11. process' \in Processes \ {"undefined"} /\ initialised' \in BOOLEAN
    BY <1>1, <1>4 DEF Processes, Inv, TypeInv
  <1>12. Inv'
    BY <1>1, <1>3, <1>4, <1>7, <1>8, <1>9, <1>10, <1>11, LocalStep
  <1> QED
    BY <1>4, <1>12

LEMMA LeaveInnerStep ==
  ASSUME Inv, NEW t \in Threads, LeaveInner(t)
  PROVE  /\ Inv'
         /\ process' = process
         /\ StatesKept
  <1> DEFINE f == frame[t]
             s == f.scope
             K == Kinds(s)
             R == Kinds(Front(s))
  <1>1. /\ IsAt(t, "leave") /\ Destroy(t, Last(s))
        /\ frame' = [frame EXCEPT ![t] =
                       IF Last(s) = << "context", f.n >>
                       THEN Proceed(f, Front(s))
                       ELSE [f EXCEPT !.scope = Front(s)]]
        /\ initialised' = initialised /\ UNCHANGED javaVars
    BY DEF LeaveInner, Owned, Named
  <1>2. /\ process = "running" /\ ScopeInv(f) /\ f.op # "none"
        /\ f \in Frames /\ s \in Scopes /\ Ordered(f.op, f.n, s)
        /\ InScope(f.op, f.next, K) /\ f.mode = "running"
        /\ f.next \in 1 .. StepCount(f.op)
    BY <1>1, At
  <1>3. Is(f, "toLLVMAssemblyCode", 4) \/ Is(f, "toMachineAssemblyCode", 6)
    BY <1>1, At, Places
  <1>4. "context" \in K /\ "engine" \notin K /\ f.op \in Listings
    BY <1>2, <1>3 DEF InScope, Is, Listings
  <1>5. s # << >> /\ f.n \in Nat
    BY <1>2, <1>4, KindsFacts DEF Frames
  <1>6. /\ Front(s) \in Scopes /\ Ordered(f.op, f.n, Front(s))
        /\ Last(s) = << Last(s)[1], f.n >> /\ Last(s)[1] \in K
    BY <1>2, <1>5, Shorter
  <1>7. R = K \ {Last(s)[1]}
    BY <1>2, <1>5, Shorter
  <1>8. \A k \in R : MayPrecede(f.op, k, Last(s)[1])
    BY <1>2, <1>5, Shorter
  <1>9. /\ process' = process
        /\ StatesKept
        /\ OwnOnly(t) /\ VmFollows(t, Front(s))
        /\ Objects(f.op, f.n, R, live')
    BY <1>1, <1>2, <1>5, DestroyYoungest
  <1>10. process' \in Processes \ {"undefined"} /\ initialised' \in BOOLEAN
    BY <1>1, <1>2, <1>9 DEF Processes, Inv, TypeInv
  <1>11. f.op # "compileToFunc"
    BY <1>3 DEF Is
  <1> HIDE DEF K, R
  <1>12. Last(s)[1] \in {"context", "module"}
    <2>1. Last(s)[1] \in {"context", "array", "module", "string"}
      <3>1. K \subseteq ScopeKinds
        BY <1>2, KindsFacts DEF K
      <3> QED
        BY <1>4, <1>6, <3>1 DEF ScopeKinds
    <2>2. CASE Last(s)[1] \in {"array", "string"}
      <3>1. "context" \in R
        BY <1>4, <1>7, <2>2
      <3>2. MayPrecede(f.op, "context", Last(s)[1])
        BY <1>8, <3>1
      <3> QED
        BY <1>4, <2>2, <3>2 DEF MayPrecede
    <2> QED
      BY <2>1, <2>2
  <1>13. CASE Last(s)[1] = "context"
    <2> DEFINE g == Proceed(f, Front(s))
    <2>1. frame' = [frame EXCEPT ![t] = g]
      BY <1>1, <1>6, <1>13
    <2>2. "context" \notin R /\ "module" \notin R /\ "engine" \notin R
      <3>1. "module" \in R => MayPrecede(f.op, "module", "context")
        BY <1>8, <1>13
      <3> QED
        BY <1>4, <1>7, <1>13, <3>1 DEF MayPrecede
    <2>3. \A k \in {"array", "string"} : k \in R <=> k \in K
      BY <1>7, <1>13
    <2>4. InScope(f.op, f.next + 1, R)
      BY <1>2, <1>3, <2>2, <2>3 DEF InScope, Is
    <2>5. InPlace(f.op, f.next + 1, Front(s))
      BY <1>11 DEF InPlace
    <2>6. ScopeInv(g)
      BY <1>2, <1>4, <1>6, <1>11, <2>2, <2>4, <2>5, GoesOn, StepsOf
         DEF R, Listings
    <2>7. g.op = f.op /\ g.n = f.n /\ g.scope = Front(s)
      BY <1>2, <1>4, <1>6, ProceedFacts, StepsOf DEF Listings
    <2> HIDE DEF g
    <2>8. ObjectInv(g, live')
      BY <1>9, <1>11, <2>7 DEF ObjectInv, R
    <2>9. Inv'
      BY <1>1, <1>2, <1>9, <1>10, <2>1, <2>6, <2>7, <2>8, LocalStep
    <2> QED
      BY <1>9, <2>9
  <1>14. CASE Last(s)[1] = "module"
    <2> DEFINE g == [f EXCEPT !.scope = Front(s)]
    <2>1. frame' = [frame EXCEPT ![t] = g]
      <3>1. Last(s) # << "context", f.n >>
        BY <1>14
      <3> QED
        BY <1>1, <3>1
    <2>2. /\ g \in Frames /\ g.op = f.op /\ g.n = f.n /\ g.scope = Front(s)
          /\ g.mode = "running" /\ g.next = f.next
      BY <1>2, <1>6 DEF Frames, Scopes
    <2> HIDE DEF g
    <2>3. "module" \notin R /\ "engine" \notin R
      BY <1>4, <1>7, <1>14
    <2>4. \A k \in {"array", "string", "context"} : k \in R <=> k \in K
      BY <1>7, <1>14
    <2>5. InScope(f.op, f.next, R)
      BY <1>2, <1>3, <2>3, <2>4 DEF InScope, Is
    <2>6. InPlace(f.op, f.next, Front(s))
      BY <1>11 DEF InPlace
    <2>7. f.n = 0 => f.op \in {"none", "initialize"}
      BY <1>2 DEF ScopeInv
    <2>8. ScopeInv(g)
      BY <1>2, <1>6, <1>11, <2>2, <2>3, <2>5, <2>6, <2>7 DEF ScopeInv, R
    <2>9. ObjectInv(g, live')
      BY <1>9, <1>11, <2>2 DEF ObjectInv, R
    <2>10. Inv'
      BY <1>1, <1>2, <1>9, <1>10, <2>1, <2>2, <2>8, <2>9, LocalStep
    <2> QED
      BY <1>9, <2>10
  <1> QED
    BY <1>12, <1>13, <1>14

LEMMA ThrowExceptionStep ==
  ASSUME Inv, NEW t \in Threads, ThrowException(t)
  PROVE  Inv'
  BY EndStep DEF ThrowException, Processes

-----------------------------------------------------------------------------
(* A call begins or ends.                                                  *)

(* Java calls nothing.                                                     *)
LEMMA JavaFrame ==
  /\ InJava \in Frames /\ InJava.op = "none" /\ InJava.n = 0
  /\ InJava.scope = << >>
  /\ ScopeInv(InJava)
  /\ \A L \in SUBSET (LiveKinds \X (Nat \ {0})) : ObjectInv(InJava, L)
  <1>1. InJava = [ op |-> "none", n |-> 0, arg |-> << >>, next |-> 1,
                   mode |-> "running", scope |-> << >> ]
    BY DEF InJava, Frame
  <1>2. << >> \in Scopes /\ Kinds(<< >>) = {} /\ Len(<< >>) = 0
    <2>1. << >> \in Scopes
      BY DEF Scopes
    <2> QED
      BY <2>1, KindsFacts
  <1>3. InJava \in Frames
    BY <1>1, <1>2 DEF Frames, Args, Modes, Scopes
  <1>4. Ordered("none", 0, << >>)
    BY <1>2 DEF Ordered
  <1>5. ScopeInv(InJava)
    BY <1>1, <1>2, <1>3, <1>4 DEF ScopeInv
  <1>6. ASSUME NEW L \in SUBSET (LiveKinds \X (Nat \ {0}))
        PROVE  ObjectInv(InJava, L)
    <2>1. \A k : << k, 0 >> \notin L
      OBVIOUS
    <2> QED
      BY <1>1, <1>2, <2>1 DEF ObjectInv, Objects
  <1> QED
    BY <1>1, <1>3, <1>5, <1>6

LEMMA ReturnStep ==
  ASSUME Inv, NEW t \in Threads, Return(t)
  PROVE  Inv'
  <1> DEFINE f == frame[t]
             returned == IF f.op = "compileToFunc" THEN {f.n} ELSE {}
  <1>1. /\ process = "running" /\ f.mode = "returning" /\ f.scope = << >>
        /\ frame' = [frame EXCEPT ![t] = InJava]
        /\ handles' = handles \cup returned
        /\ UNCHANGED << process, initialised, live, vmVars, addresses, calls >>
    BY DEF Return, Owned
  <1>2. /\ f \in Frames /\ ScopeInv(f) /\ ObjectInv(f, live)
        /\ critical[t] = Held("array", << >>)
        /\ chars[t] = Held("string", << >>)
    BY <1>1 DEF Inv, ThreadInv, ScopeInv
  <1>3. Kinds(<< >>) = {}
    <2>1. << >> \in Scopes
      BY DEF Scopes
    <2> QED
      BY <2>1, KindsFacts
  <1>4. /\ live \subseteq LiveKinds \X (1 .. calls) /\ calls \in Nat
        /\ frame \in [Threads -> Frames]
    BY DEF Inv, TypeInv
  <1>5. f.op = "compileToFunc" =>
          /\ f.n \in 1 .. calls
          /\ << "engine", f.n >> \in live /\ << "state", f.n >> \in live
    BY <1>1, <1>2, <1>4 DEF Inv, NumberInv, ScopeInv, ObjectInv, Made
  <1>6. << "module", f.n >> \notin live /\ << "context", f.n >> \notin live
    BY <1>1, <1>2, <1>3 DEF ObjectInv, Objects
  <1>7. << "engine", f.n >> \in live \/ << "state", f.n >> \in live =>
          f.op = "compileToFunc"
    BY <1>2 DEF ObjectInv, Objects
  <1>8. /\ frame'[t] = InJava /\ frame' \in [Threads -> Frames]
        /\ \A u \in Threads \ {t} : frame'[u] = frame[u]
    BY <1>1, <1>4, JavaFrame
  <1> HIDE DEF f
  <1>9. TypeInv'
    BY <1>1, <1>5, <1>8 DEF Inv, TypeInv, vmVars
  <1>10. ASSUME NEW u \in Threads
         PROVE  ThreadInv(u)'
    <2>1. CASE u = t
      <3>1. ScopeInv(InJava) /\ InJava.scope = << >>
        BY JavaFrame
      <3>2. ObjectInv(InJava, live)
        <4>1. live \in SUBSET (LiveKinds \X (Nat \ {0}))
          BY <1>4
        <4> QED
          BY <4>1, JavaFrame
      <3> QED
        BY <1>1, <1>2, <1>8, <2>1, <3>1, <3>2 DEF ThreadInv, vmVars
    <2>2. CASE u # t
      BY <1>1, <1>8, <2>2 DEF Inv, ThreadInv, vmVars
    <2> QED
      BY <2>1, <2>2
  <1>11. NumberInv'
    <2>1. ASSUME NEW u \in Threads, u # t
          PROVE  /\ frame'[u].n = frame[u].n
                 /\ \A n \in handles' \cup addresses : frame[u].n # n
      <3>1. f.op = "compileToFunc" => frame[u].n # f.n
        BY <1>5, <2>1 DEF Inv, NumberInv, f
      <3> QED
        BY <1>1, <1>8, <2>1, <3>1 DEF Inv, NumberInv
    <2>2. frame'[t].n = 0
      BY <1>8, JavaFrame
    <2>3. \A n \in handles' \cup addresses : n # 0
      BY <1>1, <1>5 DEF Inv, TypeInv
    <2>4. \A u \in Threads : frame'[u].n \in 0 .. calls
      BY <1>4, <2>1, <2>2 DEF Inv, NumberInv
    <2>5. \A u, v \in Threads :
            u # v /\ frame'[u].n # 0 => frame'[u].n # frame'[v].n
      BY <2>1, <2>2 DEF Inv, NumberInv
    <2>6. \A n \in handles' \cup addresses : \A u \in Threads : frame'[u].n # n
      BY <2>1, <2>2, <2>3
    <2> QED
      BY <1>1, <2>4, <2>5, <2>6 DEF NumberInv
  <1>12. HandleInv'
    BY <1>1, <1>5, <1>6 DEF Inv, HandleInv
  <1>13. OnlyHandlesOutlive'
    <2> SUFFICES ASSUME NEW o \in live
                 PROVE  \/ \E u \in Threads :
                             frame'[u] # InJava /\ frame'[u].n = o[2]
                        \/ o[1] \in {"engine", "state"} /\ o[2] \in handles'
                        \/ o[1] = "machine"
      BY <1>1 DEF OnlyHandlesOutlive
    <2>1. CASE o[2] = f.n
      <3>1. o = << o[1], f.n >> /\ o[1] \in LiveKinds
        BY <1>4, <2>1
      <3>2. o[1] \in {"engine", "state", "machine"}
        BY <1>6, <3>1 DEF LiveKinds
      <3>3. o[1] \in {"engine", "state"} => o[2] \in handles'
        BY <1>1, <1>7, <2>1, <3>1
      <3> QED
        BY <3>2, <3>3
    <2>2. CASE o[2] # f.n
      <3>1. \/ \E u \in Threads : frame[u] # InJava /\ frame[u].n = o[2]
            \/ o[1] \in {"engine", "state"} /\ o[2] \in handles
            \/ o[1] = "machine"
        BY DEF Inv, OnlyHandlesOutlive
      <3>2. ASSUME NEW u \in Threads, frame[u] # InJava, frame[u].n = o[2]
            PROVE  frame'[u] # InJava /\ frame'[u].n = o[2]
        BY <1>8, <2>2, <3>2 DEF f
      <3> QED
        BY <1>1, <3>1, <3>2
    <2> QED
      BY <2>1, <2>2
  <1> QED
    BY <1>9, <1>10, <1>11, <1>12, <1>13 DEF Inv

(* A call that begins has an empty scope.                                  *)
LEMMA NewFrame ==
  ASSUME NEW op \in Operations, NEW n \in Nat, NEW arg \in Args,
         n = 0 => op = "initialize"
  PROVE  /\ ScopeInv(Frame(op, n, arg)) /\ Frame(op, n, arg).n = n
         /\ Frame(op, n, arg) # InJava
         /\ Frame(op, n, arg).scope = << >>
         /\ \A L : << "engine", n >> \notin L /\ << "state", n >> \notin L
                   /\ << "context", n >> \notin L /\ << "module", n >> \notin L
                   => ObjectInv(Frame(op, n, arg), L)
  <1> DEFINE f == Frame(op, n, arg)
  <1>1. f = [ op |-> op, n |-> n, arg |-> arg, next |-> 1,
              mode |-> "running", scope |-> << >> ]
    BY DEF Frame
  <1>2. << >> \in Scopes /\ Kinds(<< >>) = {} /\ Len(<< >>) = 0
    <2>1. << >> \in Scopes
      BY DEF Scopes
    <2> QED
      BY <2>1, KindsFacts
  <1>3. f \in Frames /\ op # "none"
    BY <1>1, <1>2, StepsOf DEF Frames, Modes, Scopes
  <1>4. f.op = op /\ f.n = n /\ f.next = 1 /\ f.mode = "running"
        /\ f.scope = << >>
    BY <1>1
  <1> HIDE DEF f
  <1>5. Ordered(op, n, << >>)
    BY <1>2 DEF Ordered
  <1>6. 1 \in 1 .. StepCount(op)
    <2>1. \/ op = "initialize" \/ op = "getIntFuncAddr"
          \/ op = "compileToFunc" \/ op = "toLLVMAssemblyCode"
          \/ op = "toMachineAssemblyCode"
      BY StepsOf
    <2> QED
      BY <2>1, Lengths
  <1>7. InScope(op, 1, {}) /\ InPlace(op, 1, << >>)
    BY DEF InScope, InPlace
  <1>8. ScopeInv(f)
    BY <1>2, <1>3, <1>4, <1>5, <1>6, <1>7 DEF ScopeInv
  <1>9. f # InJava
    BY <1>3, <1>4, JavaFrame
  <1>10. ASSUME NEW L,
                << "engine", n >> \notin L, << "state", n >> \notin L,
                << "context", n >> \notin L, << "module", n >> \notin L
         PROVE  ObjectInv(f, L)
    BY <1>2, <1>4, <1>10 DEF ObjectInv, Objects
  <1> QED
    BY <1>4, <1>8, <1>9, <1>10 DEF f

LEMMA BeginStep ==
  ASSUME Inv, NEW t \in Threads, frame[t] = InJava, process = "running",
         NEW g, frame' = [frame EXCEPT ![t] = g],
         ScopeInv(g), g # InJava, g.scope = << >>, g.n \in {0, calls'},
         ObjectInv(g, live), calls' \in {calls, calls + 1},
         g.n # 0 => calls' = calls + 1, calls' <= MaxCalls,
         UNCHANGED << process, initialised, live, vmVars, handles, addresses >>
  PROVE  Inv'
  <1>1. /\ frame \in [Threads -> Frames] /\ calls \in Nat /\ g \in Frames
        /\ live \subseteq LiveKinds \X (1 .. calls)
        /\ handles \subseteq 1 .. calls /\ addresses \subseteq 1 .. calls
        /\ critical' = critical /\ chars' = chars
    BY DEF Inv, TypeInv, ScopeInv, vmVars
  <1>2. /\ frame'[t] = g /\ frame' \in [Threads -> Frames]
        /\ \A u \in Threads \ {t} : frame'[u] = frame[u]
    BY <1>1
  <1>3. calls' \in Nat /\ \A n \in 1 .. calls : n \in 1 .. calls'
    BY <1>1
  <1>4. TypeInv'
    <2>1. live' \subseteq LiveKinds \X (1 .. calls')
      BY <1>1, <1>3
    <2> QED
      BY <1>1, <1>2, <1>3, <2>1 DEF Inv, TypeInv
  <1>5. ASSUME NEW u \in Threads
        PROVE  ThreadInv(u)'
    <2>1. CASE u = t
      <3>1. /\ critical[t] = Held("array", << >>)
            /\ chars[t] = Held("string", << >>)
        BY JavaFrame DEF Inv, ThreadInv
      <3> QED
        BY <1>1, <1>2, <2>1, <3>1 DEF ThreadInv
    <2>2. CASE u # t
      BY <1>1, <1>2, <2>2 DEF Inv, ThreadInv
    <2> QED
      BY <2>1, <2>2
  <1>6. NumberInv'
    <2>1. \A u \in Threads \ {t} : frame'[u].n \in 0 .. calls
      BY <1>2 DEF Inv, NumberInv
    <2>2. \A u \in Threads : frame'[u].n \in 0 .. calls'
      BY <1>1, <1>2, <1>3, <2>1
    <2>3. \A u, v \in Threads :
            u # v /\ frame'[u].n # 0 => frame'[u].n # frame'[v].n
      <3> SUFFICES ASSUME NEW u \in Threads, NEW v \in Threads,
                          u # v, frame'[u].n # 0
                   PROVE  frame'[u].n # frame'[v].n
        OBVIOUS
      <3>1. CASE u = t
        <4>1. frame'[u].n = calls + 1
          BY <1>2, <3>1
        <4>2. frame'[v].n \in 0 .. calls
          BY <2>1, <3>1
        <4> QED
          BY <1>1, <4>1, <4>2
      <3>2. CASE v = t
        <4>1. frame'[v].n \in {0, calls + 1}
          BY <1>2, <3>2
        <4>2. frame'[u].n \in 0 .. calls
          BY <2>1, <3>2
        <4> QED
          BY <1>1, <4>1, <4>2
      <3>3. CASE u # t /\ v # t
        BY <1>2, <3>3 DEF Inv, NumberInv
      <3> QED
        BY <3>1, <3>2, <3>3
    <2>4. ASSUME NEW n \in handles \cup addresses, NEW u \in Threads
          PROVE  frame'[u].n # n
      <3>1. CASE u = t
        BY <1>1, <1>2, <3>1
      <3>2. CASE u # t
        BY <1>2, <3>2 DEF Inv, NumberInv
      <3> QED
        BY <3>1, <3>2
    <2> QED
      BY <2>2, <2>3, <2>4 DEF NumberInv
  <1>7. HandleInv'
    BY DEF Inv, HandleInv
  <1>8. OnlyHandlesOutlive'
    <2>1. \A u \in Threads : frame[u] # InJava => frame'[u] = frame[u]
      BY <1>2
    <2> QED
      BY <2>1 DEF Inv, OnlyHandlesOutlive
  <1> QED
    BY <1>4, <1>5, <1>6, <1>7, <1>8 DEF Inv

LEMMA CallStep ==
  ASSUME Inv, NEW t \in Threads,
         NEW op \in Operations, NEW arg \in Arguments(op), Call(t, op, arg)
  PROVE  Inv'
  <1> DEFINE g == Frame(op, calls + 1, arg)
  <1>1. /\ process = "running" /\ frame[t] = InJava
        /\ frame' = [frame EXCEPT ![t] = g]
        /\ calls' = calls + 1
        /\ UNCHANGED << process, initialised, live, vmVars, handles,
                        addresses >>
    BY DEF Call
  <1>2. /\ calls < MaxCalls /\ calls \in Nat /\ MaxCalls \in Nat
        /\ live \subseteq LiveKinds \X (1 .. calls)
    BY InputAssumption DEF Call, Inv, TypeInv
  <1>3. calls' <= MaxCalls /\ calls + 1 \in Nat /\ calls + 1 # 0
    BY <1>1, <1>2
  <1>4. arg \in Args
    BY DEF Args
  <1>5. \A k : << k, calls + 1 >> \notin live
    BY <1>2
  <1>6. /\ ScopeInv(g) /\ g.n = calls + 1 /\ g # InJava /\ g.scope = << >>
        /\ ObjectInv(g, live)
    BY <1>3, <1>4, <1>5, NewFrame
  <1> HIDE DEF g
  <1> QED
    BY <1>1, <1>3, <1>6, BeginStep

LEMMA CallInitializeStep ==
  ASSUME Inv, NEW t \in Threads, CallInitialize(t)
  PROVE  Inv'
  <1> DEFINE g == Frame("initialize", 0, << >>)
  <1>1. /\ process = "running" /\ frame[t] = InJava
        /\ frame' = [frame EXCEPT ![t] = g]
        /\ calls' = calls
        /\ UNCHANGED << process, initialised, live, vmVars, handles,
                        addresses >>
    BY DEF CallInitialize, javaVars
  <1>2. calls <= MaxCalls /\ live \subseteq LiveKinds \X (1 .. calls)
    BY DEF Inv, TypeInv
  <1>3. "initialize" \in Operations /\ << >> \in Args
    BY StepsOf DEF Args
  <1>4. \A k : << k, 0 >> \notin live
    BY <1>2 DEF Inv, TypeInv
  <1>5. /\ ScopeInv(g) /\ g.n = 0 /\ g # InJava /\ g.scope = << >>
        /\ ObjectInv(g, live)
    BY <1>3, <1>4, NewFrame
  <1> HIDE DEF g
  <1> QED
    BY <1>1, <1>2, <1>5, BeginStep

-----------------------------------------------------------------------------
(* Java uses a CompileState.                                               *)

LEMMA GetFuncAddrStep ==
  ASSUME Inv, NEW t \in Threads, NEW n, GetFuncAddr(t, n)
  PROVE  Inv'
  <1>1. /\ process = "running" /\ n \in handles
        /\ addresses' = addresses \cup {n}
        /\ UNCHANGED << process, initialised, frame, live, vmVars, handles,
                        calls >>
    BY DEF GetFuncAddr
  <1>2. TypeInv'
    BY <1>1 DEF Inv, TypeInv, vmVars
  <1>3. \A u \in Threads : ThreadInv(u)'
    BY <1>1 DEF Inv, ThreadInv, vmVars
  <1>4. NumberInv' /\ HandleInv'
    BY <1>1 DEF Inv, NumberInv, HandleInv
  <1>5. OnlyHandlesOutlive'
    BY <1>1 DEF Inv, OnlyHandlesOutlive
  <1> QED
    BY <1>2, <1>3, <1>4, <1>5 DEF Inv

LEMMA Stutter ==
  ASSUME Inv, UNCHANGED vars
  PROVE  Inv'
  <1> USE DEF vars, vmVars, javaVars
  <1>1. TypeInv'
    BY DEF Inv, TypeInv
  <1>2. \A u \in Threads : ThreadInv(u)'
    BY DEF Inv, ThreadInv
  <1>3. NumberInv' /\ HandleInv'
    BY DEF Inv, NumberInv, HandleInv
  <1>4. OnlyHandlesOutlive'
    BY DEF Inv, OnlyHandlesOutlive
  <1> QED
    BY <1>1, <1>2, <1>3, <1>4 DEF Inv

LEMMA CallFunctionStep ==
  ASSUME Inv, NEW t \in Threads, NEW n, CallFunction(t, n)
  PROVE  Inv' /\ UNCHANGED vars
  <1>1. << "engine", n >> \in live
    BY DEF CallFunction, Inv, HandleInv
  <1>2. UNCHANGED vars
    BY <1>1 DEF CallFunction, vars
  <1> QED
    BY <1>2, Stutter

LEMMA ReleaseStep ==
  ASSUME Inv, NEW t \in Threads, NEW n, Release(t, n)
  PROVE  /\ Inv'
         /\ process' = "undefined"
         /\ n \in 1 .. MaxCalls /\ << "state", n >> \in live \ live'
  <1>1. /\ process = "running" /\ n \in handles /\ handles' = handles \ {n}
        /\ live' = AfterDestroying(<< "engine", n >>) \ {<< "state", n >>}
        /\ process' = IF DestroysTwice(<< "engine", n >>)
                      THEN "undefined" ELSE process
        /\ UNCHANGED << initialised, frame, vmVars, addresses, calls >>
    BY DEF Release
  <1>2. /\ << "module", n >> \notin live /\ << "state", n >> \in live
        /\ \A u \in Threads : frame[u].n # n
        /\ n \in 1 .. calls /\ calls \in Nat /\ calls <= MaxCalls
        /\ live \subseteq LiveKinds \X (1 .. calls)
    BY <1>1 DEF Inv, TypeInv, HandleInv, NumberInv
  <1>3. process' = "undefined"
    BY <1>1, <1>2 DEF DestroysTwice
  <1>4. live' = live \ {<< "engine", n >>, << "module", n >>, << "state", n >>}
    BY <1>1 DEF AfterDestroying
  <1>5. TypeInv'
    BY <1>1, <1>3, <1>4 DEF Inv, TypeInv, Processes, vmVars
  <1>6. ASSUME NEW u \in Threads
        PROVE  ThreadInv(u)'
    <2>1. /\ ScopeInv(frame[u]) /\ ObjectInv(frame[u], live)
          /\ critical[u] = Held("array", frame[u].scope)
          /\ chars[u] = Held("string", frame[u].scope)
      BY DEF Inv, ThreadInv
    <2>2. \A k : << k, frame[u].n >> \in live' <=> << k, frame[u].n >> \in live
      BY <1>2, <1>4
    <2>3. ObjectInv(frame[u], live')
      BY <2>1, <2>2 DEF ObjectInv, Objects, Made
    <2> QED
      BY <1>1, <2>1, <2>3 DEF ThreadInv, vmVars
  <1>7. NumberInv'
    BY <1>1 DEF Inv, NumberInv
  <1>8. HandleInv'
    BY <1>1, <1>3, <1>4 DEF Inv, HandleInv
  <1>9. OnlyHandlesOutlive'
    <2> SUFFICES ASSUME NEW o \in live'
                 PROVE  \/ \E u \in Threads :
                             frame'[u] # InJava /\ frame'[u].n = o[2]
                        \/ o[1] \in {"engine", "state"} /\ o[2] \in handles'
                        \/ o[1] = "machine"
      BY DEF OnlyHandlesOutlive
    <2>1. o \in live /\ o = << o[1], o[2] >>
      BY <1>2, <1>4
    <2>2. o[1] \in {"engine", "state"} => o[2] # n
      BY <1>4, <2>1
    <2> QED
      BY <1>1, <2>1, <2>2 DEF Inv, OnlyHandlesOutlive
  <1>10. n \in 1 .. MaxCalls
    BY <1>2, InputAssumption
  <1>11. << "state", n >> \in live \ live'
    BY <1>2, <1>4
  <1> QED
    BY <1>3, <1>5, <1>6, <1>7, <1>8, <1>9, <1>10, <1>11 DEF Inv

-----------------------------------------------------------------------------

LEMMA InitInv == Init => Inv
  <1> SUFFICES ASSUME Init PROVE Inv
    OBVIOUS
  <1> USE DEF Init
  <1>1. TypeInv
    <2>1. frame \in [Threads -> Frames]
      BY JavaFrame
    <2>2. calls \in Nat /\ calls <= MaxCalls
      BY InputAssumption
    <2>3. critical \in [Threads -> 0 .. 1] /\ chars \in [Threads -> 0 .. 1]
      OBVIOUS
    <2>4. live = {} /\ handles = {} /\ addresses = {}
      OBVIOUS
    <2>5. process \in Processes /\ initialised \in BOOLEAN
      BY DEF Processes
    <2> QED
      BY <2>1, <2>2, <2>3, <2>4, <2>5 DEF TypeInv
  <1>2. ASSUME NEW t \in Threads
        PROVE  ThreadInv(t)
    <2>1. ObjectInv(InJava, {}) /\ ScopeInv(InJava) /\ InJava.scope = << >>
      BY JavaFrame
    <2>2. << >> \in Scopes
      BY DEF Scopes
    <2>3. Held("array", << >>) = 0 /\ Held("string", << >>) = 0
      BY <2>2, KindsFacts DEF Held
    <2> QED
      BY <2>1, <2>3 DEF ThreadInv
  <1>3. NumberInv
    BY JavaFrame DEF NumberInv
  <1>4. HandleInv /\ OnlyHandlesOutlive
    BY DEF HandleInv, OnlyHandlesOutlive
  <1> QED
    BY <1>1, <1>2, <1>3, <1>4 DEF Inv

LEMMA NextInv == Inv /\ [Next]_vars => Inv'
  <1> SUFFICES ASSUME Inv, [Next]_vars PROVE Inv'
    OBVIOUS
  <1>1. ASSUME NEW t \in Threads, Advance(t)
        PROVE  Inv'
    BY <1>1, CheckStep, RegisterStep, ConstructContextStep, ConstructArrayStep,
       ConstructStringStep, ParseStep, FindStep, CreateEngineStep, NewStateStep,
       LookupTargetMachineStep, SelectStep, LeaveInnerStep, NewStringUTFStep,
       UnwindStep, ReturnStep, ThrowExceptionStep DEF Advance
  <1>2. ASSUME NEW t \in Threads, FromJava(t)
        PROVE  Inv'
    BY <1>2, CallInitializeStep, CallStep, GetFuncAddrStep, CallFunctionStep,
       ReleaseStep DEF FromJava
  <1>3. CASE UNCHANGED vars
    BY <1>3, Stutter
  <1> QED
    BY <1>1, <1>2, <1>3 DEF Next

LEMMA NeverExits ==
  ASSUME [Next]_vars, process # "exited"
  PROVE  process' # "exited"
  <1>1. ASSUME NEW t \in Threads, Advance(t)
        PROVE  process' # "exited"
    <2>1. CASE \/ Check(t) \/ Register(t) \/ ConstructContext(t)
               \/ ConstructArray(t) \/ ConstructString(t) \/ Parse(t)
      BY <2>1 DEF Check, Register, ConstructContext, ConstructArray,
                  ConstructString, Parse, ThrowChars
    <2>2. CASE \/ Find(t) \/ CreateEngine(t) \/ FindAddress(t) \/ NewState(t)
               \/ LookupTargetMachine(t) \/ Select(t)
      BY <2>2 DEF Find, CreateEngine, FindAddress, NewState,
                  LookupTargetMachine, Select
    <2>3. CASE \/ LeaveInner(t) \/ NewStringUTF(t) \/ Unwind(t) \/ Return(t)
               \/ ThrowException(t)
      BY <2>3 DEF LeaveInner, NewStringUTF, Unwind, Return, ThrowException,
                  Destroy
    <2> QED
      BY <1>1, <2>1, <2>2, <2>3 DEF Advance
  <1>2. ASSUME NEW t \in Threads, FromJava(t)
        PROVE  process' # "exited"
    BY <1>2 DEF FromJava, CallInitialize, Call, GetFuncAddr, CallFunction,
                Release
  <1> QED
    BY <1>1, <1>2 DEF Next, vars

(* The variables keep their form in every behaviour, and no scope holds    *)
(* more than one array or string.                                          *)
THEOREM TypeCorrect == Spec => []TypeOK
  <1>1. Inv /\ process # "exited" => TypeOK
    <2> SUFFICES ASSUME Inv, process # "exited" PROVE TypeOK
      OBVIOUS
    <2>1. ASSUME NEW t \in Threads
          PROVE  /\ frame[t].mode \in {"running", "returning", "throwing"}
                 /\ \A i \in DOMAIN frame[t].scope :
                      frame[t].scope[i][2] = frame[t].n
                 /\ critical[t] \in 0 .. 1
                 /\ chars[t] \in 0 .. 1
      <3>1. /\ frame[t] \in Frames
            /\ Ordered(frame[t].op, frame[t].n, frame[t].scope)
        BY DEF Inv, ThreadInv, ScopeInv
      <3>2. DOMAIN frame[t].scope = 1 .. Len(frame[t].scope)
        BY <3>1 DEF Frames
      <3> QED
        BY <3>1, <3>2 DEF Frames, Modes, Ordered, Inv, TypeInv
    <2> QED
      BY <2>1 DEF TypeOK, Inv, TypeInv, Processes
  <1>2. Init => process # "exited"
    BY DEF Init
  <1>3. process # "exited" /\ [Next]_vars => (process # "exited")'
    BY NeverExits
  <1> QED
    BY <1>1, <1>2, <1>3, InitInv, NextInv, PTL DEF Spec

LEMMA EmptyHoldsNothing ==
  ASSUME Inv, NEW t \in Threads, frame[t].scope = << >>
  PROVE  critical[t] = 0 /\ chars[t] = 0
  <1>1. << >> \in Scopes
    BY DEF Scopes
  <1> QED
    BY <1>1, KindsFacts DEF Inv, ThreadInv, Held

(* By whatever return or throw a native method is left, the thread is in   *)
(* no critical region and holds no string.                                 *)
THEOREM NothingHeld == Spec => []NothingHeldInJava
  <1>1. Inv => NothingHeldInJava
    BY JavaFrame, EmptyHoldsNothing DEF NothingHeldInJava, Owned
  <1> QED
    BY <1>1, InitInv, NextInv, PTL DEF Spec

(* No call leaves anything behind but the engine and the state of a handle *)
(* that Java has, and a TargetMachine.                                     *)
THEOREM HandlesOutlive == Spec => []OnlyHandlesOutlive
  <1>1. Inv => OnlyHandlesOutlive
    BY DEF Inv
  <1> QED
    BY <1>1, InitInv, NextInv, PTL DEF Spec

(* The code of a function whose address Java has is there, in every        *)
(* process that is still defined.                                          *)
THEOREM StayMapped == Spec => []FunctionsStayMapped
  <1>1. Inv => FunctionsStayMapped
    BY DEF Inv, HandleInv, FunctionsStayMapped
  <1> QED
    BY <1>1, InitInv, NextInv, PTL DEF Spec

KeepsStates == process' # "undefined" /\ StatesKept

LEMMA AdvanceKeeps ==
  ASSUME Inv, NEW t \in Threads, Advance(t)
  PROVE  KeepsStates
  <1>1. CASE Check(t) \/ Find(t) \/ FindAddress(t) \/ Select(t)
             \/ NewStringUTF(t)
    BY <1>1 DEF Check, Find, FindAddress, Select, NewStringUTF, IsAt,
                KeepsStates, StatesKept
  <1>2. CASE ConstructContext(t) \/ NewState(t) \/ LookupTargetMachine(t)
             \/ CreateEngine(t)
    BY <1>2 DEF ConstructContext, NewState, LookupTargetMachine, CreateEngine,
                IsAt, KeepsStates, StatesKept
  <1>3. CASE ConstructArray(t) \/ ConstructString(t) \/ Register(t) \/ Parse(t)
    BY <1>3 DEF ConstructArray, ConstructString, Register, Parse, ThrowChars,
                IsAt, KeepsStates, StatesKept
  <1>4. CASE Return(t) \/ ThrowException(t)
    BY <1>4 DEF Return, ThrowException, KeepsStates, StatesKept
  <1>5. CASE LeaveInner(t)
    BY <1>5, LeaveInnerStep DEF LeaveInner, IsAt, KeepsStates, StatesKept
  <1>6. CASE Unwind(t)
    BY <1>6, UnwindStep DEF Unwind, KeepsStates
  <1> QED
    BY <1>1, <1>2, <1>3, <1>4, <1>5, <1>6 DEF Advance

(* The process becomes undefined by a release of a CompileState, and by    *)
(* every one.                                                              *)
THEOREM ReleaseUndefined == Spec => OnlyReleaseIsUndefined
  <1> DEFINE OnlyRelease ==
        process # "undefined" => (process' = "undefined" <=> Released)
  <1>1. Inv /\ [Next]_vars => OnlyRelease
    <2> SUFFICES ASSUME Inv, [Next]_vars, process # "undefined"
                 PROVE  process' = "undefined" <=> Released
      OBVIOUS
    <2>1. KeepsStates => ~Released
      <3>1. \A n \in 1 .. MaxCalls : n \in Nat
        OBVIOUS
      <3> QED
        BY <3>1 DEF KeepsStates, StatesKept, Released
    <2>2. ASSUME NEW t \in Threads, Advance(t)
          PROVE  process' = "undefined" <=> Released
      BY <2>1, <2>2, AdvanceKeeps DEF KeepsStates
    <2>3. ASSUME NEW t \in Threads, NEW n, Release(t, n)
          PROVE  process' = "undefined" <=> Released
      BY <2>3, ReleaseStep DEF Released
    <2>4. CASE UNCHANGED vars
      BY <2>4 DEF vars, Released
    <2>5. ASSUME NEW t \in Threads, FromJava(t)
          PROVE  process' = "undefined" <=> Released
      <3>1. CASE \E n \in 1 .. MaxCalls : CallFunction(t, n)
        BY <2>4, <3>1, CallFunctionStep
      <3>2. CASE \E n \in 1 .. MaxCalls : Release(t, n)
        BY <2>3, <3>2
      <3>3. CASE \E n \in 1 .. MaxCalls : GetFuncAddr(t, n)
        BY <3>3 DEF GetFuncAddr, Released
      <3>4. CASE CallInitialize(t)
        BY <3>4 DEF CallInitialize, Released
      <3>5. CASE \E op \in Operations :
                   \E arg \in Arguments(op) : Call(t, op, arg)
        BY <3>5 DEF Call, Released
      <3> QED
        BY <2>5, <3>1, <3>2, <3>3, <3>4, <3>5 DEF FromJava
    <2> QED
      BY <2>2, <2>4, <2>5 DEF Next
  <1> QED
    BY <1>1, InitInv, NextInv, PTL DEF Spec, OnlyReleaseIsUndefined

-----------------------------------------------------------------------------
(* The Java heap.                                                          *)

(* A collection is owed to a region that is open, and whoever waits for it *)
(* is in none.                                                             *)
HeapInv ==
  /\ Inv
  /\ stalled \subseteq Threads
  /\ failed \subseteq Listings
  /\ stalled # {} => needsGC
  /\ needsGC => ~RegionFree
  /\ \A t \in stalled : ~InRegion(t)

LEMMA JavaHoldsNothing ==
  ASSUME Inv, NEW t \in Threads, InRegion(t)
  PROVE  frame[t] # InJava
  <1>1. frame[t] = InJava => critical[t] = 0
    BY JavaFrame, EmptyHoldsNothing
  <1> QED
    BY <1>1 DEF InRegion

(* A thread opens and closes no region but its own.                        *)
LEMMA OwnRegion ==
  ASSUME Inv, NEW t \in Threads, Advance(t), NEW u \in Threads, u # t
  PROVE  critical'[u] = critical[u]
  <1>1. critical \in [Threads -> 0 .. 1]
    BY DEF Inv, TypeInv
  <1>2. CASE ConstructArray(t) \/ LeaveInner(t) \/ Unwind(t)
    BY <1>1, <1>2 DEF ConstructArray, LeaveInner, Unwind, Destroy
  <1>3. CASE \/ Check(t) \/ Register(t) \/ ConstructContext(t)
             \/ ConstructString(t) \/ Parse(t) \/ Find(t) \/ CreateEngine(t)
    BY <1>3 DEF Check, Register, ConstructContext, ConstructString, Parse, Find,
                CreateEngine, vmVars
  <1>4. CASE \/ FindAddress(t) \/ NewState(t) \/ LookupTargetMachine(t)
             \/ Select(t) \/ NewStringUTF(t) \/ Return(t) \/ ThrowException(t)
    BY <1>4 DEF FindAddress, NewState, LookupTargetMachine, Select,
                NewStringUTF, Return, ThrowException, vmVars
  <1> QED
    BY <1>2, <1>3, <1>4 DEF Advance

LEMMA JavaLeavesRegions ==
  ASSUME NEW t \in Threads, FromJava(t)
  PROVE  UNCHANGED critical
  BY DEF FromJava, CallInitialize, Call, GetFuncAddr, CallFunction, Release,
         vmVars

(* Every step is one of NativeRuntime, or none.                            *)
LEMMA HeapStep ==
  ASSUME HeapInv, HeapNext
  PROVE  Inv'
  <1>1. [Next]_vars
    BY DEF HeapNext, HeapAdvance, HeapFromJava, AllocateString, AllocateInJava,
           Next, Advance
  <1> QED
    BY <1>1, NextInv DEF HeapInv

LEMMA AllocationStep ==
  ASSUME HeapInv, Inv', NEW t \in Threads, Fits \/ NeedsGC(t),
         UNCHANGED critical, InRegion(t) => frame[t].op \in Listings
  PROVE  HeapInv'
  <1>1. \A u \in Threads : InRegion(u)' <=> InRegion(u)
    BY DEF InRegion
  <1>2. RegionFree' <=> RegionFree
    BY <1>1 DEF RegionFree
  <1>3. CASE Fits
    BY <1>1, <1>2, <1>3 DEF HeapInv, Fits, heapVars
  <1>4. CASE /\ InRegion(t) /\ needsGC' = TRUE
             /\ failed' = failed \cup {frame[t].op} /\ UNCHANGED stalled
    BY <1>1, <1>2, <1>4 DEF HeapInv, RegionFree
  <1>5. CASE /\ ~RegionFree /\ ~InRegion(t) /\ needsGC' = TRUE
             /\ stalled' = stalled \cup {t} /\ UNCHANGED failed
    BY <1>1, <1>2, <1>5 DEF HeapInv
  <1> QED
    BY <1>3, <1>4, <1>5 DEF NeedsGC

LEMMA CollectionStep ==
  ASSUME HeapInv, Inv', NEW t \in Threads \ stalled, CollectIfFree,
         \A u \in Threads \ {t} : critical'[u] = critical[u]
  PROVE  HeapInv'
  <1>1. \A u \in stalled : InRegion(u)' <=> InRegion(u)
    BY DEF HeapInv, InRegion
  <1>2. /\ needsGC' = (needsGC /\ ~RegionFree')
        /\ stalled' = IF RegionFree' THEN {} ELSE stalled
        /\ failed' = failed
    BY DEF CollectIfFree
  <1>3. stalled' \subseteq Threads /\ failed' \subseteq Listings
    BY <1>2 DEF HeapInv
  <1>4. stalled' # {} => needsGC'
    BY <1>2 DEF HeapInv
  <1>5. needsGC' => ~RegionFree'
    BY <1>2
  <1>6. \A u \in stalled' : ~InRegion(u)'
    BY <1>1, <1>2 DEF HeapInv
  <1> QED
    BY <1>3, <1>4, <1>5, <1>6 DEF HeapInv

LEMMA InitHeapInv == HeapInit => HeapInv
  BY InitInv DEF HeapInit, HeapInv

LEMMA NextHeapInv == HeapInv /\ [HeapNext]_<< vars, heapVars >> => HeapInv'
  <1> SUFFICES ASSUME HeapInv, [HeapNext]_<< vars, heapVars >> PROVE HeapInv'
    OBVIOUS
  <1>1. CASE UNCHANGED << vars, heapVars >>
    <2>1. Inv'
      BY <1>1, Stutter DEF HeapInv
    <2>2. critical' = critical /\ UNCHANGED heapVars
      BY <1>1 DEF vars, vmVars
    <2> QED
      BY <2>1, <2>2 DEF HeapInv, heapVars, RegionFree, InRegion
  <1>2. ASSUME NEW t \in Threads, HeapNext, HeapAdvance(t)
        PROVE  HeapInv'
    <2>1. Inv'
      BY <1>2, HeapStep
    <2>2. CASE AllocateString(t)
      <3>1. UNCHANGED critical
        BY <2>2 DEF AllocateString, NewStringUTF, vars, vmVars
      <3>2. frame[t].op \in Listings
        <4>1. IsAt(t, "result")
          BY <2>2 DEF AllocateString
        <4> QED
          BY <4>1, At, Places DEF HeapInv, Is, Listings
      <3> QED
        BY <2>1, <2>2, <3>1, <3>2, AllocationStep DEF AllocateString
    <2>3. CASE Advance(t) /\ CollectIfFree
      <3>1. t \notin stalled
        BY <1>2 DEF HeapAdvance
      <3>2. \A u \in Threads \ {t} : critical'[u] = critical[u]
        BY <2>3, OwnRegion DEF HeapInv
      <3> QED
        BY <2>1, <2>3, <3>1, <3>2, CollectionStep
    <2> QED
      BY <1>2, <2>2, <2>3 DEF HeapAdvance
  <1>3. ASSUME NEW t \in Threads, HeapNext, HeapFromJava(t)
        PROVE  HeapInv'
    <2>1. Inv'
      BY <1>3, HeapStep
    <2>2. CASE AllocateInJava(t)
      <3>1. UNCHANGED critical
        BY <2>2 DEF AllocateInJava, vars, vmVars
      <3>2. ~InRegion(t)
        BY <2>2, JavaHoldsNothing DEF AllocateInJava, HeapInv
      <3> QED
        BY <2>1, <2>2, <3>1, <3>2, AllocationStep DEF AllocateInJava
    <2>3. CASE FromJava(t) /\ UNCHANGED heapVars
      <3>1. UNCHANGED critical
        BY <2>3, JavaLeavesRegions
      <3> QED
        BY <2>1, <2>3, <3>1 DEF HeapInv, heapVars, RegionFree, InRegion
    <2> QED
      BY <1>3, <2>2, <2>3 DEF HeapFromJava
  <1> QED
    BY <1>1, <1>2, <1>3 DEF HeapNext

(* A thread that waits for a collection waits for a region that another    *)
(* thread, which is not stopped itself, is on its way through.             *)
THEOREM HeapTypeCorrect == HeapSpec => []HeapTypeOK
  <1>1. HeapInv => HeapTypeOK
    <2> SUFFICES ASSUME HeapInv PROVE HeapTypeOK
      OBVIOUS
    <2>1. needsGC =>
            \E t \in Threads :
               InRegion(t) /\ frame[t] # InJava /\ t \notin stalled
      BY JavaHoldsNothing DEF HeapInv, RegionFree
    <2>2. Listings \subseteq Operations
      BY StepsOf DEF Listings
    <2> QED
      BY <2>1, <2>2 DEF HeapInv, HeapTypeOK
  <1> QED
    BY <1>1, InitHeapInv, NextHeapInv, PTL DEF HeapSpec

(* Only the two methods that create a string in their own critical region  *)
(* run out of memory though there is garbage.                              *)
THEOREM ListingsFail == HeapSpec => []OnlyListingsFail
  <1>1. HeapInv => OnlyListingsFail
    BY DEF HeapInv, OnlyListingsFail, Listings
  <1> QED
    BY <1>1, InitHeapInv, NextHeapInv, PTL DEF HeapSpec

=============================================================================
