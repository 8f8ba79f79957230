--------------------------- MODULE JniCallsProofs ---------------------------
(***************************************************************************)
(* Proofs of the state invariants of JniCalls, for any depth of calls from *)
(* Java to native code and back.                                           *)
(***************************************************************************)
EXTENDS JniCalls, SequenceTheorems, WellFoundedInduction, TLAPS

AllMembers == JNIEnvMembers \cup InvokeMembers

(* A frame of a native method that has not read its parameters yet has     *)
(* what Java passes to the method.                                         *)
Frames ==
  {f \in [ of       : {"native", "member"},
           function : Natives \cup {"any"} \cup AllMembers,
           gets     : {Passed(m) : m \in Natives} \cup {<< >>},
           step     : {"entered", "body", "begun", "in VM"} ] :
     /\ f.of = "member" => f.function \in AllMembers
     /\ f.step = "entered" =>
          f.function \in Natives /\ f.gets = Passed(f.function)}

(* What the frame at a depth is, and what it does while it waits.          *)
Kind(d)  == IF d % 2 = 1 THEN "native" ELSE "member"
Waits(d) == IF d % 2 = 1 THEN "body" ELSE "in VM"

Alternating(s) ==
  /\ s \in Seq(Frames)
  /\ \A d \in 1 .. Len(s) : s[d].of = Kind(d)
  /\ \A d \in 1 .. Len(s) - 1 : s[d].step = Waits(d)

(* A frame in which a list is started.                                     *)
Open(f) ==
  f.of = "member" /\ f.step = "in VM" /\ IsVariadic(f.function.f)

OpenIn(s) == {d \in 1 .. Len(s) : Open(s[d])}

(* The inductive invariant: a list is known by the depth of its frame, so  *)
(* that what a frame is must be known at each depth.                       *)
Inv ==
  /\ Alternating(stack)
  /\ Len(stack) <= MaxDepth
  /\ lists = OpenIn(stack)
  /\ loaded \in BOOLEAN
  /\ failed \in Natives \cup {"none"}
  /\ failed # "none" => ~loaded

-----------------------------------------------------------------------------
(* The tables of jni.h and those of the VM agree: each number that jni.h   *)
(* gives a function is the VM's number of the function with its name.  The *)
(* tables are compared part by part, as they are put together.             *)

(* A sequence, whatever its elements are.                                  *)
IsSeq(s) == Len(s) \in Nat /\ s = [i \in 1 .. Len(s) |-> s[i]]

(* The functions of s are those of a table of the VM from number n on, and *)
(* what a member function for one of them calls is one of them, too.       *)
Section(table, n, s) ==
  /\ IsSeq(s)
  /\ \A i \in 1 .. Len(s) : table[n + i - 1] = s[i].name
  /\ \A i \in 1 .. Len(s) :
       \E j \in 1 .. Len(s) : s[j].name = Member(s[i]).calls

(* A function without "..." is called by a member function of its own.     *)
Direct(table, n, f) == table[n] = f.name /\ ~IsVariadic(f)

(* Without "..." each member function calls its own function.              *)
LEMMA DirectSection ==
  ASSUME NEW table, NEW n \in Nat, NEW s, IsSeq(s),
         \A i \in 1 .. Len(s) : Direct(table, n + i - 1, s[i])
  PROVE  Section(table, n, s)
  BY DEF Section, Direct, Member

(* Sequences as the library defines them.                                  *)
LEMMA SeqIsSeq ==
  ASSUME NEW S, NEW s \in Seq(S)
  PROVE  IsSeq(s) /\ DOMAIN s = 1 .. Len(s)
  BY DEF IsSeq

(* The elements of two sequences put together.                             *)
LEMMA Concatenation ==
  ASSUME NEW s, NEW t, IsSeq(s), IsSeq(t)
  PROVE  /\ IsSeq(s \o t)
         /\ Len(s \o t) = Len(s) + Len(t)
         /\ \A i \in 1 .. Len(s) : (s \o t)[i] = s[i]
         /\ \A i \in 1 .. Len(t) : (s \o t)[Len(s) + i] = t[i]
         /\ \A i \in 1 .. Len(s) + Len(t) :
              \/ i \in 1 .. Len(s)
              \/ i - Len(s) \in 1 .. Len(t) /\ i = Len(s) + (i - Len(s))
         /\ ToSet(s \o t) = ToSet(s) \cup ToSet(t)
  <1> DEFINE S == {s[i] : i \in 1 .. Len(s)} \cup {t[i] : i \in 1 .. Len(t)}
             u == s \o t
  <1>1. /\ Len(s) \in Nat /\ DOMAIN s = 1 .. Len(s)
        /\ Len(t) \in Nat /\ DOMAIN t = 1 .. Len(t)
    BY DEF IsSeq
  <1>2. s \in Seq(S) /\ t \in Seq(S)
    <2>1. s \in [1 .. Len(s) -> S] /\ t \in [1 .. Len(t) -> S]
      BY DEF IsSeq
    <2> QED
      BY <1>1, <2>1, SeqDef
  <1> HIDE DEF S
  <1>3. /\ u \in Seq(S) /\ Len(u) = Len(s) + Len(t)
        /\ \A i \in 1 .. Len(s) + Len(t) :
             u[i] = IF i <= Len(s) THEN s[i] ELSE t[i - Len(s)]
    BY <1>2, ConcatProperties
  <1>4. IsSeq(u) /\ DOMAIN u = 1 .. Len(s) + Len(t)
    BY <1>3, SeqIsSeq
  <1>5. \A i \in 1 .. Len(s) + Len(t) :
          \/ i \in 1 .. Len(s)
          \/ i - Len(s) \in 1 .. Len(t) /\ i = Len(s) + (i - Len(s))
    BY <1>1
  <1>6. /\ \A i \in 1 .. Len(s) : i \in 1 .. Len(s) + Len(t) /\ u[i] = s[i]
        /\ \A i \in 1 .. Len(t) :
             Len(s) + i \in 1 .. Len(s) + Len(t) /\ u[Len(s) + i] = t[i]
    BY <1>1, <1>3
  <1> HIDE DEF u
  <1>7. ToSet(u) = ToSet(s) \cup ToSet(t)
    <2>1. ToSet(u) \subseteq ToSet(s) \cup ToSet(t)
      <3>1. \A i \in 1 .. Len(s) + Len(t) :
              \/ \E j \in 1 .. Len(s) : u[i] = s[j]
              \/ \E j \in 1 .. Len(t) : u[i] = t[j]
        BY <1>5, <1>6
      <3> QED
        BY <1>1, <1>4, <3>1 DEF ToSet
    <2>2. ToSet(s) \cup ToSet(t) \subseteq ToSet(u)
      BY <1>1, <1>4, <1>6 DEF ToSet
    <2> QED
      BY <2>1, <2>2
  <1> QED
    BY <1>3, <1>4, <1>5, <1>6, <1>7 DEF u

(* Two parts of a table, one after the other, make a longer part.          *)
LEMMA Join ==
  ASSUME NEW table, NEW n \in Nat, NEW s, NEW t,
         Section(table, n, s), Section(table, n + Len(s), t)
  PROVE  /\ Section(table, n, s \o t)
         /\ Len(s \o t) = Len(s) + Len(t)
         /\ ToSet(s \o t) = ToSet(s) \cup ToSet(t)
  <1>1. IsSeq(s) /\ IsSeq(t) /\ Len(s) \in Nat /\ Len(t) \in Nat
    BY DEF Section, IsSeq
  <1> DEFINE u == s \o t
  <1>2. /\ IsSeq(u) /\ Len(u) = Len(s) + Len(t)
        /\ \A i \in 1 .. Len(s) : u[i] = s[i]
        /\ \A i \in 1 .. Len(t) : u[Len(s) + i] = t[i]
        /\ \A i \in 1 .. Len(u) :
              \/ i \in 1 .. Len(s)
              \/ i - Len(s) \in 1 .. Len(t) /\ i = Len(s) + (i - Len(s))
        /\ ToSet(u) = ToSet(s) \cup ToSet(t)
    BY <1>1, Concatenation
  <1> HIDE DEF u
  <1>3. ASSUME NEW i \in 1 .. Len(u)
        PROVE  /\ table[n + i - 1] = u[i].name
               /\ \E j \in 1 .. Len(u) : u[j].name = Member(u[i]).calls
    <2>1. CASE i \in 1 .. Len(s)
      <3>1. \A j \in 1 .. Len(s) : j \in 1 .. Len(u)
        BY <1>1, <1>2
      <3>2. u[i] = s[i] /\ table[n + i - 1] = s[i].name
        BY <1>2, <2>1 DEF Section
      <3>3. PICK j \in 1 .. Len(s) : s[j].name = Member(s[i]).calls
        BY <2>1 DEF Section
      <3>4. u[j].name = Member(u[i]).calls
        BY <1>2, <3>2, <3>3
      <3> QED
        BY <3>1, <3>2, <3>4
    <2>2. CASE i - Len(s) \in 1 .. Len(t) /\ i = Len(s) + (i - Len(s))
      <3>1. PICK k \in 1 .. Len(t) : i = Len(s) + k
        BY <2>2
      <3>2. u[i] = t[k] /\ table[n + Len(s) + k - 1] = t[k].name
        BY <1>2, <3>1 DEF Section
      <3>3. n + Len(s) + k - 1 = n + i - 1
        BY <1>1, <3>1
      <3>4. PICK j \in 1 .. Len(t) : t[j].name = Member(t[k]).calls
        BY DEF Section
      <3>5. Len(s) + j \in 1 .. Len(u) /\ u[Len(s) + j] = t[j]
        BY <1>1, <1>2
      <3>6. table[n + i - 1] = u[i].name
        BY <3>2, <3>3, Zenon
      <3>7. u[Len(s) + j].name = Member(u[i]).calls
        BY <3>2, <3>4, <3>5
      <3> QED
        BY <3>5, <3>6, <3>7
    <2> QED
      BY <1>2, <2>1, <2>2
  <1> QED
    BY <1>2, <1>3 DEF Section, u

(* A section of k functions.                                               *)
Spans(table, n, k, s) == Section(table, n, s) /\ k \in Nat /\ Len(s) = k

(* The same, with the lengths named.                                       *)
LEMMA JoinSpans ==
  ASSUME NEW table, NEW n \in Nat, NEW k, NEW l, NEW s, NEW t,
         Spans(table, n, k, s), Spans(table, n + k, l, t)
  PROVE  /\ Spans(table, n, k + l, s \o t)
         /\ ToSet(s \o t) = ToSet(s) \cup ToSet(t)
  <1>1. Section(table, n, s) /\ Section(table, n + Len(s), t)
    BY DEF Spans
  <1>2. /\ Section(table, n, s \o t)
        /\ Len(s \o t) = Len(s) + Len(t)
        /\ ToSet(s \o t) = ToSet(s) \cup ToSet(t)
    BY <1>1, Join
  <1> QED
    BY <1>2 DEF Spans

(* Induction over the numbers of which a set is made.                      *)
LEMMA Induction ==
  ASSUME NEW S, 0 \in S, \A n \in Nat : n \in S => n + 1 \in S
  PROVE  Nat \subseteq S
  <1> DEFINE T == Nat \ S
  <1> SUFFICES ASSUME T # {}
               PROVE  FALSE
    OBVIOUS
  <1>1. T \subseteq Nat
    OBVIOUS
  <1> HIDE DEF T
  <1>2. PICK x \in T : \A y \in T : ~(<< y, x >> \in OpToRel(<, Nat))
    BY <1>1, WFMin, NatLessThanWellFounded, Zenon
  <1>3. \A y \in T : ~(y < x)
    BY <1>1, <1>2, Zenon DEF OpToRel
  <1>4. x \in Nat /\ x \notin S
    BY <1>2 DEF T
  <1>5. x - 1 \in Nat /\ x - 1 < x /\ (x - 1) + 1 = x
    BY <1>4
  <1>6. x - 1 \in S
    BY <1>3, <1>5 DEF T
  <1> QED
    BY <1>4, <1>5, <1>6

(* The recursive function of FlattenSeq.                                   *)
Flattens(f, n, ss) ==
  f = [i \in 1 .. n |-> IF i = 1 THEN ss[i] ELSE f[i - 1] \o ss[i]]

(* FlattenSeq adds one sequence after the other.                           *)
LEMMA FlattenSteps ==
  ASSUME NEW ss, NEW n \in Nat \ {0}, Len(ss) = n
  PROVE  \E f : /\ FlattenSeq(ss) = f[n]
                /\ f[1] = ss[1]
                /\ \A i \in 2 .. n : f[i] = f[i - 1] \o ss[i]
  <1> DEFINE S == {m \in Nat : \E f : Flattens(f, m, ss)}
  <1>1. 0 \in S
    <2>1. Flattens([i \in 1 .. 0 |-> 0], 0, ss)
      BY DEF Flattens
    <2> QED
      BY <2>1
  <1>2. ASSUME NEW m \in Nat, m \in S PROVE m + 1 \in S
    <2>1. PICK f : Flattens(f, m, ss)
      BY <1>2
    <2> DEFINE g == [i \in 1 .. m + 1 |->
                       IF i = 1 THEN ss[i] ELSE f[i - 1] \o ss[i]]
    <2>2. \A i \in 1 .. m : g[i] = f[i]
      <3>1. \A i \in 1 .. m : i \in 1 .. m + 1
        OBVIOUS
      <3> QED
        BY <2>1, <3>1 DEF Flattens
    <2>3. \A i \in 1 .. m + 1 : i # 1 => i - 1 \in 1 .. m
      OBVIOUS
    <2>4. \A i \in 1 .. m + 1 : i # 1 => g[i - 1] = f[i - 1]
      BY <2>2, <2>3
    <2>5. g = [i \in 1 .. m + 1 |-> IF i = 1 THEN ss[i] ELSE g[i - 1] \o ss[i]]
      BY <2>4
    <2> HIDE DEF g
    <2>6. Flattens(g, m + 1, ss)
      BY <2>5 DEF Flattens
    <2>7. m + 1 \in Nat
      OBVIOUS
    <2> QED
      BY <2>6, <2>7
  <1>3. \E f : Flattens(f, n, ss)
    <2> HIDE DEF S
    <2>1. n \in S
      BY <1>1, <1>2, Induction
    <2> QED
      BY <2>1 DEF S
  <1> DEFINE f == CHOOSE f : Flattens(f, n, ss)
  <1>4. Flattens(f, n, ss)
    BY <1>3
  <1>5. FlattenSeq(ss) = f[n]
    BY DEF FlattenSeq, Flattens
  <1> HIDE DEF f
  <1>6. f[1] = ss[1] /\ \A i \in 2 .. n : f[i] = f[i - 1] \o ss[i]
    <2>1. 1 \in 1 .. n /\ \A i \in 2 .. n : i \in 1 .. n /\ i # 1
      OBVIOUS
    <2> QED
      BY <1>4, <2>1 DEF Flattens
  <1> QED
    BY <1>5, <1>6

(* Parts of the same length k, flattened, make one part.                   *)
LEMMA FlattenSection ==
  ASSUME NEW table, NEW first \in Nat, NEW k \in {1, 3}, NEW ss,
         NEW n \in Nat \ {0}, Len(ss) = n,
         \A i \in 1 .. n : Spans(table, first + k * (i - 1), k, ss[i])
  PROVE  Spans(table, first, k * n, FlattenSeq(ss))
  <1>1. PICK f : /\ FlattenSeq(ss) = f[n]
                 /\ f[1] = ss[1]
                 /\ \A i \in 2 .. n : f[i] = f[i - 1] \o ss[i]
    BY FlattenSteps
  <1> DEFINE Good(i) == Spans(table, first, k * i, f[i])
             S == {m \in Nat : m \in 1 .. n => Good(m)}
  <1>2. 0 \in S
    OBVIOUS
  <1>3. ASSUME NEW m \in Nat, m \in S PROVE m + 1 \in S
    <2> SUFFICES ASSUME m + 1 \in 1 .. n PROVE Good(m + 1)
      OBVIOUS
    <2>1. CASE m = 0
      <3>1. /\ f[m + 1] = ss[1] /\ 1 \in 1 .. n
            /\ first + k * (1 - 1) = first /\ k * (m + 1) = k
        BY <1>1, <2>1
      <3>2. Spans(table, first + k * (1 - 1), k, ss[1])
        BY <3>1
      <3> QED
        BY <3>1, <3>2
    <2>2. CASE m # 0
      <3>1. m \in 1 .. n /\ m + 1 \in 2 .. n /\ (m + 1) - 1 = m
        BY <2>2
      <3>2. Spans(table, first, k * m, f[m])
        BY <1>3, <3>1
      <3>3. f[m + 1] = f[m] \o ss[m + 1]
        BY <1>1, <3>1
      <3>4. Spans(table, first + k * m, k, ss[m + 1])
        BY <3>1
      <3>5. Spans(table, first, k * m + k, f[m] \o ss[m + 1])
        BY <3>2, <3>4, JoinSpans
      <3>6. k * m + k = k * (m + 1)
        OBVIOUS
      <3> QED
        BY <3>3, <3>5, <3>6
    <2> QED
      BY <2>1, <2>2
  <1>4. Good(n)
    <2> HIDE DEF S
    <2>1. n \in S
      BY <1>2, <1>3, Induction
    <2> QED
      BY <2>1 DEF S
  <1> QED
    BY <1>1, <1>4

(* The last of two elements put behind a sequence.                         *)
LEMMA LastOfTwo ==
  ASSUME NEW s, IsSeq(s), NEW a, NEW b
  PROVE  LET p == s \o << a, b >> IN p # << >> /\ Last(p) = b
  <1>1. PICK t : t = << a, b >>
    OBVIOUS
  <1>2. IsSeq(t) /\ Len(t) = 2 /\ t[2] = b
    BY <1>1 DEF IsSeq
  <1>3. PICK p : p = s \o t
    OBVIOUS
  <1>4. Len(s) \in Nat
    BY DEF IsSeq
  <1>5. Len(p) = Len(s) + 2 /\ p[Len(s) + 2] = b
    <2>1. IsSeq(t)
      BY <1>2
    <2>2. /\ Len(p) = Len(s) + Len(t)
          /\ \A i \in 1 .. Len(t) : p[Len(s) + i] = t[i]
      BY <1>3, <2>1, Concatenation
    <2> QED
      BY <1>2, <1>4, <2>2
  <1>6. Len(p) # 0 /\ Last(p) = b
    BY <1>4, <1>5 DEF Last
  <1>7. p # << >>
    BY <1>6
  <1> QED
    BY <1>1, <1>3, <1>6, <1>7

(* What is left without the element put behind a sequence.                 *)
LEMMA FrontOfOne ==
  ASSUME NEW s, IsSeq(s), NEW a
  PROVE  Front(s \o << a >>) = s
  <1>1. PICK t : t = << a >>
    OBVIOUS
  <1>2. IsSeq(t) /\ Len(t) = 1
    BY <1>1 DEF IsSeq
  <1>3. PICK p : p = s \o t
    OBVIOUS
  <1>4. Len(s) \in Nat /\ s = [i \in 1 .. Len(s) |-> s[i]]
    BY DEF IsSeq
  <1>5. Len(p) = Len(s) + 1 /\ \A i \in 1 .. Len(s) : p[i] = s[i]
    <2>1. IsSeq(t)
      BY <1>2
    <2>2. Len(p) = Len(s) + Len(t) /\ \A i \in 1 .. Len(s) : p[i] = s[i]
      BY <1>3, <2>1, Concatenation
    <2> QED
      BY <1>2, <1>4, <2>2
  <1>6. Front(p) = [i \in 1 .. Len(s) |-> p[i]]
    BY <1>4, <1>5 DEF Front
  <1>7. [i \in 1 .. Len(s) |-> p[i]] = [i \in 1 .. Len(s) |-> s[i]]
    BY <1>5
  <1> QED
    BY <1>1, <1>3, <1>4, <1>6, <1>7

(* The three forms of a function: the form "..." is called through the     *)
(* form V.                                                                 *)
LEMMA FormsSection ==
  ASSUME NEW table, NEW n \in Nat, NEW name, NEW result, NEW target,
         IsSeq(name), IsSeq(target),
         table[n] = name \o << "..." >>,
         table[n + 1] = name \o << "V" >>,
         table[n + 2] = name \o << "A" >>
  PROVE  Spans(table, n, 3, Forms(name, result, target))
  <1> DEFINE s == Forms(name, result, target)
  <1>1. IsSeq(s) /\ Len(s) = 3
    BY DEF Forms, IsSeq
  <1>2. /\ s[1].name = name \o << "..." >>
        /\ s[2].name = name \o << "V" >>
        /\ s[3].name = name \o << "A" >>
        /\ s[1].params = target \o << "jmethodID", "..." >>
        /\ s[2].params = target \o << "jmethodID", "va_list" >>
        /\ s[3].params = target \o << "jmethodID", "jvalue*" >>
    BY DEF Forms, Function
  <1>3. \A x : LET p == target \o << "jmethodID", x >>
              IN  p # << >> /\ Last(p) = x
    BY LastOfTwo
  <1>4. IsVariadic(s[1]) /\ ~IsVariadic(s[2]) /\ ~IsVariadic(s[3])
    <2> HIDE DEF s
    <2> QED
      BY <1>2, <1>3 DEF IsVariadic
  <1>5. Front(name \o << "..." >>) = name
    BY FrontOfOne
  <1>6. /\ Member(s[1]).calls = s[2].name
        /\ Member(s[2]).calls = s[2].name
        /\ Member(s[3]).calls = s[3].name
    <2> HIDE DEF s
    <2> QED
      BY <1>2, <1>4, <1>5 DEF Member, InFormV
  <1> HIDE DEF s
  <1>7. \A i \in 1 .. 3 : table[n + i - 1] = s[i].name
    <2>1. n + 1 - 1 = n /\ n + 2 - 1 = n + 1 /\ n + 3 - 1 = n + 2
      OBVIOUS
    <2>2. \A i \in 1 .. 3 : i = 1 \/ i = 2 \/ i = 3
      OBVIOUS
    <2>3. /\ table[n + 1 - 1] = s[1].name
          /\ table[n + 2 - 1] = s[2].name
          /\ table[n + 3 - 1] = s[3].name
      BY <1>2, <2>1, Zenon
    <2> QED
      BY <2>2, <2>3, Zenon
  <1>8. \A i \in 1 .. 3 : \E j \in 1 .. 3 : s[j].name = Member(s[i]).calls
    BY <1>6
  <1> QED
    BY <1>1, <1>7, <1>8 DEF Section, Spans, s

(* The number of the first function of each section of the VM's table.     *)
First == << 0, 28, 31, 34, 64, 94, 95, 104, 113, 114, 144, 145, 154, 163, 175,
            183, 191, 199, 207, 215, 234 >>

(* The kinds of values, as sequences.                                      *)
LEMMA KindsAre ==
  /\ Len(Primitives) = 8 /\ IsSeq(Primitives)
  /\ Len(Values) = 9 /\ IsSeq(Values)
  /\ Len(Results) = 10 /\ IsSeq(Results)
  BY DEF Primitives, Values, Results, IsSeq

(* The sections of the VM's list are in order.                             *)
LEMMA FirstGrows == \A k, l \in 1 .. 21 : k <= l => First[k] <= First[l]
  <1>1. \A k \in 1 .. 21 : First[k] \in Nat
    BY DEF First
  <1>2. \A k \in 1 .. 20 : First[k] <= First[k + 1]
    BY DEF First
  <1> DEFINE S == {d \in Nat : \A k \in 1 .. 21 :
                                 k + d <= 21 => First[k] <= First[k + d]}
  <1>3. 0 \in S
    BY <1>1
  <1>4. ASSUME NEW d \in Nat, d \in S PROVE d + 1 \in S
    <2> SUFFICES ASSUME NEW k \in 1 .. 21, k + (d + 1) <= 21
                 PROVE  First[k] <= First[k + (d + 1)]
      OBVIOUS
    <2>1. /\ First[k] <= First[k + d]
          /\ k + d \in 1 .. 20 /\ (k + d) + 1 = k + (d + 1)
      BY <1>4
    <2>2. First[k + d] <= First[(k + d) + 1]
      BY <1>2, <2>1
    <2>3. /\ First[k] \in Nat /\ First[k + d] \in Nat
          /\ First[k + (d + 1)] \in Nat
      BY <1>1, <2>1
    <2> QED
      BY <2>1, <2>2, <2>3
  <1>5. Nat \subseteq S
    <2> HIDE DEF S
    <2> QED
      BY <1>3, <1>4, Induction
  <1>6. ASSUME NEW k \in 1 .. 21, NEW l \in 1 .. 21, k <= l
        PROVE  First[k] <= First[l]
    <2>1. l - k \in Nat /\ k + (l - k) = l
      BY <1>6
    <2>2. l - k \in S
      BY <1>5, <2>1
    <2> QED
      BY <2>1, <2>2
  <1> QED
    BY <1>6

(* The numbers in each section of the VM's list.                           *)
LEMMA SectionDomains ==
  /\ DOMAIN VMSections = 1 .. 20
  /\ \A k \in 1 .. 20 : DOMAIN VMSections[k] = First[k] .. First[k + 1] - 1
  <1>1. DOMAIN VMSections[1] = First[1] .. First[2] - 1
    BY DEF VMSections, NumberedPlain, Numbered, First
  <1>2. DOMAIN VMSections[2] = First[2] .. First[3] - 1
    BY DEF VMSections, Numbered, First
  <1>3. DOMAIN VMSections[3] = First[3] .. First[4] - 1
    BY DEF VMSections, NumberedPlain, Numbered, First
  <1>4. DOMAIN VMSections[4] = First[4] .. First[5] - 1
    BY DEF VMSections, NumberedCalls, First
  <1>5. DOMAIN VMSections[5] = First[5] .. First[6] - 1
    BY DEF VMSections, NumberedCalls, First
  <1>6. DOMAIN VMSections[6] = First[6] .. First[7] - 1
    BY DEF VMSections, NumberedPlain, Numbered, First
  <1>7. DOMAIN VMSections[7] = First[7] .. First[8] - 1
    BY KindsAre DEF VMSections, NumberedFamily, First
  <1>8. DOMAIN VMSections[8] = First[8] .. First[9] - 1
    BY KindsAre DEF VMSections, NumberedFamily, First
  <1>9. DOMAIN VMSections[9] = First[9] .. First[10] - 1
    BY DEF VMSections, NumberedPlain, Numbered, First
  <1>10. DOMAIN VMSections[10] = First[10] .. First[11] - 1
    BY DEF VMSections, NumberedCalls, First
  <1>11. DOMAIN VMSections[11] = First[11] .. First[12] - 1
    BY DEF VMSections, NumberedPlain, Numbered, First
  <1>12. DOMAIN VMSections[12] = First[12] .. First[13] - 1
    BY KindsAre DEF VMSections, NumberedFamily, First
  <1>13. DOMAIN VMSections[13] = First[13] .. First[14] - 1
    BY KindsAre DEF VMSections, NumberedFamily, First
  <1>14. DOMAIN VMSections[14] = First[14] .. First[15] - 1
    BY DEF VMSections, NumberedPlain, Numbered, First
  <1>15. DOMAIN VMSections[15] = First[15] .. First[16] - 1
    BY KindsAre DEF VMSections, NumberedFamily, First
  <1>16. DOMAIN VMSections[16] = First[16] .. First[17] - 1
    BY KindsAre DEF VMSections, NumberedFamily, First
  <1>17. DOMAIN VMSections[17] = First[17] .. First[18] - 1
    BY KindsAre DEF VMSections, NumberedFamily, First
  <1>18. DOMAIN VMSections[18] = First[18] .. First[19] - 1
    BY KindsAre DEF VMSections, NumberedFamily, First
  <1>19. DOMAIN VMSections[19] = First[19] .. First[20] - 1
    BY KindsAre DEF VMSections, NumberedFamily, First
  <1>20. DOMAIN VMSections[20] = First[20] .. First[21] - 1
    BY DEF VMSections, NumberedPlain, Numbered, First
  <1>21. DOMAIN VMSections = 1 .. 20
    BY DEF VMSections
  <1> QED
    BY <1>1, <1>2, <1>3, <1>4, <1>5, <1>6, <1>7, <1>8, <1>9, <1>10, <1>11,
       <1>12, <1>13, <1>14, <1>15, <1>16, <1>17, <1>18, <1>19, <1>20, <1>21

(* Each number is in one section.                                          *)
LEMMA TableAt ==
  ASSUME NEW k \in 1 .. 20, NEW i \in First[k] .. First[k + 1] - 1
  PROVE  VMTable[i] = VMSections[k][i]
  <1>1. DOMAIN VMSections = 1 .. 20 /\ i \in DOMAIN VMSections[k]
    BY SectionDomains
  <1>2. ASSUME NEW l \in 1 .. 20, i \in DOMAIN VMSections[l]
        PROVE  l = k
    <2>1. \A m \in 1 .. 21 : First[m] \in Nat
      BY DEF First
    <2>2. i \in First[l] .. First[l + 1] - 1
      BY <1>2, SectionDomains
    <2>3. k + 1 \in 1 .. 21 /\ l + 1 \in 1 .. 21
      OBVIOUS
    <2>4. ~(k + 1 <= l)
      BY <2>1, <2>2, <2>3, FirstGrows
    <2>5. ~(l + 1 <= k)
      BY <2>1, <2>2, <2>3, FirstGrows
    <2> QED
      BY <2>4, <2>5
  <1>3. SectionOf(i) = k
    BY <1>1, <1>2 DEF SectionOf
  <1>4. i \in UNION {DOMAIN VMSections[l] : l \in DOMAIN VMSections}
    BY <1>1
  <1> QED
    BY <1>3, <1>4 DEF VMTable

(* Functions with up to four parameters, none of them "...".               *)
LEMMA FixedArity ==
  ASSUME NEW name, NEW r, NEW a, NEW b, NEW c, NEW d
  PROVE  /\ ~IsVariadic(Function(name, r, << >>))
         /\ a # "..." => ~IsVariadic(Function(name, r, << a >>))
         /\ b # "..." => ~IsVariadic(Function(name, r, << a, b >>))
         /\ c # "..." => ~IsVariadic(Function(name, r, << a, b, c >>))
         /\ d # "..." => ~IsVariadic(Function(name, r, << a, b, c, d >>))
  BY DEF IsVariadic, Function, Last

(* A part of a table with no function that takes "...".                    *)
LEMMA DirectSpans ==
  ASSUME NEW table, NEW n \in Nat, NEW k \in Nat, NEW s, IsSeq(s), Len(s) = k,
         \A i \in 1 .. k : Direct(table, n + i - 1, s[i])
  PROVE  Spans(table, n, k, s)
  BY DirectSection DEF Spans

(* A part of a table with one function.                                    *)
LEMMA SingleSpans ==
  ASSUME NEW table, NEW n \in Nat, NEW f, Direct(table, n, f)
  PROVE  Spans(table, n, 1, << f >>)
  <1> DEFINE s == << f >>
  <1>1. IsSeq(s) /\ Len(s) = 1 /\ s[1] = f
    BY DEF IsSeq
  <1> HIDE DEF s
  <1>2. \A i \in 1 .. 1 : n + i - 1 = n /\ s[i] = f
    BY <1>1
  <1>3. \A i \in 1 .. 1 : Direct(table, n + i - 1, s[i])
    BY <1>2
  <1> QED
    BY <1>1, <1>3, DirectSpans DEF s

(* A family of functions without "...", one for each of n kinds.           *)
LEMMA FamilySpans ==
  ASSUME NEW table, NEW first \in Nat, NEW n \in Nat \ {0}, NEW ss, Len(ss) = n,
         NEW fs, \A i \in 1 .. n : /\ ss[i] = << fs[i] >>
                                  /\ Direct(table, first + i - 1, fs[i])
  PROVE  Spans(table, first, n, FlattenSeq(ss))
  <1>1. \A i \in 1 .. n : Spans(table, first + 1 * (i - 1), 1, ss[i])
    <2> SUFFICES ASSUME NEW i \in 1 .. n
                 PROVE  Spans(table, first + 1 * (i - 1), 1, ss[i])
      OBVIOUS
    <2>1. first + i - 1 \in Nat /\ first + 1 * (i - 1) = first + i - 1
      OBVIOUS
    <2>2. Spans(table, first + i - 1, 1, << fs[i] >>)
      BY <2>1, SingleSpans
    <2> QED
      BY <2>1, <2>2
  <1>2. Spans(table, first, 1 * n, FlattenSeq(ss))
    BY <1>1, FlattenSection
  <1>3. 1 * n = n
    OBVIOUS
  <1> QED
    BY <1>2, <1>3

(* The families of functions, one lemma each.                              *)
LEMMA GettersSpan ==
  ASSUME NEW n \in Nat, NEW prefix, NEW target,
         \A i \in 1 .. 9 : VMTable[n + i - 1] = << prefix, Values[i], "Field" >>
  PROVE  Spans(VMTable, n, 9, Getters(prefix, target))
  <1> DEFINE fs == [i \in 1 .. 9 |->
                      Function(<< prefix, Values[i], "Field" >>,
                               Type[Values[i]],
                               << target, "jfieldID" >>)]
             ss == [i \in DOMAIN Values |-> << fs[i] >>]
  <1>1. DOMAIN Values = 1 .. 9
    BY KindsAre DEF IsSeq
  <1>2. Getters(prefix, target) = FlattenSeq(ss)
    BY <1>1 DEF Getters, ForEach
  <1>4. \A i \in 1 .. 9 : Direct(VMTable, n + i - 1, fs[i])
    BY FixedArity DEF Direct, Function
  <1>5. Len(ss) = 9 /\ \A i \in 1 .. 9 : ss[i] = << fs[i] >>
    BY <1>1
  <1> HIDE DEF fs, ss
  <1> QED
    <2>1. 9 \in Nat \ {0}
      OBVIOUS
    <2>2. Spans(VMTable, n, 9, FlattenSeq(ss))
      BY <1>4, <1>5, <2>1, FamilySpans, Zenon
    <2> QED
      BY <1>2, <2>2

LEMMA SettersSpan ==
  ASSUME NEW n \in Nat, NEW prefix, NEW target,
         \A i \in 1 .. 9 : VMTable[n + i - 1] = << prefix, Values[i], "Field" >>
  PROVE  Spans(VMTable, n, 9, Setters(prefix, target))
  <1> DEFINE fs == [i \in 1 .. 9 |->
                      Function(<< prefix, Values[i], "Field" >>,
                               "void",
                               << target, "jfieldID", Type[Values[i]] >>)]
             ss == [i \in DOMAIN Values |-> << fs[i] >>]
  <1>1. DOMAIN Values = 1 .. 9
    BY KindsAre DEF IsSeq
  <1>2. Setters(prefix, target) = FlattenSeq(ss)
    BY <1>1 DEF Setters, ForEach
  <1>3. \A i \in 1 .. 9 : Type[Values[i]] # "..."
    BY DEF Type, Values, Primitives
  <1>4. \A i \in 1 .. 9 : Direct(VMTable, n + i - 1, fs[i])
    BY <1>3, FixedArity DEF Direct, Function
  <1>5. Len(ss) = 9 /\ \A i \in 1 .. 9 : ss[i] = << fs[i] >>
    BY <1>1
  <1> HIDE DEF fs, ss
  <1> QED
    <2>1. 9 \in Nat \ {0}
      OBVIOUS
    <2>2. Spans(VMTable, n, 9, FlattenSeq(ss))
      BY <1>4, <1>5, <2>1, FamilySpans, Zenon
    <2> QED
      BY <1>2, <2>2

LEMMA NewArraysSpan ==
  ASSUME NEW n \in Nat,
         \A i \in 1 .. 8 : VMTable[n + i - 1]
               = << "New", Primitives[i], "Array" >>
  PROVE  Spans(VMTable, n, 8, NewArrayFunctions)
  <1> DEFINE fs == [i \in 1 .. 8 |->
                      Function(<< "New", Primitives[i], "Array" >>,
                               Array[Primitives[i]],
                               << "jsize" >>)]
             ss == [i \in DOMAIN Primitives |-> << fs[i] >>]
  <1>1. DOMAIN Primitives = 1 .. 8
    BY KindsAre DEF IsSeq
  <1>2. NewArrayFunctions = FlattenSeq(ss)
    BY <1>1 DEF NewArrayFunctions, ForEach
  <1>4. \A i \in 1 .. 8 : Direct(VMTable, n + i - 1, fs[i])
    BY FixedArity DEF Direct, Function
  <1>5. Len(ss) = 8 /\ \A i \in 1 .. 8 : ss[i] = << fs[i] >>
    BY <1>1
  <1> HIDE DEF fs, ss
  <1> QED
    <2>1. 8 \in Nat \ {0}
      OBVIOUS
    <2>2. Spans(VMTable, n, 8, FlattenSeq(ss))
      BY <1>4, <1>5, <2>1, FamilySpans, Zenon
    <2> QED
      BY <1>2, <2>2

LEMMA GetElementsSpan ==
  ASSUME NEW n \in Nat,
         \A i \in 1 .. 8 : VMTable[n + i - 1]
               = << "Get", Primitives[i], "ArrayElements" >>
  PROVE  Spans(VMTable, n, 8, GetElementsFunctions)
  <1> DEFINE fs == [i \in 1 .. 8 |->
                      Function(<< "Get", Primitives[i], "ArrayElements" >>,
                               Pointer[Primitives[i]],
                               << Array[Primitives[i]], "jboolean*" >>)]
             ss == [i \in DOMAIN Primitives |-> << fs[i] >>]
  <1>1. DOMAIN Primitives = 1 .. 8
    BY KindsAre DEF IsSeq
  <1>2. GetElementsFunctions = FlattenSeq(ss)
    BY <1>1 DEF GetElementsFunctions, ForEach
  <1>4. \A i \in 1 .. 8 : Direct(VMTable, n + i - 1, fs[i])
    BY FixedArity DEF Direct, Function
  <1>5. Len(ss) = 8 /\ \A i \in 1 .. 8 : ss[i] = << fs[i] >>
    BY <1>1
  <1> HIDE DEF fs, ss
  <1> QED
    <2>1. 8 \in Nat \ {0}
      OBVIOUS
    <2>2. Spans(VMTable, n, 8, FlattenSeq(ss))
      BY <1>4, <1>5, <2>1, FamilySpans, Zenon
    <2> QED
      BY <1>2, <2>2

LEMMA ReleaseElementsSpan ==
  ASSUME NEW n \in Nat,
         \A i \in 1 .. 8 : VMTable[n + i - 1]
               = << "Release", Primitives[i], "ArrayElements" >>
  PROVE  Spans(VMTable, n, 8, ReleaseElementsFunctions)
  <1> DEFINE fs == [i \in 1 .. 8 |->
                      Function(<< "Release", Primitives[i], "ArrayElements" >>,
                               "void",
                               << Array[Primitives[i]],
                                  Pointer[Primitives[i]], "jint" >>)]
             ss == [i \in DOMAIN Primitives |-> << fs[i] >>]
  <1>1. DOMAIN Primitives = 1 .. 8
    BY KindsAre DEF IsSeq
  <1>2. ReleaseElementsFunctions = FlattenSeq(ss)
    BY <1>1 DEF ReleaseElementsFunctions, ForEach
  <1>4. \A i \in 1 .. 8 : Direct(VMTable, n + i - 1, fs[i])
    BY FixedArity DEF Direct, Function
  <1>5. Len(ss) = 8 /\ \A i \in 1 .. 8 : ss[i] = << fs[i] >>
    BY <1>1
  <1> HIDE DEF fs, ss
  <1> QED
    <2>1. 8 \in Nat \ {0}
      OBVIOUS
    <2>2. Spans(VMTable, n, 8, FlattenSeq(ss))
      BY <1>4, <1>5, <2>1, FamilySpans, Zenon
    <2> QED
      BY <1>2, <2>2

LEMMA RegionsSpan ==
  ASSUME NEW n \in Nat, NEW prefix,
         \A i \in 1 .. 8 : VMTable[n + i - 1]
               = << prefix, Primitives[i], "ArrayRegion" >>
  PROVE  Spans(VMTable, n, 8, Regions(prefix))
  <1> DEFINE fs == [i \in 1 .. 8 |->
                      Function(<< prefix, Primitives[i], "ArrayRegion" >>,
                               "void",
                               << Array[Primitives[i]], "jsize", "jsize",
                                  Pointer[Primitives[i]] >>)]
             ss == [i \in DOMAIN Primitives |-> << fs[i] >>]
  <1>1. DOMAIN Primitives = 1 .. 8
    BY KindsAre DEF IsSeq
  <1>2. Regions(prefix) = FlattenSeq(ss)
    BY <1>1 DEF Regions, ForEach
  <1>3. \A i \in 1 .. 8 : Pointer[Primitives[i]] # "..."
    BY DEF Pointer, Primitives
  <1>4. \A i \in 1 .. 8 : Direct(VMTable, n + i - 1, fs[i])
    BY <1>3, FixedArity DEF Direct, Function
  <1>5. Len(ss) = 8 /\ \A i \in 1 .. 8 : ss[i] = << fs[i] >>
    BY <1>1
  <1> HIDE DEF fs, ss
  <1> QED
    <2>1. 8 \in Nat \ {0}
      OBVIOUS
    <2>2. Spans(VMTable, n, 8, FlattenSeq(ss))
      BY <1>4, <1>5, <2>1, FamilySpans, Zenon
    <2> QED
      BY <1>2, <2>2

(* A tuple of four, made of three and one.                                 *)
LEMMA Quadruples ==
  ASSUME NEW a, NEW b, NEW c, NEW d
  PROVE  << a, b, c >> \o << d >> = << a, b, c, d >>
  <1>1. PICK s, t, q : s = << a, b, c >> /\ t = << d >> /\ q = << a, b, c, d >>
    OBVIOUS
  <1>2. IsSeq(s) /\ IsSeq(t) /\ IsSeq(q)
    BY <1>1 DEF IsSeq
  <1>3. /\ Len(s) = 3 /\ s[1] = a /\ s[2] = b /\ s[3] = c
        /\ Len(t) = 1 /\ t[1] = d
    BY <1>1
  <1>4. /\ Len(q) = 4
        /\ q[1] = a /\ q[2] = b /\ q[3] = c /\ q[4] = d
    BY <1>1
  <1>5. PICK p : p = s \o t
    OBVIOUS
  <1>6. /\ IsSeq(p) /\ Len(p) = Len(s) + Len(t)
        /\ \A i \in 1 .. Len(s) : p[i] = s[i]
        /\ \A i \in 1 .. Len(t) : p[Len(s) + i] = t[i]
    BY <1>2, <1>5, Concatenation
  <1>7. Len(p) = 4
    BY <1>3, <1>6
  <1>8. p[1] = a /\ p[2] = b /\ p[3] = c /\ p[4] = d
    BY <1>3, <1>6
  <1>9. \A i \in 1 .. 4 : p[i] = q[i]
    BY <1>4, <1>8
  <1>10. p = q
    BY <1>2, <1>4, <1>6, <1>7, <1>9 DEF IsSeq
  <1> QED
    BY <1>1, <1>5, <1>10

(* Ten kinds of result, three forms of each.                               *)
LEMMA CallsSpan ==
  ASSUME NEW n \in Nat, NEW prefix, NEW target, IsSeq(target),
         \A i \in 1 .. 10 :
            /\ VMTable[n + 3 * (i - 1)]
                  = << prefix, Results[i], "Method", "..." >>
            /\ VMTable[n + 3 * (i - 1) + 1]
                 = << prefix, Results[i], "Method", "V" >>
            /\ VMTable[n + 3 * (i - 1) + 2]
                 = << prefix, Results[i], "Method", "A" >>
  PROVE  Spans(VMTable, n, 30, Calls(prefix, target))
  <1> DEFINE ss == [i \in DOMAIN Results |->
                      Forms(<< prefix, Results[i], "Method" >>,
                            Type[Results[i]], target)]
  <1>1. DOMAIN Results = 1 .. 10
    BY KindsAre DEF IsSeq
  <1>2. Calls(prefix, target) = FlattenSeq(ss)
    BY <1>1 DEF Calls, ForEach
  <1>3. Len(ss) = 10
    BY <1>1
  <1>4. ASSUME NEW i \in 1 .. 10
        PROVE  Spans(VMTable, n + 3 * (i - 1), 3, ss[i])
    <2> DEFINE name == << prefix, Results[i], "Method" >>
    <2>1. /\ name \o << "..." >> = << prefix, Results[i], "Method", "..." >>
          /\ name \o << "V" >> = << prefix, Results[i], "Method", "V" >>
          /\ name \o << "A" >> = << prefix, Results[i], "Method", "A" >>
      BY Quadruples
    <2>2. IsSeq(name)
      BY DEF IsSeq
    <2>3. ss[i] = Forms(name, Type[Results[i]], target)
      BY <1>1
    <2> HIDE DEF name, ss
    <2>4. n + 3 * (i - 1) \in Nat
      OBVIOUS
    <2>5. /\ VMTable[n + 3 * (i - 1)] = name \o << "..." >>
          /\ VMTable[n + 3 * (i - 1) + 1] = name \o << "V" >>
          /\ VMTable[n + 3 * (i - 1) + 2] = name \o << "A" >>
      BY <2>1, Zenon
    <2>6. Spans(VMTable, n + 3 * (i - 1), 3,
                Forms(name, Type[Results[i]], target))
      BY <2>2, <2>4, <2>5, FormsSection, Zenon
    <2> QED
      BY <2>3, <2>6
  <1> HIDE DEF ss
  <1>5. Spans(VMTable, n, 3 * 10, FlattenSeq(ss))
    <2>1. 10 \in Nat \ {0} /\ 3 \in {1, 3}
      OBVIOUS
    <2> QED
      BY <1>3, <1>4, <2>1, FlattenSection, Zenon
  <1>6. 3 * 10 = 30
    OBVIOUS
  <1> QED
    BY <1>2, <1>5, <1>6

(* The sections that jni.h spells out, one lemma each.                     *)
LEMMA ClassSpan == Spans(VMTable, 4, 9, ClassFunctions)
  <1>1. IsSeq(ClassFunctions) /\ Len(ClassFunctions) = 9
    BY DEF ClassFunctions, IsSeq
  <1>2. \A i \in 0 .. 27 : VMTable[i] = VMSections[1][i]
    BY TableAt DEF First
  <1>3. /\ VMSections[1][4] = ClassFunctions[1].name
        /\ VMSections[1][5] = ClassFunctions[2].name
        /\ VMSections[1][6] = ClassFunctions[3].name
        /\ VMSections[1][7] = ClassFunctions[4].name
        /\ VMSections[1][8] = ClassFunctions[5].name
        /\ VMSections[1][9] = ClassFunctions[6].name
        /\ VMSections[1][10] = ClassFunctions[7].name
        /\ VMSections[1][11] = ClassFunctions[8].name
        /\ VMSections[1][12] = ClassFunctions[9].name
    BY DEF VMSections, NumberedPlain, Numbered, ClassFunctions, Plain, Function
  <1>4. /\ ~IsVariadic(ClassFunctions[1])
        /\ ~IsVariadic(ClassFunctions[2])
        /\ ~IsVariadic(ClassFunctions[3])
        /\ ~IsVariadic(ClassFunctions[4])
        /\ ~IsVariadic(ClassFunctions[5])
        /\ ~IsVariadic(ClassFunctions[6])
        /\ ~IsVariadic(ClassFunctions[7])
        /\ ~IsVariadic(ClassFunctions[8])
        /\ ~IsVariadic(ClassFunctions[9])
    BY DEF ClassFunctions, Plain, Function, IsVariadic, Last
  <1>5. \A i \in 1 .. 9 : Direct(VMTable, 4 + i - 1, ClassFunctions[i])
    BY <1>2, <1>3, <1>4 DEF Direct
  <1> QED
    BY <1>1, <1>5, DirectSpans

LEMMA ExceptionSpan == Spans(VMTable, 13, 6, ExceptionFunctions)
  <1>1. IsSeq(ExceptionFunctions) /\ Len(ExceptionFunctions) = 6
    BY DEF ExceptionFunctions, IsSeq
  <1>2. \A i \in 0 .. 27 : VMTable[i] = VMSections[1][i]
    BY TableAt DEF First
  <1>3. /\ VMSections[1][13] = ExceptionFunctions[1].name
        /\ VMSections[1][14] = ExceptionFunctions[2].name
        /\ VMSections[1][15] = ExceptionFunctions[3].name
        /\ VMSections[1][16] = ExceptionFunctions[4].name
        /\ VMSections[1][17] = ExceptionFunctions[5].name
        /\ VMSections[1][18] = ExceptionFunctions[6].name
    BY DEF VMSections, NumberedPlain, Numbered, ExceptionFunctions, Plain,
       Function
  <1>4. /\ ~IsVariadic(ExceptionFunctions[1])
        /\ ~IsVariadic(ExceptionFunctions[2])
        /\ ~IsVariadic(ExceptionFunctions[3])
        /\ ~IsVariadic(ExceptionFunctions[4])
        /\ ~IsVariadic(ExceptionFunctions[5])
        /\ ~IsVariadic(ExceptionFunctions[6])
    BY DEF ExceptionFunctions, Plain, Function, IsVariadic, Last
  <1>5. \A i \in 1 .. 6 : Direct(VMTable, 13 + i - 1, ExceptionFunctions[i])
    BY <1>2, <1>3, <1>4 DEF Direct
  <1> QED
    BY <1>1, <1>5, DirectSpans

LEMMA ReferenceSpan == Spans(VMTable, 19, 8, ReferenceFunctions)
  <1>1. IsSeq(ReferenceFunctions) /\ Len(ReferenceFunctions) = 8
    BY DEF ReferenceFunctions, IsSeq
  <1>2. \A i \in 0 .. 27 : VMTable[i] = VMSections[1][i]
    BY TableAt DEF First
  <1>3. /\ VMSections[1][19] = ReferenceFunctions[1].name
        /\ VMSections[1][20] = ReferenceFunctions[2].name
        /\ VMSections[1][21] = ReferenceFunctions[3].name
        /\ VMSections[1][22] = ReferenceFunctions[4].name
        /\ VMSections[1][23] = ReferenceFunctions[5].name
        /\ VMSections[1][24] = ReferenceFunctions[6].name
        /\ VMSections[1][25] = ReferenceFunctions[7].name
        /\ VMSections[1][26] = ReferenceFunctions[8].name
    BY DEF VMSections, NumberedPlain, Numbered, ReferenceFunctions, Plain,
       Function
  <1>4. /\ ~IsVariadic(ReferenceFunctions[1])
        /\ ~IsVariadic(ReferenceFunctions[2])
        /\ ~IsVariadic(ReferenceFunctions[3])
        /\ ~IsVariadic(ReferenceFunctions[4])
        /\ ~IsVariadic(ReferenceFunctions[5])
        /\ ~IsVariadic(ReferenceFunctions[6])
        /\ ~IsVariadic(ReferenceFunctions[7])
        /\ ~IsVariadic(ReferenceFunctions[8])
    BY DEF ReferenceFunctions, Plain, Function, IsVariadic, Last
  <1>5. \A i \in 1 .. 8 : Direct(VMTable, 19 + i - 1, ReferenceFunctions[i])
    BY <1>2, <1>3, <1>4 DEF Direct
  <1> QED
    BY <1>1, <1>5, DirectSpans

LEMMA StaticMethodSpan == Spans(VMTable, 113, 1, StaticMethodFunctions)
  <1>1. IsSeq(StaticMethodFunctions) /\ Len(StaticMethodFunctions) = 1
    BY DEF StaticMethodFunctions, IsSeq
  <1>2. \A i \in 113 .. 113 : VMTable[i] = VMSections[9][i]
    BY TableAt DEF First
  <1>3. /\ VMSections[9][113] = StaticMethodFunctions[1].name
    BY DEF VMSections, NumberedPlain, Numbered, StaticMethodFunctions, Plain,
       Function
  <1>4. /\ ~IsVariadic(StaticMethodFunctions[1])
    BY DEF StaticMethodFunctions, Plain, Function, IsVariadic, Last
  <1>5. \A i \in 1 .. 1 : Direct(VMTable, 113 + i - 1, StaticMethodFunctions[i])
    BY <1>2, <1>3, <1>4 DEF Direct
  <1> QED
    BY <1>1, <1>5, DirectSpans

LEMMA StringSpan == Spans(VMTable, 163, 8, StringFunctions)
  <1>1. IsSeq(StringFunctions) /\ Len(StringFunctions) = 8
    BY DEF StringFunctions, IsSeq
  <1>2. \A i \in 163 .. 174 : VMTable[i] = VMSections[14][i]
    BY TableAt DEF First
  <1>3. /\ VMSections[14][163] = StringFunctions[1].name
        /\ VMSections[14][164] = StringFunctions[2].name
        /\ VMSections[14][165] = StringFunctions[3].name
        /\ VMSections[14][166] = StringFunctions[4].name
        /\ VMSections[14][167] = StringFunctions[5].name
        /\ VMSections[14][168] = StringFunctions[6].name
        /\ VMSections[14][169] = StringFunctions[7].name
        /\ VMSections[14][170] = StringFunctions[8].name
    BY DEF VMSections, NumberedPlain, Numbered, StringFunctions, Plain, Function
  <1>4. /\ ~IsVariadic(StringFunctions[1])
        /\ ~IsVariadic(StringFunctions[2])
        /\ ~IsVariadic(StringFunctions[3])
        /\ ~IsVariadic(StringFunctions[4])
        /\ ~IsVariadic(StringFunctions[5])
        /\ ~IsVariadic(StringFunctions[6])
        /\ ~IsVariadic(StringFunctions[7])
        /\ ~IsVariadic(StringFunctions[8])
    BY DEF StringFunctions, Plain, Function, IsVariadic, Last
  <1>5. \A i \in 1 .. 8 : Direct(VMTable, 163 + i - 1, StringFunctions[i])
    BY <1>2, <1>3, <1>4 DEF Direct
  <1> QED
    BY <1>1, <1>5, DirectSpans

LEMMA ObjectArraySpan == Spans(VMTable, 171, 4, ObjectArrayFunctions)
  <1>1. IsSeq(ObjectArrayFunctions) /\ Len(ObjectArrayFunctions) = 4
    BY DEF ObjectArrayFunctions, IsSeq
  <1>2. \A i \in 163 .. 174 : VMTable[i] = VMSections[14][i]
    BY TableAt DEF First
  <1>3. /\ VMSections[14][171] = ObjectArrayFunctions[1].name
        /\ VMSections[14][172] = ObjectArrayFunctions[2].name
        /\ VMSections[14][173] = ObjectArrayFunctions[3].name
        /\ VMSections[14][174] = ObjectArrayFunctions[4].name
    BY DEF VMSections, NumberedPlain, Numbered, ObjectArrayFunctions, Plain,
       Function
  <1>4. /\ ~IsVariadic(ObjectArrayFunctions[1])
        /\ ~IsVariadic(ObjectArrayFunctions[2])
        /\ ~IsVariadic(ObjectArrayFunctions[3])
        /\ ~IsVariadic(ObjectArrayFunctions[4])
    BY DEF ObjectArrayFunctions, Plain, Function, IsVariadic, Last
  <1>5. \A i \in 1 .. 4 : Direct(VMTable, 171 + i - 1, ObjectArrayFunctions[i])
    BY <1>2, <1>3, <1>4 DEF Direct
  <1> QED
    BY <1>1, <1>5, DirectSpans

LEMMA ThreadSpan == Spans(VMTable, 215, 5, ThreadFunctions)
  <1>1. IsSeq(ThreadFunctions) /\ Len(ThreadFunctions) = 5
    BY DEF ThreadFunctions, IsSeq
  <1>2. \A i \in 215 .. 233 : VMTable[i] = VMSections[20][i]
    BY TableAt DEF First
  <1>3. /\ VMSections[20][215] = ThreadFunctions[1].name
        /\ VMSections[20][216] = ThreadFunctions[2].name
        /\ VMSections[20][217] = ThreadFunctions[3].name
        /\ VMSections[20][218] = ThreadFunctions[4].name
        /\ VMSections[20][219] = ThreadFunctions[5].name
    BY DEF VMSections, NumberedPlain, Numbered, ThreadFunctions, Plain, Function
  <1>4. /\ ~IsVariadic(ThreadFunctions[1])
        /\ ~IsVariadic(ThreadFunctions[2])
        /\ ~IsVariadic(ThreadFunctions[3])
        /\ ~IsVariadic(ThreadFunctions[4])
        /\ ~IsVariadic(ThreadFunctions[5])
    BY DEF ThreadFunctions, Plain, Function, IsVariadic, Last
  <1>5. \A i \in 1 .. 5 : Direct(VMTable, 215 + i - 1, ThreadFunctions[i])
    BY <1>2, <1>3, <1>4 DEF Direct
  <1> QED
    BY <1>1, <1>5, DirectSpans

LEMMA CriticalSpan == Spans(VMTable, 220, 6, CriticalFunctions)
  <1>1. IsSeq(CriticalFunctions) /\ Len(CriticalFunctions) = 6
    BY DEF CriticalFunctions, IsSeq
  <1>2. \A i \in 215 .. 233 : VMTable[i] = VMSections[20][i]
    BY TableAt DEF First
  <1>3. /\ VMSections[20][220] = CriticalFunctions[1].name
        /\ VMSections[20][221] = CriticalFunctions[2].name
        /\ VMSections[20][222] = CriticalFunctions[3].name
        /\ VMSections[20][223] = CriticalFunctions[4].name
        /\ VMSections[20][224] = CriticalFunctions[5].name
        /\ VMSections[20][225] = CriticalFunctions[6].name
    BY DEF VMSections, NumberedPlain, Numbered, CriticalFunctions, Plain,
       Function
  <1>4. /\ ~IsVariadic(CriticalFunctions[1])
        /\ ~IsVariadic(CriticalFunctions[2])
        /\ ~IsVariadic(CriticalFunctions[3])
        /\ ~IsVariadic(CriticalFunctions[4])
        /\ ~IsVariadic(CriticalFunctions[5])
        /\ ~IsVariadic(CriticalFunctions[6])
    BY DEF CriticalFunctions, Plain, Function, IsVariadic, Last
  <1>5. \A i \in 1 .. 6 : Direct(VMTable, 220 + i - 1, CriticalFunctions[i])
    BY <1>2, <1>3, <1>4 DEF Direct
  <1> QED
    BY <1>1, <1>5, DirectSpans

LEMMA BufferSpan == Spans(VMTable, 226, 7, BufferFunctions)
  <1>1. IsSeq(BufferFunctions) /\ Len(BufferFunctions) = 7
    BY DEF BufferFunctions, IsSeq
  <1>2. \A i \in 215 .. 233 : VMTable[i] = VMSections[20][i]
    BY TableAt DEF First
  <1>3. /\ VMSections[20][226] = BufferFunctions[1].name
        /\ VMSections[20][227] = BufferFunctions[2].name
        /\ VMSections[20][228] = BufferFunctions[3].name
        /\ VMSections[20][229] = BufferFunctions[4].name
        /\ VMSections[20][230] = BufferFunctions[5].name
        /\ VMSections[20][231] = BufferFunctions[6].name
        /\ VMSections[20][232] = BufferFunctions[7].name
    BY DEF VMSections, NumberedPlain, Numbered, BufferFunctions, Plain, Function
  <1>4. /\ ~IsVariadic(BufferFunctions[1])
        /\ ~IsVariadic(BufferFunctions[2])
        /\ ~IsVariadic(BufferFunctions[3])
        /\ ~IsVariadic(BufferFunctions[4])
        /\ ~IsVariadic(BufferFunctions[5])
        /\ ~IsVariadic(BufferFunctions[6])
        /\ ~IsVariadic(BufferFunctions[7])
    BY DEF BufferFunctions, Plain, Function, IsVariadic, Last
  <1>5. \A i \in 1 .. 7 : Direct(VMTable, 226 + i - 1, BufferFunctions[i])
    BY <1>2, <1>3, <1>4 DEF Direct
  <1> QED
    BY <1>1, <1>5, DirectSpans

LEMMA InvokeSpan == Spans(VMInvokeTable, 3, 5, InvokeFunctions)
  <1>1. IsSeq(InvokeFunctions) /\ Len(InvokeFunctions) = 5
    BY DEF InvokeFunctions, IsSeq
  <1>3. /\ VMInvokeTable[3] = InvokeFunctions[1].name
        /\ VMInvokeTable[4] = InvokeFunctions[2].name
        /\ VMInvokeTable[5] = InvokeFunctions[3].name
        /\ VMInvokeTable[6] = InvokeFunctions[4].name
        /\ VMInvokeTable[7] = InvokeFunctions[5].name
    BY DEF VMInvokeTable, NumberedPlain, Numbered, InvokeFunctions, Plain,
       Function
  <1>4. /\ ~IsVariadic(InvokeFunctions[1])
        /\ ~IsVariadic(InvokeFunctions[2])
        /\ ~IsVariadic(InvokeFunctions[3])
        /\ ~IsVariadic(InvokeFunctions[4])
        /\ ~IsVariadic(InvokeFunctions[5])
    BY DEF InvokeFunctions, Plain, Function, IsVariadic, Last
  <1>5. \A i \in 1 .. 5 : Direct(VMInvokeTable, 3 + i - 1, InvokeFunctions[i])
    BY <1>3, <1>4 DEF Direct
  <1> QED
    BY <1>1, <1>5, DirectSpans

(* The three numbers of a call with the i-th kind of result.               *)
LEMMA CallNumbers ==
  ASSUME NEW first \in Nat, NEW prefix, NEW i \in 1 .. 10
  PROVE  LET t == NumberedCalls(first, prefix)
             n == first + 3 * (i - 1)
         IN  /\ t[n] = << prefix, Results[i], "Method", "..." >>
             /\ t[n + 1] = << prefix, Results[i], "Method", "V" >>
             /\ t[n + 2] = << prefix, Results[i], "Method", "A" >>
  <1>0. PICK n : n = first + 3 * (i - 1)
    OBVIOUS
  <1>0a. \A m \in first .. first + 29 :
           NumberedCalls(first, prefix)[m]
             = << prefix, Results[((m - first) \div 3) + 1], "Method",
                  << "...", "V", "A" >>[((m - first) % 3) + 1] >>
    BY Zenon DEF NumberedCalls
  <1>1. \A j \in 0 .. 2 :
          /\ n + j \in first .. first + 29
          /\ (((n + j) - first) \div 3) + 1 = i
          /\ (((n + j) - first) % 3) + 1 = j + 1
    <2>1. \A j \in 0 .. 2 : (n + j) - first = 3 * (i - 1) + j
      BY <1>0
    <2>2. \A j \in 0 .. 2 : /\ (3 * (i - 1) + j) \div 3 = i - 1
                            /\ (3 * (i - 1) + j) % 3 = j
      OBVIOUS
    <2>3. \A j \in 0 .. 2 : n + j \in first .. first + 29
      BY <1>0
    <2>4. \A j \in 0 .. 2 : (i - 1) + 1 = i
      OBVIOUS
    <2> QED
      BY <2>1, <2>2, <2>3, <2>4, Zenon
  <1>2. ASSUME NEW j \in 0 .. 2
        PROVE  NumberedCalls(first, prefix)[n + j]
                 = << prefix, Results[i], "Method",
                      << "...", "V", "A" >>[j + 1] >>
    <2>1. /\ n + j \in first .. first + 29
          /\ (((n + j) - first) \div 3) + 1 = i
          /\ (((n + j) - first) % 3) + 1 = j + 1
      BY <1>1
    <2>2. NumberedCalls(first, prefix)[n + j]
            = << prefix, Results[(((n + j) - first) \div 3) + 1], "Method",
                 << "...", "V", "A" >>[(((n + j) - first) % 3) + 1] >>
      BY <1>0a, <2>1, Zenon
    <2> QED
      BY <2>1, <2>2, Zenon
  <1>3. /\ << "...", "V", "A" >>[0 + 1] = "..."
        /\ << "...", "V", "A" >>[1 + 1] = "V"
        /\ << "...", "V", "A" >>[2 + 1] = "A"
        /\ n + 0 = n
    BY <1>0
  <1>4. 0 \in 0 .. 2 /\ 1 \in 0 .. 2 /\ 2 \in 0 .. 2
    OBVIOUS
  <1>5. /\ NumberedCalls(first, prefix)[n + 0]
             = << prefix, Results[i], "Method", << "...", "V", "A" >>[0 + 1] >>
        /\ NumberedCalls(first, prefix)[n + 1]
             = << prefix, Results[i], "Method", << "...", "V", "A" >>[1 + 1] >>
        /\ NumberedCalls(first, prefix)[n + 2]
             = << prefix, Results[i], "Method", << "...", "V", "A" >>[2 + 1] >>
    BY <1>2, <1>4, Zenon
  <1> QED
    BY <1>0, <1>3, <1>5, Zenon

(* The families that the VM's list has.                                    *)
LEMMA GettersAt == Spans(VMTable, 95, 9, Getters("Get", "jobject"))
  <1>1. \A j \in 95 .. 103 : VMTable[j] = VMSections[7][j]
    BY TableAt DEF First
  <1>2. \A i \in 1 .. 9 :
          VMSections[7][95 + i - 1] = << "Get", Values[i], "Field" >>
    BY KindsAre DEF VMSections, NumberedFamily
  <1>3. \A i \in 1 .. 9 : 95 + i - 1 \in 95 .. 103
    OBVIOUS
  <1>4. \A i \in 1 .. 9 :
          VMTable[95 + i - 1] = << "Get", Values[i], "Field" >>
    BY <1>1, <1>2, <1>3, Zenon
  <1>5. 95 \in Nat
    OBVIOUS
  <1> QED
    BY <1>4, <1>5, GettersSpan, Zenon

LEMMA SettersAt == Spans(VMTable, 104, 9, Setters("Set", "jobject"))
  <1>1. \A j \in 104 .. 112 : VMTable[j] = VMSections[8][j]
    BY TableAt DEF First
  <1>2. \A i \in 1 .. 9 :
          VMSections[8][104 + i - 1] = << "Set", Values[i], "Field" >>
    BY KindsAre DEF VMSections, NumberedFamily
  <1>3. \A i \in 1 .. 9 : 104 + i - 1 \in 104 .. 112
    OBVIOUS
  <1>4. \A i \in 1 .. 9 :
          VMTable[104 + i - 1] = << "Set", Values[i], "Field" >>
    BY <1>1, <1>2, <1>3, Zenon
  <1>5. 104 \in Nat
    OBVIOUS
  <1> QED
    BY <1>4, <1>5, SettersSpan, Zenon

LEMMA StaticGettersAt ==
  Spans(VMTable, 145, 9, Getters("GetStatic", "jclass"))
  <1>1. \A j \in 145 .. 153 : VMTable[j] = VMSections[12][j]
    BY TableAt DEF First
  <1>2. \A i \in 1 .. 9 :
          VMSections[12][145 + i - 1] = << "GetStatic", Values[i], "Field" >>
    BY KindsAre DEF VMSections, NumberedFamily
  <1>3. \A i \in 1 .. 9 : 145 + i - 1 \in 145 .. 153
    OBVIOUS
  <1>4. \A i \in 1 .. 9 :
          VMTable[145 + i - 1] = << "GetStatic", Values[i], "Field" >>
    BY <1>1, <1>2, <1>3, Zenon
  <1>5. 145 \in Nat
    OBVIOUS
  <1> QED
    BY <1>4, <1>5, GettersSpan, Zenon

LEMMA StaticSettersAt ==
  Spans(VMTable, 154, 9, Setters("SetStatic", "jclass"))
  <1>1. \A j \in 154 .. 162 : VMTable[j] = VMSections[13][j]
    BY TableAt DEF First
  <1>2. \A i \in 1 .. 9 :
          VMSections[13][154 + i - 1] = << "SetStatic", Values[i], "Field" >>
    BY KindsAre DEF VMSections, NumberedFamily
  <1>3. \A i \in 1 .. 9 : 154 + i - 1 \in 154 .. 162
    OBVIOUS
  <1>4. \A i \in 1 .. 9 :
          VMTable[154 + i - 1] = << "SetStatic", Values[i], "Field" >>
    BY <1>1, <1>2, <1>3, Zenon
  <1>5. 154 \in Nat
    OBVIOUS
  <1> QED
    BY <1>4, <1>5, SettersSpan, Zenon

LEMMA NewArraysAt == Spans(VMTable, 175, 8, NewArrayFunctions)
  <1>1. \A j \in 175 .. 182 : VMTable[j] = VMSections[15][j]
    BY TableAt DEF First
  <1>2. \A i \in 1 .. 8 :
          VMSections[15][175 + i - 1] = << "New", Primitives[i], "Array" >>
    BY KindsAre DEF VMSections, NumberedFamily
  <1>3. \A i \in 1 .. 8 : 175 + i - 1 \in 175 .. 182
    OBVIOUS
  <1>4. \A i \in 1 .. 8 :
          VMTable[175 + i - 1] = << "New", Primitives[i], "Array" >>
    BY <1>1, <1>2, <1>3, Zenon
  <1>5. 175 \in Nat
    OBVIOUS
  <1> QED
    BY <1>4, <1>5, NewArraysSpan, Zenon

LEMMA GetElementsAt == Spans(VMTable, 183, 8, GetElementsFunctions)
  <1>1. \A j \in 183 .. 190 : VMTable[j] = VMSections[16][j]
    BY TableAt DEF First
  <1>2. \A i \in 1 .. 8 :
          VMSections[16][183 + i - 1]
                = << "Get", Primitives[i], "ArrayElements" >>
    BY KindsAre DEF VMSections, NumberedFamily
  <1>3. \A i \in 1 .. 8 : 183 + i - 1 \in 183 .. 190
    OBVIOUS
  <1>4. \A i \in 1 .. 8 :
          VMTable[183 + i - 1] = << "Get", Primitives[i], "ArrayElements" >>
    BY <1>1, <1>2, <1>3, Zenon
  <1>5. 183 \in Nat
    OBVIOUS
  <1> QED
    BY <1>4, <1>5, GetElementsSpan, Zenon

LEMMA ReleaseElementsAt ==
  Spans(VMTable, 191, 8, ReleaseElementsFunctions)
  <1>1. \A j \in 191 .. 198 : VMTable[j] = VMSections[17][j]
    BY TableAt DEF First
  <1>2. \A i \in 1 .. 8 :
          VMSections[17][191 + i - 1]
                = << "Release", Primitives[i], "ArrayElements" >>
    BY KindsAre DEF VMSections, NumberedFamily
  <1>3. \A i \in 1 .. 8 : 191 + i - 1 \in 191 .. 198
    OBVIOUS
  <1>4. \A i \in 1 .. 8 :
          VMTable[191 + i - 1] = << "Release", Primitives[i], "ArrayElements" >>
    BY <1>1, <1>2, <1>3, Zenon
  <1>5. 191 \in Nat
    OBVIOUS
  <1> QED
    BY <1>4, <1>5, ReleaseElementsSpan, Zenon

LEMMA GetRegionsAt == Spans(VMTable, 199, 8, GetRegionFunctions)
  <1>1. \A j \in 199 .. 206 : VMTable[j] = VMSections[18][j]
    BY TableAt DEF First
  <1>2. \A i \in 1 .. 8 :
          VMSections[18][199 + i - 1]
                = << "Get", Primitives[i], "ArrayRegion" >>
    BY KindsAre DEF VMSections, NumberedFamily
  <1>3. \A i \in 1 .. 8 : 199 + i - 1 \in 199 .. 206
    OBVIOUS
  <1>4. \A i \in 1 .. 8 :
          VMTable[199 + i - 1] = << "Get", Primitives[i], "ArrayRegion" >>
    BY <1>1, <1>2, <1>3, Zenon
  <1>5. 199 \in Nat
    OBVIOUS
  <1> QED
    BY <1>4, <1>5, RegionsSpan, Zenon DEF GetRegionFunctions

LEMMA SetRegionsAt == Spans(VMTable, 207, 8, SetRegionFunctions)
  <1>1. \A j \in 207 .. 214 : VMTable[j] = VMSections[19][j]
    BY TableAt DEF First
  <1>2. \A i \in 1 .. 8 :
          VMSections[19][207 + i - 1]
                = << "Set", Primitives[i], "ArrayRegion" >>
    BY KindsAre DEF VMSections, NumberedFamily
  <1>3. \A i \in 1 .. 8 : 207 + i - 1 \in 207 .. 214
    OBVIOUS
  <1>4. \A i \in 1 .. 8 :
          VMTable[207 + i - 1] = << "Set", Primitives[i], "ArrayRegion" >>
    BY <1>1, <1>2, <1>3, Zenon
  <1>5. 207 \in Nat
    OBVIOUS
  <1> QED
    BY <1>4, <1>5, RegionsSpan, Zenon DEF SetRegionFunctions

(* The three families of calls.                                            *)
LEMMA CallsAt == Spans(VMTable, 34, 30, CallFunctions)
  <1>1. \A j \in 34 .. 63 : VMTable[j] = VMSections[4][j]
    BY TableAt DEF First
  <1>2. VMSections[4] = NumberedCalls(34, "Call")
    BY DEF VMSections
  <1>3. \A i \in 1 .. 10 : /\ 34 + 3 * (i - 1) \in 34 .. 63
                         /\ 34 + 3 * (i - 1) + 1 \in 34 .. 63
                         /\ 34 + 3 * (i - 1) + 2 \in 34 .. 63
    OBVIOUS
  <1>4. 34 \in Nat
    OBVIOUS
  <1>5. \A i \in 1 .. 10 :
          LET t == NumberedCalls(34, "Call")
              n == 34 + 3 * (i - 1)
          IN  /\ t[n] = << "Call", Results[i], "Method", "..." >>
              /\ t[n + 1] = << "Call", Results[i], "Method", "V" >>
              /\ t[n + 2] = << "Call", Results[i], "Method", "A" >>
    BY <1>4, CallNumbers, Zenon
  <1>6. ASSUME NEW i \in 1 .. 10
        PROVE  /\ VMTable[34 + 3 * (i - 1)]
                    = << "Call", Results[i], "Method", "..." >>
               /\ VMTable[34 + 3 * (i - 1) + 1]
                    = << "Call", Results[i], "Method", "V" >>
               /\ VMTable[34 + 3 * (i - 1) + 2]
                    = << "Call", Results[i], "Method", "A" >>
    BY <1>1, <1>2, <1>3, <1>5, Zenon
  <1>7. IsSeq(<< "jobject" >>)
    BY DEF IsSeq
  <1> QED
    BY <1>4, <1>6, <1>7, CallsSpan, Zenon DEF CallFunctions

LEMMA CallsNonvirtualAt == Spans(VMTable, 64, 30, CallNonvirtualFunctions)
  <1>1. \A j \in 64 .. 93 : VMTable[j] = VMSections[5][j]
    BY TableAt DEF First
  <1>2. VMSections[5] = NumberedCalls(64, "CallNonvirtual")
    BY DEF VMSections
  <1>3. \A i \in 1 .. 10 : /\ 64 + 3 * (i - 1) \in 64 .. 93
                         /\ 64 + 3 * (i - 1) + 1 \in 64 .. 93
                         /\ 64 + 3 * (i - 1) + 2 \in 64 .. 93
    OBVIOUS
  <1>4. 64 \in Nat
    OBVIOUS
  <1>5. \A i \in 1 .. 10 :
          LET t == NumberedCalls(64, "CallNonvirtual")
              n == 64 + 3 * (i - 1)
          IN  /\ t[n] = << "CallNonvirtual", Results[i], "Method", "..." >>
              /\ t[n + 1] = << "CallNonvirtual", Results[i], "Method", "V" >>
              /\ t[n + 2] = << "CallNonvirtual", Results[i], "Method", "A" >>
    BY <1>4, CallNumbers, Zenon
  <1>6. ASSUME NEW i \in 1 .. 10
        PROVE  /\ VMTable[64 + 3 * (i - 1)]
                    = << "CallNonvirtual", Results[i], "Method", "..." >>
               /\ VMTable[64 + 3 * (i - 1) + 1]
                    = << "CallNonvirtual", Results[i], "Method", "V" >>
               /\ VMTable[64 + 3 * (i - 1) + 2]
                    = << "CallNonvirtual", Results[i], "Method", "A" >>
    BY <1>1, <1>2, <1>3, <1>5, Zenon
  <1>7. IsSeq(<< "jobject", "jclass" >>)
    BY DEF IsSeq
  <1> QED
    BY <1>4, <1>6, <1>7, CallsSpan, Zenon DEF CallNonvirtualFunctions

LEMMA CallsStaticAt == Spans(VMTable, 114, 30, CallStaticFunctions)
  <1>1. \A j \in 114 .. 143 : VMTable[j] = VMSections[10][j]
    BY TableAt DEF First
  <1>2. VMSections[10] = NumberedCalls(114, "CallStatic")
    BY DEF VMSections
  <1>3. \A i \in 1 .. 10 : /\ 114 + 3 * (i - 1) \in 114 .. 143
                         /\ 114 + 3 * (i - 1) + 1 \in 114 .. 143
                         /\ 114 + 3 * (i - 1) + 2 \in 114 .. 143
    OBVIOUS
  <1>4. 114 \in Nat
    OBVIOUS
  <1>5. \A i \in 1 .. 10 :
          LET t == NumberedCalls(114, "CallStatic")
              n == 114 + 3 * (i - 1)
          IN  /\ t[n] = << "CallStatic", Results[i], "Method", "..." >>
              /\ t[n + 1] = << "CallStatic", Results[i], "Method", "V" >>
              /\ t[n + 2] = << "CallStatic", Results[i], "Method", "A" >>
    BY <1>4, CallNumbers, Zenon
  <1>6. ASSUME NEW i \in 1 .. 10
        PROVE  /\ VMTable[114 + 3 * (i - 1)]
                    = << "CallStatic", Results[i], "Method", "..." >>
               /\ VMTable[114 + 3 * (i - 1) + 1]
                    = << "CallStatic", Results[i], "Method", "V" >>
               /\ VMTable[114 + 3 * (i - 1) + 2]
                    = << "CallStatic", Results[i], "Method", "A" >>
    BY <1>1, <1>2, <1>3, <1>5, ZenonT(60)
  <1>7. IsSeq(<< "jclass" >>)
    BY DEF IsSeq
  <1> QED
    BY <1>4, <1>6, <1>7, CallsSpan, Zenon DEF CallStaticFunctions

(* The functions of s are among those of t.                                *)
Within(s, t) == ToSet(s) \subseteq ToSet(t)

(* Putting parts together keeps the functions of both.                     *)
LEMMA JoinWithin ==
  ASSUME NEW table, NEW n \in Nat, NEW k, NEW l, NEW s, NEW t,
         Spans(table, n, k, s), Spans(table, n + k, l, t)
  PROVE  /\ Spans(table, n, k + l, s \o t)
         /\ Within(s, s \o t) /\ Within(t, s \o t)
  BY JoinSpans DEF Within

(* A part of a part is a part.                                             *)
LEMMA WithinWithin ==
  ASSUME NEW s, NEW t, NEW u, Within(s, t), Within(t, u)
  PROVE  Within(s, u)
  BY DEF Within

(* The entries that are reserved in both tables.                           *)
LEMMA ReservedSpans ==
  /\ Spans(VMTable, 0, 4, Reserved(4))
  /\ Spans(VMInvokeTable, 0, 3, Reserved(3))
  <1>1. /\ IsSeq(Reserved(4)) /\ Len(Reserved(4)) = 4
        /\ IsSeq(Reserved(3)) /\ Len(Reserved(3)) = 3
    BY DEF Reserved, IsSeq
  <1>2. /\ VMSections[1][0] = << "reserved" >>
        /\ VMSections[1][1] = << "reserved" >>
        /\ VMSections[1][2] = << "reserved" >>
        /\ VMSections[1][3] = << "reserved" >>
    BY DEF VMSections, NumberedPlain, Numbered
  <1>3. /\ VMInvokeTable[0] = << "reserved" >>
        /\ VMInvokeTable[1] = << "reserved" >>
        /\ VMInvokeTable[2] = << "reserved" >>
    BY DEF VMInvokeTable, NumberedPlain, Numbered
  <1>4. \A i \in 0 .. 27 : VMTable[i] = VMSections[1][i]
    BY TableAt DEF First
  <1>5. /\ \A i \in 1 .. 4 : VMTable[0 + i - 1] = << "reserved" >>
        /\ \A i \in 1 .. 3 : VMInvokeTable[0 + i - 1] = << "reserved" >>
    BY <1>2, <1>3, <1>4
  <1>6. /\ \A i \in 1 .. 4 : Reserved(4)[i] = Plain("reserved", "void*", << >>)
        /\ \A i \in 1 .. 3 : Reserved(3)[i] = Plain("reserved", "void*", << >>)
    BY DEF Reserved
  <1>7. /\ ~IsVariadic(Plain("reserved", "void*", << >>))
        /\ Plain("reserved", "void*", << >>).name = << "reserved" >>
    BY DEF IsVariadic, Plain, Function
  <1>8. /\ \A i \in 1 .. 4 : Direct(VMTable, 0 + i - 1, Reserved(4)[i])
        /\ \A i \in 1 .. 3 : Direct(VMInvokeTable, 0 + i - 1, Reserved(3)[i])
    BY <1>5, <1>6, <1>7, Zenon DEF Direct
  <1>9. 0 \in Nat /\ 3 \in Nat /\ 4 \in Nat
    OBVIOUS
  <1> QED
    BY <1>1, <1>8, <1>9, DirectSpans, Zenon

(* The sections that mix functions and families.                           *)
LEMMA ObjectSpan == Spans(VMTable, 27, 7, ObjectFunctions)
  <1> DEFINE alloc == Plain("AllocObject", "jobject", << "jclass" >>)
             forms == Forms(<< "NewObject" >>, "jobject", << "jclass" >>)
             rest == << Plain("GetObjectClass", "jclass", << "jobject" >>),
                        Plain("IsInstanceOf", "jboolean",
                              << "jobject", "jclass" >>),
                        Plain("GetMethodID", "jmethodID",
                              << "jclass", "char*", "char*" >>) >>
  <1>1. /\ \A i \in 0 .. 27 : VMTable[i] = VMSections[1][i]
        /\ \A i \in 28 .. 30 : VMTable[i] = VMSections[2][i]
        /\ \A i \in 31 .. 33 : VMTable[i] = VMSections[3][i]
    BY TableAt DEF First
  <1>2. /\ VMSections[1][27] = << "AllocObject" >>
        /\ VMSections[2][28] = << "NewObject", "..." >>
        /\ VMSections[2][29] = << "NewObject", "V" >>
        /\ VMSections[2][30] = << "NewObject", "A" >>
        /\ VMSections[3][31] = << "GetObjectClass" >>
        /\ VMSections[3][32] = << "IsInstanceOf" >>
        /\ VMSections[3][33] = << "GetMethodID" >>
    BY DEF VMSections, NumberedPlain, Numbered
  <1>3. /\ VMTable[27] = << "AllocObject" >>
        /\ VMTable[28] = << "NewObject", "..." >>
        /\ VMTable[28 + 1] = << "NewObject", "V" >>
        /\ VMTable[28 + 2] = << "NewObject", "A" >>
        /\ VMTable[31] = << "GetObjectClass" >>
        /\ VMTable[32] = << "IsInstanceOf" >>
        /\ VMTable[33] = << "GetMethodID" >>
    BY <1>1, <1>2
  <1>4. /\ << "NewObject", "..." >> = << "NewObject" >> \o << "..." >>
        /\ << "NewObject", "V" >> = << "NewObject" >> \o << "V" >>
        /\ << "NewObject", "A" >> = << "NewObject" >> \o << "A" >>
    OBVIOUS
  <1>5. IsSeq(<< "NewObject" >>) /\ IsSeq(<< "jclass" >>)
    BY DEF IsSeq
  <1>6. /\ 27 \in Nat /\ 28 \in Nat /\ 31 \in Nat /\ 3 \in Nat
        /\ 27 + 1 = 28 /\ 1 + 3 = 4 /\ 27 + 4 = 31 /\ 4 + 3 = 7
    OBVIOUS
  <1>7. Spans(VMTable, 28, 3, forms)
    BY <1>3, <1>4, <1>5, <1>6, FormsSection, Zenon
  <1>8. Spans(VMTable, 27, 1, << alloc >>)
    <2>1. alloc.name = << "AllocObject" >> /\ ~IsVariadic(alloc)
      BY DEF Plain, Function, IsVariadic, Last
    <2> QED
      BY <1>3, <1>6, <2>1, SingleSpans, Zenon DEF Direct
  <1>9. Spans(VMTable, 31, 3, rest)
    <2>1. IsSeq(rest) /\ Len(rest) = 3
      BY DEF IsSeq
    <2>2. /\ rest[1].name = << "GetObjectClass" >>
          /\ rest[2].name = << "IsInstanceOf" >>
          /\ rest[3].name = << "GetMethodID" >>
      BY DEF Plain, Function
    <2>3. /\ ~IsVariadic(rest[1]) /\ ~IsVariadic(rest[2])
          /\ ~IsVariadic(rest[3])
      BY DEF Plain, Function, IsVariadic, Last
    <2> HIDE DEF rest
    <2>4. \A i \in 1 .. 3 : Direct(VMTable, 31 + i - 1, rest[i])
      BY <1>3, <2>2, <2>3 DEF Direct
    <2> QED
      BY <1>6, <2>1, <2>4, DirectSpans, Zenon
  <1> HIDE DEF alloc, forms, rest
  <1>10. Spans(VMTable, 27, 4, << alloc >> \o forms)
    <2>1. Spans(VMTable, 27 + 1, 3, forms)
      BY <1>6, <1>7
    <2>2. Spans(VMTable, 27, 1 + 3, << alloc >> \o forms)
      BY <1>6, <1>8, <2>1, JoinSpans, Zenon
    <2> QED
      BY <1>6, <2>2
  <1>11. Spans(VMTable, 27, 7, (<< alloc >> \o forms) \o rest)
    <2>1. Spans(VMTable, 27 + 4, 3, rest)
      BY <1>6, <1>9
    <2>2. Spans(VMTable, 27, 4 + 3, (<< alloc >> \o forms) \o rest)
      BY <1>6, <1>10, <2>1, JoinSpans, Zenon
    <2> QED
      BY <1>6, <2>2
  <1>12. ObjectFunctions = (<< alloc >> \o forms) \o rest
    BY Zenon DEF ObjectFunctions, alloc, forms, rest
  <1> QED
    BY <1>11, <1>12, Zenon

LEMMA FieldSpan == Spans(VMTable, 94, 19, FieldFunctions)
  <1> DEFINE f == Plain("GetFieldID", "jfieldID",
                        << "jclass", "char*", "char*" >>)
             gets == Getters("Get", "jobject")
             sets == Setters("Set", "jobject")
  <1>1. \A i \in 94 .. 94 : VMTable[i] = VMSections[6][i]
    BY TableAt DEF First
  <1>2. VMSections[6][94] = << "GetFieldID" >>
    BY DEF VMSections, NumberedPlain, Numbered
  <1>3. VMTable[94] = << "GetFieldID" >>
    BY <1>1, <1>2
  <1>4. f.name = << "GetFieldID" >> /\ ~IsVariadic(f)
    BY DEF Plain, Function, IsVariadic, Last
  <1>5. 94 \in Nat
    OBVIOUS
  <1>5a. /\ 94 + 1 = 95 /\ 94 + 10 = 104
         /\ 1 + 9 = 10 /\ 10 + 9 = 19
    OBVIOUS
  <1>6. Spans(VMTable, 94, 1, << f >>)
    BY <1>3, <1>4, <1>5, SingleSpans, Zenon DEF Direct
  <1>7. Spans(VMTable, 95, 9, gets) /\ Spans(VMTable, 104, 9, sets)
    BY GettersAt, SettersAt, Zenon
  <1> HIDE DEF f, gets, sets
  <1>8. Spans(VMTable, 94, 10, << f >> \o gets)
    <2>1. Spans(VMTable, 94 + 1, 9, gets)
      BY <1>5a, <1>7
    <2>2. Spans(VMTable, 94, 1 + 9, << f >> \o gets)
      BY <1>5, <1>6, <2>1, JoinSpans, Zenon
    <2> QED
      BY <1>5a, <2>2
  <1>9. Spans(VMTable, 94, 19, (<< f >> \o gets) \o sets)
    <2>1. Spans(VMTable, 94 + 10, 9, sets)
      BY <1>5a, <1>7
    <2>2. Spans(VMTable, 94, 10 + 9, (<< f >> \o gets) \o sets)
      BY <1>5, <1>8, <2>1, JoinSpans, Zenon
    <2> QED
      BY <1>5a, <2>2
  <1>10. FieldFunctions = (<< f >> \o gets) \o sets
    BY Zenon DEF FieldFunctions, f, gets, sets
  <1> QED
    BY <1>9, <1>10, Zenon

LEMMA StaticFieldSpan == Spans(VMTable, 144, 19, StaticFieldFunctions)
  <1> DEFINE f == Plain("GetStaticFieldID", "jfieldID",
                        << "jclass", "char*", "char*" >>)
             gets == Getters("GetStatic", "jclass")
             sets == Setters("SetStatic", "jclass")
  <1>1. \A i \in 144 .. 144 : VMTable[i] = VMSections[11][i]
    BY TableAt DEF First
  <1>2. VMSections[11][144] = << "GetStaticFieldID" >>
    BY DEF VMSections, NumberedPlain, Numbered
  <1>3. VMTable[144] = << "GetStaticFieldID" >>
    BY <1>1, <1>2
  <1>4. f.name = << "GetStaticFieldID" >> /\ ~IsVariadic(f)
    BY DEF Plain, Function, IsVariadic, Last
  <1>5. 144 \in Nat
    OBVIOUS
  <1>5a. /\ 144 + 1 = 145 /\ 144 + 10 = 154
         /\ 1 + 9 = 10 /\ 10 + 9 = 19
    OBVIOUS
  <1>6. Spans(VMTable, 144, 1, << f >>)
    BY <1>3, <1>4, <1>5, SingleSpans, Zenon DEF Direct
  <1>7. Spans(VMTable, 145, 9, gets) /\ Spans(VMTable, 154, 9, sets)
    BY StaticGettersAt, StaticSettersAt, Zenon
  <1> HIDE DEF f, gets, sets
  <1>8. Spans(VMTable, 144, 10, << f >> \o gets)
    <2>1. Spans(VMTable, 144 + 1, 9, gets)
      BY <1>5a, <1>7
    <2>2. Spans(VMTable, 144, 1 + 9, << f >> \o gets)
      BY <1>5, <1>6, <2>1, JoinSpans, Zenon
    <2> QED
      BY <1>5a, <2>2
  <1>9. Spans(VMTable, 144, 19, (<< f >> \o gets) \o sets)
    <2>1. Spans(VMTable, 144 + 10, 9, sets)
      BY <1>5a, <1>7
    <2>2. Spans(VMTable, 144, 10 + 9, (<< f >> \o gets) \o sets)
      BY <1>5, <1>8, <2>1, JoinSpans, Zenon
    <2> QED
      BY <1>5a, <2>2
  <1>10. StaticFieldFunctions = (<< f >> \o gets) \o sets
    BY Zenon DEF StaticFieldFunctions, f, gets, sets
  <1> QED
    BY <1>9, <1>10, Zenon

(* All of struct JNINativeInterface_.                                      *)
LEMMA TableSpan ==
  /\ Spans(VMTable, 0, 233, JNINativeInterface)
  /\ Within(ClassFunctions, JNINativeInterface)
  /\ Within(ExceptionFunctions, JNINativeInterface)
  /\ Within(ReferenceFunctions, JNINativeInterface)
  /\ Within(ObjectFunctions, JNINativeInterface)
  /\ Within(CallFunctions, JNINativeInterface)
  /\ Within(CallNonvirtualFunctions, JNINativeInterface)
  /\ Within(FieldFunctions, JNINativeInterface)
  /\ Within(StaticMethodFunctions, JNINativeInterface)
  /\ Within(CallStaticFunctions, JNINativeInterface)
  /\ Within(StaticFieldFunctions, JNINativeInterface)
  /\ Within(StringFunctions, JNINativeInterface)
  /\ Within(ObjectArrayFunctions, JNINativeInterface)
  /\ Within(NewArrayFunctions, JNINativeInterface)
  /\ Within(GetElementsFunctions, JNINativeInterface)
  /\ Within(ReleaseElementsFunctions, JNINativeInterface)
  /\ Within(GetRegionFunctions, JNINativeInterface)
  /\ Within(SetRegionFunctions, JNINativeInterface)
  /\ Within(ThreadFunctions, JNINativeInterface)
  /\ Within(CriticalFunctions, JNINativeInterface)
  /\ Within(BufferFunctions, JNINativeInterface)
  <1> DEFINE t0 == Reserved(4)
             t1 == t0 \o ClassFunctions
             t2 == t1 \o ExceptionFunctions
             t3 == t2 \o ReferenceFunctions
             t4 == t3 \o ObjectFunctions
             t5 == t4 \o CallFunctions
             t6 == t5 \o CallNonvirtualFunctions
             t7 == t6 \o FieldFunctions
             t8 == t7 \o StaticMethodFunctions
             t9 == t8 \o CallStaticFunctions
             t10 == t9 \o StaticFieldFunctions
             t11 == t10 \o StringFunctions
             t12 == t11 \o ObjectArrayFunctions
             t13 == t12 \o NewArrayFunctions
             t14 == t13 \o GetElementsFunctions
             t15 == t14 \o ReleaseElementsFunctions
             t16 == t15 \o GetRegionFunctions
             t17 == t16 \o SetRegionFunctions
             t18 == t17 \o ThreadFunctions
             t19 == t18 \o CriticalFunctions
             t20 == t19 \o BufferFunctions
  <1>0. Spans(VMTable, 0, 4, t0) /\ 0 \in Nat
    BY ReservedSpans
  <1> HIDE DEF t0, t1, t2, t3, t4, t5, t6, t7, t8, t9, t10, t11, t12, t13,
     t14, t15, t16,
       t17, t18, t19, t20
  <1>1. /\ Spans(VMTable, 0, 13, t1)
        /\ Within(t0, t1) /\ Within(ClassFunctions, t1)
    <2>1. Spans(VMTable, 0 + 4, 9, ClassFunctions)
      BY ClassSpan
    <2>2. /\ Spans(VMTable, 0, 4 + 9, t1)
          /\ Within(t0, t1) /\ Within(ClassFunctions, t1)
      BY <1>0, <1>0, <2>1, JoinWithin, Zenon DEF t1
    <2> QED
      BY <2>2
  <1>2. /\ Spans(VMTable, 0, 19, t2)
        /\ Within(t1, t2) /\ Within(ExceptionFunctions, t2)
    <2>1. Spans(VMTable, 0 + 13, 6, ExceptionFunctions)
      BY ExceptionSpan
    <2>2. /\ Spans(VMTable, 0, 13 + 6, t2)
          /\ Within(t1, t2) /\ Within(ExceptionFunctions, t2)
      BY <1>0, <1>1, <2>1, JoinWithin, Zenon DEF t2
    <2> QED
      BY <2>2
  <1>3. /\ Spans(VMTable, 0, 27, t3)
        /\ Within(t2, t3) /\ Within(ReferenceFunctions, t3)
    <2>1. Spans(VMTable, 0 + 19, 8, ReferenceFunctions)
      BY ReferenceSpan
    <2>2. /\ Spans(VMTable, 0, 19 + 8, t3)
          /\ Within(t2, t3) /\ Within(ReferenceFunctions, t3)
      BY <1>0, <1>2, <2>1, JoinWithin, Zenon DEF t3
    <2> QED
      BY <2>2
  <1>4. /\ Spans(VMTable, 0, 34, t4)
        /\ Within(t3, t4) /\ Within(ObjectFunctions, t4)
    <2>1. Spans(VMTable, 0 + 27, 7, ObjectFunctions)
      BY ObjectSpan
    <2>2. /\ Spans(VMTable, 0, 27 + 7, t4)
          /\ Within(t3, t4) /\ Within(ObjectFunctions, t4)
      BY <1>0, <1>3, <2>1, JoinWithin, Zenon DEF t4
    <2> QED
      BY <2>2
  <1>5. /\ Spans(VMTable, 0, 64, t5)
        /\ Within(t4, t5) /\ Within(CallFunctions, t5)
    <2>1. Spans(VMTable, 0 + 34, 30, CallFunctions)
      BY CallsAt
    <2>2. /\ Spans(VMTable, 0, 34 + 30, t5)
          /\ Within(t4, t5) /\ Within(CallFunctions, t5)
      BY <1>0, <1>4, <2>1, JoinWithin, Zenon DEF t5
    <2> QED
      BY <2>2
  <1>6. /\ Spans(VMTable, 0, 94, t6)
        /\ Within(t5, t6) /\ Within(CallNonvirtualFunctions, t6)
    <2>1. Spans(VMTable, 0 + 64, 30, CallNonvirtualFunctions)
      BY CallsNonvirtualAt
    <2>2. /\ Spans(VMTable, 0, 64 + 30, t6)
          /\ Within(t5, t6) /\ Within(CallNonvirtualFunctions, t6)
      BY <1>0, <1>5, <2>1, JoinWithin, Zenon DEF t6
    <2> QED
      BY <2>2
  <1>7. /\ Spans(VMTable, 0, 113, t7)
        /\ Within(t6, t7) /\ Within(FieldFunctions, t7)
    <2>1. Spans(VMTable, 0 + 94, 19, FieldFunctions)
      BY FieldSpan
    <2>2. /\ Spans(VMTable, 0, 94 + 19, t7)
          /\ Within(t6, t7) /\ Within(FieldFunctions, t7)
      BY <1>0, <1>6, <2>1, JoinWithin, Zenon DEF t7
    <2> QED
      BY <2>2
  <1>8. /\ Spans(VMTable, 0, 114, t8)
        /\ Within(t7, t8) /\ Within(StaticMethodFunctions, t8)
    <2>1. Spans(VMTable, 0 + 113, 1, StaticMethodFunctions)
      BY StaticMethodSpan
    <2>2. /\ Spans(VMTable, 0, 113 + 1, t8)
          /\ Within(t7, t8) /\ Within(StaticMethodFunctions, t8)
      BY <1>0, <1>7, <2>1, JoinWithin, Zenon DEF t8
    <2> QED
      BY <2>2
  <1>9. /\ Spans(VMTable, 0, 144, t9)
        /\ Within(t8, t9) /\ Within(CallStaticFunctions, t9)
    <2>1. Spans(VMTable, 0 + 114, 30, CallStaticFunctions)
      BY CallsStaticAt
    <2>2. /\ Spans(VMTable, 0, 114 + 30, t9)
          /\ Within(t8, t9) /\ Within(CallStaticFunctions, t9)
      BY <1>0, <1>8, <2>1, JoinWithin, Zenon DEF t9
    <2> QED
      BY <2>2
  <1>10. /\ Spans(VMTable, 0, 163, t10)
        /\ Within(t9, t10) /\ Within(StaticFieldFunctions, t10)
    <2>1. Spans(VMTable, 0 + 144, 19, StaticFieldFunctions)
      BY StaticFieldSpan
    <2>2. /\ Spans(VMTable, 0, 144 + 19, t10)
          /\ Within(t9, t10) /\ Within(StaticFieldFunctions, t10)
      BY <1>0, <1>9, <2>1, JoinWithin, Zenon DEF t10
    <2> QED
      BY <2>2
  <1>11. /\ Spans(VMTable, 0, 171, t11)
        /\ Within(t10, t11) /\ Within(StringFunctions, t11)
    <2>1. Spans(VMTable, 0 + 163, 8, StringFunctions)
      BY StringSpan
    <2>2. /\ Spans(VMTable, 0, 163 + 8, t11)
          /\ Within(t10, t11) /\ Within(StringFunctions, t11)
      BY <1>0, <1>10, <2>1, JoinWithin, Zenon DEF t11
    <2> QED
      BY <2>2
  <1>12. /\ Spans(VMTable, 0, 175, t12)
        /\ Within(t11, t12) /\ Within(ObjectArrayFunctions, t12)
    <2>1. Spans(VMTable, 0 + 171, 4, ObjectArrayFunctions)
      BY ObjectArraySpan
    <2>2. /\ Spans(VMTable, 0, 171 + 4, t12)
          /\ Within(t11, t12) /\ Within(ObjectArrayFunctions, t12)
      BY <1>0, <1>11, <2>1, JoinWithin, Zenon DEF t12
    <2> QED
      BY <2>2
  <1>13. /\ Spans(VMTable, 0, 183, t13)
        /\ Within(t12, t13) /\ Within(NewArrayFunctions, t13)
    <2>1. Spans(VMTable, 0 + 175, 8, NewArrayFunctions)
      BY NewArraysAt
    <2>2. /\ Spans(VMTable, 0, 175 + 8, t13)
          /\ Within(t12, t13) /\ Within(NewArrayFunctions, t13)
      BY <1>0, <1>12, <2>1, JoinWithin, Zenon DEF t13
    <2> QED
      BY <2>2
  <1>14. /\ Spans(VMTable, 0, 191, t14)
        /\ Within(t13, t14) /\ Within(GetElementsFunctions, t14)
    <2>1. Spans(VMTable, 0 + 183, 8, GetElementsFunctions)
      BY GetElementsAt
    <2>2. /\ Spans(VMTable, 0, 183 + 8, t14)
          /\ Within(t13, t14) /\ Within(GetElementsFunctions, t14)
      BY <1>0, <1>13, <2>1, JoinWithin, Zenon DEF t14
    <2> QED
      BY <2>2
  <1>15. /\ Spans(VMTable, 0, 199, t15)
        /\ Within(t14, t15) /\ Within(ReleaseElementsFunctions, t15)
    <2>1. Spans(VMTable, 0 + 191, 8, ReleaseElementsFunctions)
      BY ReleaseElementsAt
    <2>2. /\ Spans(VMTable, 0, 191 + 8, t15)
          /\ Within(t14, t15) /\ Within(ReleaseElementsFunctions, t15)
      BY <1>0, <1>14, <2>1, JoinWithin, Zenon DEF t15
    <2> QED
      BY <2>2
  <1>16. /\ Spans(VMTable, 0, 207, t16)
        /\ Within(t15, t16) /\ Within(GetRegionFunctions, t16)
    <2>1. Spans(VMTable, 0 + 199, 8, GetRegionFunctions)
      BY GetRegionsAt
    <2>2. /\ Spans(VMTable, 0, 199 + 8, t16)
          /\ Within(t15, t16) /\ Within(GetRegionFunctions, t16)
      BY <1>0, <1>15, <2>1, JoinWithin, Zenon DEF t16
    <2> QED
      BY <2>2
  <1>17. /\ Spans(VMTable, 0, 215, t17)
        /\ Within(t16, t17) /\ Within(SetRegionFunctions, t17)
    <2>1. Spans(VMTable, 0 + 207, 8, SetRegionFunctions)
      BY SetRegionsAt
    <2>2. /\ Spans(VMTable, 0, 207 + 8, t17)
          /\ Within(t16, t17) /\ Within(SetRegionFunctions, t17)
      BY <1>0, <1>16, <2>1, JoinWithin, Zenon DEF t17
    <2> QED
      BY <2>2
  <1>18. /\ Spans(VMTable, 0, 220, t18)
        /\ Within(t17, t18) /\ Within(ThreadFunctions, t18)
    <2>1. Spans(VMTable, 0 + 215, 5, ThreadFunctions)
      BY ThreadSpan
    <2>2. /\ Spans(VMTable, 0, 215 + 5, t18)
          /\ Within(t17, t18) /\ Within(ThreadFunctions, t18)
      BY <1>0, <1>17, <2>1, JoinWithin, Zenon DEF t18
    <2> QED
      BY <2>2
  <1>19. /\ Spans(VMTable, 0, 226, t19)
        /\ Within(t18, t19) /\ Within(CriticalFunctions, t19)
    <2>1. Spans(VMTable, 0 + 220, 6, CriticalFunctions)
      BY CriticalSpan
    <2>2. /\ Spans(VMTable, 0, 220 + 6, t19)
          /\ Within(t18, t19) /\ Within(CriticalFunctions, t19)
      BY <1>0, <1>18, <2>1, JoinWithin, Zenon DEF t19
    <2> QED
      BY <2>2
  <1>20. /\ Spans(VMTable, 0, 233, t20)
        /\ Within(t19, t20) /\ Within(BufferFunctions, t20)
    <2>1. Spans(VMTable, 0 + 226, 7, BufferFunctions)
      BY BufferSpan
    <2>2. /\ Spans(VMTable, 0, 226 + 7, t20)
          /\ Within(t19, t20) /\ Within(BufferFunctions, t20)
      BY <1>0, <1>19, <2>1, JoinWithin, Zenon DEF t20
    <2> QED
      BY <2>2
  <1>21. JNINativeInterface = t20
    BY Zenon DEF JNINativeInterface, t0, t1, t2, t3, t4, t5, t6, t7, t8, t9,
       t10, t11, t12, t13, t14, t15, t16,
                 t17, t18, t19, t20
  <1>22. Within(t19, t20)
    BY <1>20
  <1>23. Within(t18, t20)
    BY <1>19, <1>22, WithinWithin, Zenon
  <1>24. Within(t17, t20)
    BY <1>18, <1>23, WithinWithin, Zenon
  <1>25. Within(t16, t20)
    BY <1>17, <1>24, WithinWithin, Zenon
  <1>26. Within(t15, t20)
    BY <1>16, <1>25, WithinWithin, Zenon
  <1>27. Within(t14, t20)
    BY <1>15, <1>26, WithinWithin, Zenon
  <1>28. Within(t13, t20)
    BY <1>14, <1>27, WithinWithin, Zenon
  <1>29. Within(t12, t20)
    BY <1>13, <1>28, WithinWithin, Zenon
  <1>30. Within(t11, t20)
    BY <1>12, <1>29, WithinWithin, Zenon
  <1>31. Within(t10, t20)
    BY <1>11, <1>30, WithinWithin, Zenon
  <1>32. Within(t9, t20)
    BY <1>10, <1>31, WithinWithin, Zenon
  <1>33. Within(t8, t20)
    BY <1>9, <1>32, WithinWithin, Zenon
  <1>34. Within(t7, t20)
    BY <1>8, <1>33, WithinWithin, Zenon
  <1>35. Within(t6, t20)
    BY <1>7, <1>34, WithinWithin, Zenon
  <1>36. Within(t5, t20)
    BY <1>6, <1>35, WithinWithin, Zenon
  <1>37. Within(t4, t20)
    BY <1>5, <1>36, WithinWithin, Zenon
  <1>38. Within(t3, t20)
    BY <1>4, <1>37, WithinWithin, Zenon
  <1>39. Within(t2, t20)
    BY <1>3, <1>38, WithinWithin, Zenon
  <1>40. Within(t1, t20)
    BY <1>2, <1>39, WithinWithin, Zenon
  <1> QED
    BY <1>1, <1>2, <1>3, <1>4, <1>5, <1>6, <1>7, <1>8, <1>9, <1>10, <1>11,
       <1>12, <1>13, <1>14, <1>15, <1>16, <1>17, <1>18, <1>19, <1>20, <1>21,
       <1>22, <1>23, <1>24, <1>25, <1>26, <1>27, <1>28, <1>29, <1>30, <1>31,
       <1>32, <1>33, <1>34, <1>35, <1>36, <1>37, <1>38, <1>39, <1>40,
       WithinWithin, Zenon

(* All of struct JNIInvokeInterface_.                                      *)
LEMMA InvokeTableSpan ==
  /\ Spans(VMInvokeTable, 0, 8, JNIInvokeInterface)
  /\ Within(InvokeFunctions, JNIInvokeInterface)
  <1>1. Spans(VMInvokeTable, 0 + 3, 5, InvokeFunctions) /\ 0 \in Nat
    BY InvokeSpan
  <1>2. /\ Spans(VMInvokeTable, 0, 3 + 5, Reserved(3) \o InvokeFunctions)
        /\ Within(InvokeFunctions, Reserved(3) \o InvokeFunctions)
    BY <1>1, ReservedSpans, JoinWithin, Zenon
  <1>3. 3 + 5 = 8
    OBVIOUS
  <1> QED
    BY <1>2, <1>3, Zenon DEF JNIInvokeInterface

(* The number that jni.h gives an entry is that of the VM's function of    *)
(* the same name.                                                          *)
LEMMA EntryOf ==
  ASSUME NEW table, NEW k, NEW s, Spans(table, 0, k, s), NEW f \in ToSet(s)
  PROVE  table[NumberIn(s)[f.name]] = f.name
  <1>1. /\ Len(s) \in Nat /\ DOMAIN s = 1 .. Len(s)
        /\ \A j \in 1 .. Len(s) : table[0 + j - 1] = s[j].name
    BY DEF Spans, Section, IsSeq
  <1>2. PICK i \in 1 .. Len(s) : s[i] = f
    BY <1>1 DEF ToSet
  <1> DEFINE c == CHOOSE j \in DOMAIN s : s[j].name = f.name
  <1>3. c \in 1 .. Len(s) /\ s[c].name = f.name
    BY <1>1, <1>2, Zenon
  <1>4. NumberIn(s)[f.name] = c - 1
    <2>1. f.name \in {s[j].name : j \in DOMAIN s}
      BY <1>1, <1>2
    <2> QED
      BY <2>1, Zenon DEF NumberIn
  <1> HIDE DEF c
  <1>5. 0 + c - 1 = c - 1
    BY <1>1, <1>3
  <1> QED
    BY <1>1, <1>3, <1>4, <1>5, Zenon

(* A member function calls an entry of the table that has its function.    *)
LEMMA CallsEntry ==
  ASSUME NEW table, NEW n, NEW k, NEW s, Spans(table, n, k, s),
         NEW f \in ToSet(s)
  PROVE  \E g \in ToSet(s) : g.name = Member(f).calls
  <1>1. DOMAIN s = 1 .. Len(s)
    BY DEF Spans, Section, IsSeq
  <1>2. PICK i \in 1 .. Len(s) : f = s[i]
    BY <1>1 DEF ToSet
  <1>3. PICK j \in 1 .. Len(s) : s[j].name = Member(s[i]).calls
    BY <1>2 DEF Spans, Section
  <1> QED
    BY <1>1, <1>2, <1>3 DEF ToSet

(* A call through the JavaVM reaches the function it names.                *)
LEMMA InvokeReached ==
  ASSUME NEW name \in InvokeNames
  PROVE  Reached(name) = name
  <1>1. PICK f \in ToSet(InvokeFunctions) : f.name = name
    BY DEF InvokeNames
  <1>2. f \in ToSet(JNIInvokeInterface)
    BY InvokeTableSpan DEF Within
  <1>3. VMInvokeTable[NumberIn(JNIInvokeInterface)[f.name]] = f.name
    BY <1>2, InvokeTableSpan, EntryOf, Zenon
  <1> QED
    BY <1>1, <1>3, Zenon DEF Reached, InvokeNumber

(* A call through the env reaches the function it names.                   *)
LEMMA EnvReached ==
  ASSUME NEW f \in ToSet(JNINativeInterface)
  PROVE  Reached(Member(f).calls) = Member(f).calls
  <1> DEFINE name == Member(f).calls
  <1>1. PICK g \in ToSet(JNINativeInterface) : g.name = name
    BY TableSpan, CallsEntry, Zenon
  <1>2. VMTable[NumberIn(JNINativeInterface)[g.name]] = g.name
    BY TableSpan, EntryOf, Zenon
  <1> HIDE DEF name
  <1>3. CASE name \in InvokeNames
    BY <1>3, InvokeReached DEF name
  <1>4. CASE name \notin InvokeNames
    <2>1. Reached(name) = name
      BY <1>1, <1>2, <1>4, Zenon DEF Reached, EnvNumber
    <2> QED
      BY <2>1 DEF name
  <1> QED
    BY <1>3, <1>4

(* Every member function reaches the VM's function that it names.          *)
LEMMA MembersReach ==
  ASSUME NEW m \in JNIEnvMembers \cup InvokeMembers
  PROVE  \E f : m = Member(f) /\ Reached(m.calls) = m.calls
  <1>1. CASE m \in InvokeMembers
    <2>1. PICK f \in ToSet(InvokeFunctions) : m = Member(f)
      BY <1>1 DEF InvokeMembers, Members
    <2>2. PICK g \in ToSet(InvokeFunctions) : g.name = m.calls
      BY <2>1, InvokeSpan, CallsEntry, Zenon
    <2>3. m.calls \in InvokeNames
      BY <2>2 DEF InvokeNames
    <2> QED
      BY <2>1, <2>3, InvokeReached
  <1>2. CASE m \in JNIEnvMembers
    <2>1. PICK f \in ToSet(JNINativeInterface) : m = Member(f)
      BY <1>2, TableSpan
         DEF Within, Members, JNIEnvMembers, ClassMembers, ExceptionMembers,
             ReferenceMembers, ObjectMembers, CallMembers,
             CallNonvirtualMembers, FieldMembers, StaticMethodMembers,
             CallStaticMembers, StaticFieldMembers, StringMembers,
             ObjectArrayMembers, NewArrayMembers, ElementsMembers,
             RegionMembers, ThreadMembers, CriticalMembers, BufferMembers
    <2> QED
      BY <2>1, EnvReached
  <1> QED
    BY <1>1, <1>2

CallIsReached(m) ==
  /\ Reached(m.calls) = IF IsVariadic(m.f) THEN InFormV(m.f.name) ELSE m.f.name
  /\ \A i \in DOMAIN m.f.params : m.passes[i] = i

(* What CallsArrive says, of every member function.                        *)
LEMMA MembersArrive ==
  ASSUME NEW m \in JNIEnvMembers \cup InvokeMembers
  PROVE  CallIsReached(m)
  <1>1. PICK f : m = Member(f) /\ Reached(m.calls) = m.calls
    BY MembersReach, Zenon
  <1>2. /\ m.f = f
        /\ m.calls = IF IsVariadic(f) THEN InFormV(f.name) ELSE f.name
        /\ m.passes = [i \in DOMAIN f.params |-> i]
    BY <1>1 DEF Member
  <1> QED
    BY <1>1, <1>2 DEF CallIsReached

-----------------------------------------------------------------------------
(* What the nine native methods take.                                      *)

(* Sequences mapped by a function, as far as the methods need it.          *)
LEMMA Images ==
  ASSUME NEW f, NEW a, NEW b, NEW c, NEW d
  PROVE  /\ [i \in DOMAIN << >> |-> f[<< >>[i]]] = << >>
         /\ [i \in DOMAIN << a >> |-> f[<< a >>[i]]] = << f[a] >>
         /\ [i \in DOMAIN << a, b, c >> |-> f[<< a, b, c >>[i]]]
              = << f[a], f[b], f[c] >>
         /\ [i \in DOMAIN << a, b, c, d >> |-> f[<< a, b, c, d >>[i]]]
              = << f[a], f[b], f[c], f[d] >>
  OBVIOUS

LEMMA CTypes ==
  /\ CType["V"] = "void" /\ CType["I"] = "jint" /\ CType["J"] = "jlong"
  /\ CType["Z"] = "jboolean" /\ CType["String"] = "jstring"
  /\ CType["ByteArray"] = "jbyteArray"
  BY DEF CType

(* A method whose definition has the parameters of the Java method.        *)
LEMMA PassedAs ==
  ASSUME NEW m, NEW r, NEW p, NEW q,
         JavaMethods[m] = Method(r, p), Definitions[m] = Method(CType[r], q),
         [i \in DOMAIN p |-> CType[p[i]]] = q
  PROVE  Passed(m) = Definitions[m]
  BY DEF Passed, Method

(* What Java passes is what the definition in test-rt.cc takes, and the    *)
(* VM finds the definition, for each of the nine methods.                  *)
LEMMA Linkage ==
  ASSUME NEW m \in Natives
  PROVE  Passed(m) = Definitions[m] /\ IsExported(m)
  <1>1. IsExported(m)
    BY DEF IsExported, Natives, JavaMethods, Declarations, Definitions, Method
  <1>2. CASE m = "initialize"
    <2>1. JavaMethods[m] = Method("V", << >>)
      BY <1>2 DEF JavaMethods
    <2>2. Definitions[m] = Method(CType["V"],
            << >>)
      BY <1>2, CTypes DEF Definitions
    <2>3. [i \in DOMAIN << >> |-> CType[<< >>[i]]] = << >>
      BY Images
    <2> QED
      BY <1>1, <2>1, <2>2, <2>3, PassedAs
  <1>3. CASE m = "finalize"
    <2>1. JavaMethods[m] = Method("V", << >>)
      BY <1>3 DEF JavaMethods
    <2>2. Definitions[m] = Method(CType["V"],
            << >>)
      BY <1>3, CTypes DEF Definitions
    <2>3. [i \in DOMAIN << >> |-> CType[<< >>[i]]] = << >>
      BY Images
    <2> QED
      BY <1>1, <2>1, <2>2, <2>3, PassedAs
  <1>4. CASE m = "getIntFuncAddr"
    <2>1. JavaMethods[m] = Method("J", << "I" >>)
      BY <1>4 DEF JavaMethods
    <2>2. Definitions[m] = Method(CType["J"],
            << "jint" >>)
      BY <1>4, CTypes DEF Definitions
    <2> QED
      BY <1>1, <2>1, <2>2, Images, CTypes, PassedAs
  <1>5. CASE m = "callIntFuncFromAddr"
    <2>1. JavaMethods[m] = Method("I", << "J", "I", "I" >>)
      BY <1>5 DEF JavaMethods
    <2>2. Definitions[m] = Method(CType["I"],
            << "jlong", "jint", "jint" >>)
      BY <1>5, CTypes DEF Definitions
    <2> QED
      BY <1>1, <2>1, <2>2, Images, CTypes, PassedAs
  <1>6. CASE m = "compileToFunc"
    <2>1. JavaMethods[m] = Method("J", << "ByteArray", "String", "Z" >>)
      BY <1>6 DEF JavaMethods
    <2>2. Definitions[m] = Method(CType["J"],
            << "jbyteArray", "jstring", "jboolean" >>)
      BY <1>6, CTypes DEF Definitions
    <2> QED
      BY <1>1, <2>1, <2>2, Images, CTypes, PassedAs
  <1>7. CASE m = "getFuncAddrFromCompileState"
    <2>1. JavaMethods[m] = Method("J", << "J" >>)
      BY <1>7 DEF JavaMethods
    <2>2. Definitions[m] = Method(CType["J"],
            << "jlong" >>)
      BY <1>7, CTypes DEF Definitions
    <2> QED
      BY <1>1, <2>1, <2>2, Images, CTypes, PassedAs
  <1>8. CASE m = "releaseCompileState"
    <2>1. JavaMethods[m] = Method("V", << "J" >>)
      BY <1>8 DEF JavaMethods
    <2>2. Definitions[m] = Method(CType["V"],
            << "jlong" >>)
      BY <1>8, CTypes DEF Definitions
    <2> QED
      BY <1>1, <2>1, <2>2, Images, CTypes, PassedAs
  <1>9. CASE m = "toLLVMAssemblyCode"
    <2>1. JavaMethods[m] = Method("String", << "ByteArray", "I", "I" >>)
      BY <1>9 DEF JavaMethods
    <2>2. Definitions[m] = Method(CType["String"],
            << "jbyteArray", "jint", "jint" >>)
      BY <1>9, CTypes DEF Definitions
    <2> QED
      BY <1>1, <2>1, <2>2, Images, CTypes, PassedAs
  <1>10. CASE m = "toMachineAssemblyCode"
    <2>1. JavaMethods[m]
            = Method("String", << "String", "ByteArray", "I", "I" >>)
      BY <1>10 DEF JavaMethods
    <2>2. Definitions[m] = Method(CType["String"],
            << "jstring", "jbyteArray", "jint", "jint" >>)
      BY <1>10, CTypes DEF Definitions
    <2> QED
      BY <1>1, <2>1, <2>2, Images, CTypes, PassedAs
  <1> QED
    BY <1>2, <1>3, <1>4, <1>5, <1>6, <1>7, <1>8, <1>9, <1>10 DEF Natives,
       JavaMethods

-----------------------------------------------------------------------------

(* The last element, and what is left without it.                          *)
LEMMA FrontFacts ==
  ASSUME NEW S, NEW s \in Seq(S), s # << >>
  PROVE  /\ Front(s) \in Seq(S)
         /\ Len(Front(s)) = Len(s) - 1
         /\ Len(s) \in Nat \ {0}
         /\ \A i \in 1 .. Len(s) - 1 : Front(s)[i] = s[i]
         /\ Last(s) = s[Len(s)] /\ Last(s) \in S
  <1>1. Len(s) \in Nat \ {0}
    OBVIOUS
  <1>2. \A i \in 1 .. Len(s) - 1 : s[i] \in S
    OBVIOUS
  <1>3. Front(s) = [i \in 1 .. Len(s) - 1 |-> s[i]]
    BY <1>1 DEF Front
  <1>4. Last(s) = s[Len(s)] /\ Last(s) \in S
    BY <1>1 DEF Last
  <1> QED
    BY <1>1, <1>2, <1>3, <1>4

LEMMA Alternation ==
  ASSUME NEW d \in Nat
  PROVE  /\ Kind(d + 1) = "native" <=> Kind(d) = "member"
         /\ Kind(d + 1) = "member" <=> Kind(d) = "native"
         /\ Kind(d) = "native" => Waits(d) = "body"
         /\ Kind(d) = "member" => Waits(d) = "in VM"
         /\ Kind(0) = "member"
  BY DEF Kind, Waits

(* The frames made by the actions are frames.                              *)
LEMMA FrameTypes ==
  /\ \A m \in Natives : NativeFrame(m, Passed(m), "entered") \in Frames
  /\ Body \in Frames
  /\ \A m \in JNIEnvMembers \cup InvokeMembers : MemberFrame(m) \in Frames
  BY DEF NativeFrame, Body, MemberFrame, Frames, AllMembers

(* A frame may be pushed on one that waits for it.                         *)
LEMMA Push ==
  ASSUME NEW s, Alternating(s), NEW f \in Frames,
         f.of = Kind(Len(s) + 1),
         s # << >> => s[Len(s)].step = Waits(Len(s)),
         ~Open(f)
  PROVE  /\ Alternating(Append(s, f))
         /\ Len(Append(s, f)) = Len(s) + 1
         /\ OpenIn(Append(s, f)) = OpenIn(s)
  <1> DEFINE t == Append(s, f)
  <1>1. s \in Seq(Frames) /\ Len(s) \in Nat
    BY DEF Alternating
  <1>2. /\ t \in Seq(Frames)
        /\ Len(t) = Len(s) + 1
        /\ \A d \in 1 .. Len(s) : t[d] = s[d]
        /\ t[Len(s) + 1] = f
    BY <1>1
  <1> HIDE DEF t
  <1>3. \A d \in 1 .. Len(t) : t[d].of = Kind(d)
    BY <1>1, <1>2 DEF Alternating
  <1>4. \A d \in 1 .. Len(t) - 1 : t[d].step = Waits(d)
    <2> SUFFICES ASSUME NEW d \in 1 .. Len(t) - 1
                 PROVE  t[d].step = Waits(d)
      OBVIOUS
    <2>1. CASE d = Len(s)
      BY <1>1, <1>2, <2>1
    <2>2. CASE d # Len(s)
      <3>1. d \in 1 .. Len(s) - 1
        BY <1>1, <1>2, <2>2
      <3> QED
        BY <1>2, <3>1 DEF Alternating
    <2> QED
      BY <2>1, <2>2
  <1>5. OpenIn(t) = OpenIn(s)
    BY <1>1, <1>2 DEF OpenIn
  <1> QED
    BY <1>2, <1>3, <1>4, <1>5 DEF Alternating, t

(* The youngest frame may be popped.                                       *)
LEMMA Pop ==
  ASSUME NEW s, Alternating(s), s # << >>
  PROVE  /\ Alternating(Front(s))
         /\ Len(Front(s)) = Len(s) - 1
         /\ Len(s) \in Nat \ {0}
         /\ OpenIn(Front(s)) = OpenIn(s) \ {Len(s)}
         /\ Front(s) # << >> =>
              Front(s)[Len(Front(s))].step = Waits(Len(Front(s)))
  <1> DEFINE t == Front(s)
  <1>1. s \in Seq(Frames)
    BY DEF Alternating
  <1>2. /\ t \in Seq(Frames)
        /\ Len(t) = Len(s) - 1
        /\ Len(s) \in Nat \ {0}
        /\ \A d \in 1 .. Len(s) - 1 : t[d] = s[d]
    BY <1>1, FrontFacts
  <1> HIDE DEF t
  <1>3. \A d \in 1 .. Len(t) : t[d].of = Kind(d) /\ t[d].step = Waits(d)
    BY <1>2 DEF Alternating
  <1>4. \A d \in 1 .. Len(t) - 1 : d \in 1 .. Len(t)
    BY <1>2
  <1>5. t # << >> => Len(t) \in 1 .. Len(t)
    BY <1>2
  <1>6. OpenIn(t) = OpenIn(s) \ {Len(s)}
    BY <1>2 DEF OpenIn
  <1> QED
    BY <1>2, <1>3, <1>4, <1>5, <1>6 DEF Alternating, t

(* What a guard says of the youngest frame.                                *)
LEMMA Youngest ==
  ASSUME Inv, NEW of, NEW step, AtTop(of, step)
  PROVE  /\ stack # << >>
         /\ Len(stack) \in Nat \ {0}
         /\ Len(stack) \in 1 .. Len(stack)
         /\ stack[Len(stack)] \in Frames
         /\ stack[Len(stack)].of = of /\ Kind(Len(stack)) = of
         /\ stack[Len(stack)].step = step
  <1>1. stack \in Seq(Frames) /\ stack # << >>
    BY DEF Inv, Alternating, AtTop
  <1>2. Len(stack) \in Nat \ {0}
    BY <1>1
  <1>3. Len(stack) \in 1 .. Len(stack)
    BY <1>2
  <1>4. stack[Len(stack)] \in Frames
    BY <1>1, <1>3
  <1> QED
    BY <1>1, <1>2, <1>3, <1>4 DEF Inv, Alternating, AtTop, Top

LEMMA NativesAreNotOpen ==
  ASSUME NEW d, stack[d].of = "native"
  PROVE  d \notin OpenIn(stack)
  BY DEF OpenIn, Open

(* Nothing below a frame of Java, or one that waits for Java, is left out. *)
LEMMA JavaWaits ==
  ASSUME Inv, JavaRuns
  PROVE  /\ Len(stack) \in Nat
         /\ Kind(Len(stack) + 1) = "native"
         /\ stack # << >> => stack[Len(stack)].step = Waits(Len(stack))
  <1>1. Len(stack) \in Nat
    BY DEF Inv, Alternating
  <1>2. CASE stack = << >>
    <2>1. Len(stack) = 0
      BY <1>2
    <2> QED
      BY <1>2, <2>1, Alternation, Zenon
  <1>3. CASE AtTop("member", "in VM")
    BY <1>1, <1>3, Youngest, Alternation
  <1> QED
    BY <1>2, <1>3 DEF JavaRuns

-----------------------------------------------------------------------------

LEMMA InitInv == Init => Inv
  <1> SUFFICES ASSUME Init PROVE Inv
    OBVIOUS
  <1>1. stack = << >> /\ Len(stack) = 0 /\ stack \in Seq(Frames)
    BY DEF Init
  <1>2. OpenIn(stack) = {}
    BY <1>1 DEF OpenIn
  <1>3. Alternating(stack)
    BY <1>1 DEF Alternating
  <1>4. Len(stack) <= MaxDepth
    BY <1>1, DepthAssumption
  <1> QED
    BY <1>2, <1>3, <1>4 DEF Init, Inv

LEMMA CallNativeInv ==
  ASSUME Inv, NEW m \in Natives, CallNative(m)
  PROVE  Inv'
  <1>1. CASE ~(loaded /\ IsExported(m))
    BY <1>1, Linkage DEF CallNative, Inv
  <1>2. CASE loaded /\ IsExported(m)
    <2> DEFINE new == NativeFrame(m, Passed(m), "entered")
    <2>1. stack' = Append(stack, new) /\ lists' = lists
      BY <1>2 DEF CallNative
    <2>2. new \in Frames /\ new.of = "native" /\ ~Open(new)
      BY FrameTypes DEF NativeFrame, Open
    <2> HIDE DEF new
    <2>3. JavaRuns /\ Alternating(stack)
      BY DEF CallNative, Inv
    <2>4. /\ Alternating(stack')
          /\ Len(stack') = Len(stack) + 1
          /\ OpenIn(stack') = OpenIn(stack)
      BY <2>1, <2>2, <2>3, JavaWaits, Push
    <2>5. Len(stack) \in Nat /\ Len(stack) < MaxDepth
      BY <2>3, JavaWaits DEF CallNative
    <2> QED
      BY <1>2, <2>1, <2>4, <2>5, DepthAssumption DEF CallNative, Inv
  <1> QED
    BY <1>1, <1>2

LEMMA EnterInv ==
  ASSUME Inv, Enter
  PROVE  Inv'
  <1>1. /\ stack # << >> /\ Alternating(stack)
        /\ Len(stack) \in Nat \ {0}
        /\ Kind(Len(stack)) = "native"
        /\ Len(stack) \notin OpenIn(stack)
    <2>1. AtTop("native", "entered") /\ Alternating(stack)
      BY DEF Enter, Inv
    <2> QED
      BY <2>1, Youngest, NativesAreNotOpen
  <1> DEFINE rest == Front(stack)
  <1>2. /\ Alternating(rest)
        /\ Len(rest) = Len(stack) - 1
        /\ OpenIn(rest) = OpenIn(stack) \ {Len(stack)}
        /\ rest # << >> => rest[Len(rest)].step = Waits(Len(rest))
    BY <1>1, Pop
  <1>3. stack' = Append(rest, Body)
    BY DEF Enter
  <1> HIDE DEF rest
  <1>4. Body \in Frames /\ Body.of = "native" /\ ~Open(Body)
    BY FrameTypes DEF Body, NativeFrame, Open
  <1>5. Len(rest) + 1 = Len(stack)
    BY <1>1, <1>2
  <1>6. /\ Alternating(stack')
        /\ Len(stack') = Len(stack)
        /\ OpenIn(stack') = OpenIn(rest)
    BY <1>1, <1>2, <1>3, <1>4, <1>5, Push
  <1> QED
    BY <1>1, <1>2, <1>6 DEF Enter, Inv

LEMMA CallMemberInv ==
  ASSUME Inv, NEW m \in JNIEnvMembers \cup InvokeMembers, CallMember(m)
  PROVE  Inv'
  <1> DEFINE new == MemberFrame(m)
  <1>1. stack' = Append(stack, new)
    BY DEF CallMember
  <1>2. new \in Frames /\ new.of = "member" /\ ~Open(new)
    BY FrameTypes DEF MemberFrame, Open
  <1> HIDE DEF new
  <1>3. /\ Alternating(stack)
        /\ Len(stack) \in Nat \ {0} /\ Len(stack) < MaxDepth
        /\ Kind(Len(stack)) = "native"
        /\ stack[Len(stack)].step = "body"
    BY Youngest DEF CallMember, Inv
  <1>4. Kind(Len(stack) + 1) = "member" /\ Waits(Len(stack)) = "body"
    BY <1>3, Alternation
  <1>5. /\ Alternating(stack')
        /\ Len(stack') = Len(stack) + 1
        /\ OpenIn(stack') = OpenIn(stack)
    BY <1>1, <1>2, <1>3, <1>4, Push
  <1> QED
    BY <1>3, <1>5, DepthAssumption DEF CallMember, Inv

LEMMA CallVMInv ==
  ASSUME Inv, CallVM
  PROVE  Inv'
  <1> DEFINE n == Len(stack)
             new == [stack[n] EXCEPT !.step = "in VM"]
  <1>1. /\ stack \in Seq(Frames)
        /\ n \in Nat \ {0} /\ n \in 1 .. n
        /\ stack[n] \in Frames
        /\ stack[n].of = "member" /\ stack[n].step = "begun"
    BY Youngest DEF CallVM, Inv, Alternating
  <1>2. stack' = [d \in 1 .. n |-> IF d = n THEN new ELSE stack[d]]
    <2>1. stack' = [stack EXCEPT ![n].step = "in VM"]
      BY DEF CallVM
    <2>2. stack = [d \in 1 .. n |-> stack[d]]
      BY <1>1
    <2> QED
      BY <1>1, <2>1, <2>2
  <1>3. /\ new \in Frames
        /\ new.of = "member" /\ new.step = "in VM"
        /\ new.function = stack[n].function
    BY <1>1 DEF Frames
  <1>4. Open(new) <=> IsVariadic(Top.function.f)
    BY <1>3 DEF Open, Top
  <1>5. ~Open(stack[n])
    BY <1>1 DEF Open
  <1> HIDE DEF new
  <1>6. /\ stack' \in Seq(Frames)
        /\ Len(stack') = n
        /\ stack'[n] = new
        /\ \A d \in 1 .. n - 1 : stack'[d] = stack[d]
    <2>1. \A d \in 1 .. n : stack[d] \in Frames
      BY <1>1
    <2> HIDE DEF n
    <2>2. \A d \in 1 .. n : stack'[d] \in Frames
      BY <1>2, <1>3, <2>1
    <2>3. stack' \in Seq(Frames) /\ Len(stack') = n
      BY <1>1, <1>2, <2>2
    <2>4. n \in 1 .. n /\ \A d \in 1 .. n - 1 : d \in 1 .. n /\ d # n
      BY <1>1
    <2> QED
      BY <1>2, <2>3, <2>4
  <1>7. Alternating(stack')
    <2>1. \A d \in 1 .. n : stack'[d].of = Kind(d)
      <3>1. \A d \in 1 .. n : d \in 1 .. n - 1 \/ d = n
        BY <1>1
      <3>2. Kind(n) = "member"
        BY <1>1 DEF Inv, Alternating
      <3> QED
        BY <1>3, <1>6, <3>1, <3>2 DEF Inv, Alternating
    <2> QED
      BY <1>6, <2>1 DEF Inv, Alternating
  <1>8. OpenIn(stack') = IF Open(new) THEN OpenIn(stack) \cup {n}
                         ELSE OpenIn(stack)
    BY <1>1, <1>5, <1>6 DEF OpenIn
  <1> QED
    BY <1>4, <1>6, <1>7, <1>8 DEF CallVM, Inv

LEMMA ReturnFromMemberInv ==
  ASSUME Inv, ReturnFromMember
  PROVE  Inv'
  <1>1. AtTop("member", "in VM") /\ Alternating(stack)
    BY DEF ReturnFromMember, Inv
  <1>2. stack # << >>
    BY <1>1, Youngest
  <1>3. stack' = Front(stack)
    BY DEF ReturnFromMember
  <1>4. /\ Alternating(stack')
        /\ Len(stack') = Len(stack) - 1
        /\ Len(stack) \in Nat \ {0}
        /\ OpenIn(stack') = OpenIn(stack) \ {Len(stack)}
    BY <1>1, <1>2, <1>3, Pop
  <1>5. Len(stack') <= MaxDepth
    BY <1>4, DepthAssumption DEF Inv
  <1> QED
    BY <1>4, <1>5 DEF ReturnFromMember, Inv

LEMMA ReturnFromNativeInv ==
  ASSUME Inv, ReturnFromNative
  PROVE  Inv'
  <1>1. AtTop("native", "body") /\ Alternating(stack)
    BY DEF ReturnFromNative, Inv
  <1>2. stack # << >> /\ Len(stack) \notin OpenIn(stack)
    BY <1>1, Youngest, NativesAreNotOpen
  <1>3. stack' = Front(stack)
    BY DEF ReturnFromNative
  <1>4. /\ Alternating(stack')
        /\ Len(stack') = Len(stack) - 1
        /\ Len(stack) \in Nat \ {0}
        /\ OpenIn(stack') = OpenIn(stack) \ {Len(stack)}
    BY <1>1, <1>2, <1>3, Pop
  <1>5. Len(stack') <= MaxDepth
    BY <1>4, DepthAssumption DEF Inv
  <1> QED
    BY <1>2, <1>4, <1>5 DEF ReturnFromNative, Inv

LEMMA Invariance == Spec => []Inv
  <1>1. Inv /\ [Next]_vars => Inv'
    <2> SUFFICES ASSUME Inv, [Next]_vars PROVE Inv'
      OBVIOUS
    <2>1. CASE Load
      BY <2>1 DEF Load, Inv
    <2>2. CASE \E m \in Natives : CallNative(m)
      BY <2>2, CallNativeInv
    <2>3. CASE Enter
      BY <2>3, EnterInv
    <2>4. CASE \E m \in JNIEnvMembers \cup InvokeMembers : CallMember(m)
      BY <2>4, CallMemberInv
    <2>5. CASE CallVM
      BY <2>5, CallVMInv
    <2>6. CASE ReturnFromMember
      BY <2>6, ReturnFromMemberInv
    <2>7. CASE ReturnFromNative
      BY <2>7, ReturnFromNativeInv
    <2>8. CASE UNCHANGED vars
      BY <2>8 DEF vars, Inv
    <2> QED
      BY <2>1, <2>2, <2>3, <2>4, <2>5, <2>6, <2>7, <2>8 DEF Next
  <1> QED
    BY <1>1, InitInv, PTL DEF Spec

-----------------------------------------------------------------------------

(* Frames of native methods and of member functions alternate, however     *)
(* deeply Java and native code call each other.                            *)
THEOREM TypeCorrect == Spec => []TypeOK
  <1>1. Inv => TypeOK
    <2> SUFFICES ASSUME Inv PROVE TypeOK
      OBVIOUS
    <2>1. Len(stack) \in Nat /\ DOMAIN stack = 1 .. Len(stack)
      BY DEF Inv, Alternating
    <2>2. lists \subseteq 1 .. MaxDepth
      BY <2>1, DepthAssumption DEF Inv, OpenIn
    <2>3. \A d \in 1 .. Len(stack) :
            d < Len(stack) => d \in 1 .. Len(stack) - 1
      BY <2>1
    <2> QED
      BY <2>1, <2>2, <2>3 DEF Inv, Alternating, TypeOK, Kind, Waits
  <1> QED
    BY <1>1, Invariance, PTL

(* A va_list of a member function of jni.h is started exactly while the    *)
(* VM's function that reads it runs, at every depth.                       *)
THEOREM ListsAreMatched == Spec => []ListsMatchCalls
  <1>1. Inv => ListsMatchCalls
    <2> SUFFICES ASSUME Inv PROVE ListsMatchCalls
      OBVIOUS
    <2>1. DOMAIN stack = 1 .. Len(stack)
      BY DEF Inv, Alternating
    <2> QED
      BY <2>1 DEF Inv, OpenIn, Open, ListsMatchCalls
  <1> QED
    BY <1>1, Invariance, PTL

(* Once the library is loaded every native method links, and reads the     *)
(* parameters that Java passes, however deeply calls are nested.           *)
THEOREM NativesGetParameters == Spec => []NativesGetWhatJavaPasses
  <1>1. Inv => NativesGetWhatJavaPasses
    <2> SUFFICES ASSUME Inv, AtTop("native", "entered")
                 PROVE  Top.gets = Definitions[Top.function]
      BY DEF Inv, NativesGetWhatJavaPasses
    <2>1. Top \in Frames /\ Top.step = "entered"
      BY Youngest DEF Top
    <2>2. Top.function \in Natives /\ Top.gets = Passed(Top.function)
      BY <2>1 DEF Frames
    <2> QED
      BY <2>2, Linkage
  <1> QED
    BY <1>1, Invariance, PTL

(* A call through any of the member functions of jni.h ends in the VM's    *)
(* function that the native code named, with each argument in its place,   *)
(* though the VM was built from a list of functions of its own.            *)
THEOREM CallsReachTheirFunction == Spec => []CallsArrive
  <1>1. Inv => CallsArrive
    <2> SUFFICES ASSUME Inv, AtTop("member", "in VM")
                 PROVE  CallIsReached(Top.function)
      BY Zenon DEF CallsArrive, CallIsReached
    <2>1. Top \in Frames /\ Top.of = "member"
      BY Youngest DEF Top, AtTop, Inv
    <2>2. Top.function \in JNIEnvMembers \cup InvokeMembers
      BY <2>1 DEF Frames, AllMembers
    <2> QED
      BY <2>2, MembersArrive
  <1> QED
    BY <1>1, Invariance, PTL

=============================================================================
