------------------------- MODULE QueryServiceProofs -------------------------
(***************************************************************************)
(* Proofs about QueryService and TelemetryQuery for any questions and rows *)
(* that meet ServiceAssumption, any documents, paths and numbers, and any  *)
(* limits of the service: what is asked of ClickHouse is what the mock     *)
(* store answers, and pages and charts leave no row out.                   *)
(***************************************************************************)
EXTENDS QueryService, FiniteSetTheorems, FunctionTheorems, SequenceTheorems,
        WellFoundedInduction, TLAPS
-----------------------------------------------------------------------------
(* Numbers and sequences. What recursive functions compute is shown by     *)
(* counting up to the length of the sequence (Climb).                      *)

(* A nonempty set of naturals has a least member.                          *)
LEMMA Least ==
  ASSUME NEW T \in SUBSET Nat, T # {}
  PROVE  \E x \in T : \A y \in T : x <= y
<1> DEFINE R == OpToRel(<, Nat)
<1>1. PICK x \in T : \A y \in T : <<y, x>> \notin R
  BY NatLessThanWellFounded, WFMin
<1>2. \A y \in T : ~(y < x)
  BY <1>1 DEF OpToRel
<1> QED BY <1>2

(* Induction up to n: a set of steps that holds the first one and with     *)
(* each the next holds all.                                                *)
LEMMA Climb ==
  ASSUME NEW n \in Nat, NEW T, 0 \in T, \A i \in 1 .. n : i - 1 \in T => i \in T
  PROVE  \A i \in 0 .. n : i \in T
<1> DEFINE Missing == {i \in 0 .. n : i \notin T}
<1>1. SUFFICES ASSUME Missing # {} PROVE FALSE
  OBVIOUS
<1>2. Missing \in SUBSET Nat
  OBVIOUS
<1>3. PICK x \in Missing : \A y \in Missing : x <= y
  <2> HIDE DEF Missing
  <2> QED BY <1>1, <1>2, Least
<1>4. x # 0 /\ x - 1 \in 0 .. n
  BY <1>3
<1>5. x - 1 \in T
  BY <1>3, <1>4
<1> QED BY <1>3, <1>4, <1>5

(* A function may be defined by what it is at 0 and how one value follows  *)
(* from the one before.                                                    *)
Steps(f, n, X, start, step) ==
  f \in [0 .. n -> X] /\ f[0] = start /\ \A i \in 1 .. n : f[i] = step[i][f[i - 1]]

(* Such a function exists, and its values are of the type the steps keep.  *)
LEMMA StepByStep ==
  ASSUME NEW n \in Nat, NEW X, NEW start \in X, NEW step \in [1 .. n -> [X -> X]]
  PROVE  \E f : Steps(f, n, X, start, step)
<1> DEFINE Upto(f, m) == f[0] = start /\ \A i \in 1 .. m : f[i] = step[i][f[i - 1]]
           T == {m \in 0 .. n : \E f \in [0 .. m -> X] : Upto(f, m)}
<1>1. 0 \in T
  <2> DEFINE f == [i \in 0 .. 0 |-> start]
  <2>1. f \in [0 .. 0 -> X] /\ Upto(f, 0)
    OBVIOUS
  <2> HIDE DEF f, Upto
  <2> QED BY <2>1
<1>2. ASSUME NEW i \in 1 .. n, i - 1 \in T PROVE i \in T
  <2>1. PICK g \in [0 .. i - 1 -> X] : Upto(g, i - 1)
    BY <1>2
  <2> DEFINE f == [j \in 0 .. i |-> IF j = i THEN step[i][g[i - 1]] ELSE g[j]]
  <2>2. g[i - 1] \in X /\ step[i][g[i - 1]] \in X
    BY <2>1
  <2>0. i \in Nat /\ i # 0 /\ 0 \in 0 .. i - 1 /\ i - 1 \in 0 .. i - 1 /\ 0 .. i = (0 .. i - 1) \cup {i}
    OBVIOUS
  <2>a. /\ \A j \in 0 .. i - 1 : j # i /\ g[j] \in X
        /\ g[0] = start
    BY <2>0, <2>1
  <2>b. f[i] = step[i][g[i - 1]] /\ \A j \in 0 .. i - 1 : f[j] = g[j]
    BY <2>0, <2>a
  <2>c. f \in [0 .. i -> X]
    BY <2>0, <2>a, <2>2
  <2>3. f \in [0 .. i -> X] /\ f[0] = start /\ f[i] = step[i][f[i - 1]]
    <3> HIDE DEF f
    <3> QED BY <2>0, <2>a, <2>b, <2>c
  <2>4. ASSUME NEW j \in 1 .. i, j # i PROVE f[j] = step[j][f[j - 1]]
    <3>1. j \in 1 .. i - 1 /\ j - 1 \in 0 .. i - 1 /\ j \in 0 .. i - 1
      BY <2>4
    <3> HIDE DEF f
    <3> QED BY <3>1, <2>1, <2>b
  <2>5. Upto(f, i)
    BY <2>3, <2>4
  <2> HIDE DEF f, Upto
  <2> QED BY <2>3, <2>5
<1> HIDE DEF T
<1>3. \A i \in 1 .. n : i - 1 \in T => i \in T
  BY <1>2
<1>4. \A i \in 0 .. n : i \in T
  BY <1>1, <1>3, Climb
<1>5. n \in T
  BY <1>4
<1>6. PICK f \in [0 .. n -> X] : Upto(f, n)
  BY <1>5 DEF T
<1> QED BY <1>6 DEF Steps

(* Appending adds one value to those of a sequence.                        *)
LEMMA SetOfAppended ==
  ASSUME NEW X, NEW s \in Seq(X), NEW x \in X
  PROVE  Append(s, x) \in Seq(X) /\ ToSet(Append(s, x)) = ToSet(s) \cup {x}
<1>1. /\ Append(s, x) \in Seq(X) /\ Len(Append(s, x)) = Len(s) + 1 /\ Len(s) \in Nat
      /\ \A i \in 1 .. Len(s) : Append(s, x)[i] = s[i]
      /\ Append(s, x)[Len(s) + 1] = x
  OBVIOUS
<1>2. DOMAIN s = 1 .. Len(s) /\ DOMAIN Append(s, x) = 1 .. (Len(s) + 1)
  BY <1>1
<1> QED BY <1>1, <1>2, Zenon, SMT DEF ToSet

\* No value twice.
Distinct(s) == \A i, j \in DOMAIN s : s[i] = s[j] => i = j

(* Removing repetitions (values.go) loses no value.                        *)
LEMMA UniqueKeeps ==
  ASSUME NEW X, NEW s \in Seq(X)
  PROVE  Unique(s) \in Seq(X) /\ ToSet(Unique(s)) = ToSet(s) /\ Distinct(Unique(s))
<1> DEFINE n == Len(s)
           Keep(k, i) == IF s[i] \in ToSet(k) THEN k ELSE Append(k, s[i])
           step == [i \in 1 .. n |-> [k \in Seq(X) |-> Keep(k, i)]]
<1>0. n \in Nat /\ (\A i \in 1 .. n : s[i] \in X) /\ <<>> \in Seq(X) /\ DOMAIN s = 1 .. n
  OBVIOUS
<1>1. \A k \in Seq(X), i \in 1 .. n : Keep(k, i) \in Seq(X)
  BY <1>0
<1>2. step \in [1 .. n -> [Seq(X) -> Seq(X)]]
  <2> HIDE DEF Keep
  <2> QED BY <1>1
<1>2a. \A k \in Seq(X), i \in 1 .. n : step[i][k] = Keep(k, i)
  <2> HIDE DEF Keep
  <2> QED OBVIOUS
<1>3. PICK f : Steps(f, n, Seq(X), <<>>, step)
  <2> HIDE DEF step, n
  <2> QED BY <1>0, <1>2, StepByStep
<1>i. /\ 0 \in 0 .. n
      /\ \A i \in 1 .. n : i - 1 \in 0 .. n /\ i \in 0 .. n /\ i # 0
      /\ \A i \in 0 .. n : i # 0 => i \in 1 .. n
  BY <1>0
<1>4. \A i \in 1 .. n : f[i - 1] \in Seq(X) /\ f[i] = Keep(f[i - 1], i)
  <2> HIDE DEF step, Keep, n
  <2> QED BY <1>2a, <1>3, <1>i DEF Steps
<1> DEFINE Eq(g) == g = [i \in 0 .. n |-> IF i = 0 THEN <<>>
                            ELSE IF s[i] \in ToSet(g[i - 1]) THEN g[i - 1] ELSE Append(g[i - 1], s[i])]
           k == CHOOSE g : Eq(g)
<1>5. Eq(f)
  <2> HIDE DEF n, step
  <2> QED BY <1>3, <1>4, <1>i DEF Steps
<1>6. Eq(k)
  <2> HIDE DEF Eq
  <2> QED BY <1>5
<1>7. Unique(s) = k[n]
  BY DEF Unique
<1> HIDE DEF k
<1>8. k[0] = <<>> /\ \A i \in 1 .. n : k[i] = Keep(k[i - 1], i)
  <2> HIDE DEF n
  <2> QED BY <1>6, <1>i
<1> DEFINE U == {m \in 0 .. n : /\ k[m] \in Seq(X) /\ Distinct(k[m])
                                 /\ ToSet(k[m]) = {s[i] : i \in 1 .. m}}
<1>9. 0 \in U
  <2>1. Distinct(<<>>) /\ ToSet(<<>>) = {} /\ {s[i] : i \in 1 .. 0} = {}
    BY DEF Distinct, ToSet
  <2> HIDE DEF n
  <2> QED BY <2>1, <1>0, <1>8, <1>i
<1>10. ASSUME NEW i \in 1 .. n, i - 1 \in U PROVE i \in U
  <2>0. k[i - 1] \in Seq(X) /\ Distinct(k[i - 1]) /\ ToSet(k[i - 1]) = {s[j] : j \in 1 .. i - 1}
    BY <1>10
  <2>1. k[i] = Keep(k[i - 1], i) /\ i \in 0 .. n /\ s[i] \in X
    <3> HIDE DEF Keep, n
    <3> QED BY <1>8, <1>i, <1>0
  <2>2. {s[j] : j \in 1 .. i} = {s[j] : j \in 1 .. i - 1} \cup {s[i]}
    <3>1. 1 .. i = (1 .. i - 1) \cup {i}
      BY <1>0
    <3> QED BY <3>1
  <2> HIDE DEF n
  <2>3. CASE s[i] \in ToSet(k[i - 1])
    <3>1. k[i] = k[i - 1]
      BY <2>1, <2>3
    <3> QED BY <2>0, <2>1, <2>2, <2>3, <3>1
  <2>4. CASE s[i] \notin ToSet(k[i - 1])
    <3>1. k[i] = Append(k[i - 1], s[i])
      BY <2>1, <2>4
    <3>2. k[i] \in Seq(X) /\ ToSet(k[i]) = ToSet(k[i - 1]) \cup {s[i]}
      BY <2>0, <2>1, <3>1, SetOfAppended
    <3>3. Distinct(k[i])
      <4> DEFINE q == k[i - 1]
      <4>1. q \in Seq(X) /\ s[i] \in X /\ Distinct(q) /\ (\A a \in DOMAIN q : q[a] # s[i])
        BY <2>0, <2>1, <2>4 DEF ToSet
      <4> HIDE DEF q
      <4>2. Distinct(Append(q, s[i]))
        BY <4>1 DEF Distinct
      <4> QED BY <4>2, <3>1 DEF q
    <3> QED BY <2>0, <2>1, <2>2, <3>2, <3>3
  <2> QED BY <2>3, <2>4
<1>11. n \in U
  <2> HIDE DEF U, n
  <2>0. \A i \in 1 .. n : i - 1 \in U => i \in U
    BY <1>10
  <2>1. \A i \in 0 .. n : i \in U
    BY <1>0, <1>9, <2>0, Climb
  <2> QED BY <2>1, <1>0
<1>12. ToSet(s) = {s[i] : i \in 1 .. n}
  BY <1>0 DEF ToSet
<1> QED BY <1>7, <1>11, <1>12

(* How many placeholders the tests before the i-th take.                   *)
LEMMA TakenIs ==
  ASSUME NEW tests, Len(tests) \in Nat, \A i \in 1 .. Len(tests) : tests[i].arity \in Nat
  PROVE  /\ Taken(tests) \in [0 .. Len(tests) -> Nat] /\ Taken(tests)[0] = 0
         /\ \A i \in 1 .. Len(tests) : Taken(tests)[i] = Taken(tests)[i - 1] + tests[i].arity
<1> DEFINE n == Len(tests)
           step == [i \in 1 .. n |-> [k \in Nat |-> k + tests[i].arity]]
           Eq(g) == g = [i \in 0 .. n |-> IF i = 0 THEN 0 ELSE g[i - 1] + tests[i].arity]
           k == CHOOSE g : Eq(g)
<1>1. /\ n \in Nat /\ step \in [1 .. n -> [Nat -> Nat]]
      /\ \A i \in 1 .. n : \A j \in Nat : step[i][j] = j + tests[i].arity
  OBVIOUS
<1>2. PICK f : Steps(f, n, Nat, 0, step)
  <2> HIDE DEF n, step
  <2> QED BY <1>1, StepByStep
<1>3. /\ 0 \in 0 .. n
      /\ \A i \in 1 .. n : i - 1 \in 0 .. n /\ i \in 0 .. n /\ i # 0
      /\ \A i \in 0 .. n : i # 0 => i \in 1 .. n
  BY <1>1
<1>4. \A i \in 1 .. n : f[i] = f[i - 1] + tests[i].arity
  <2> HIDE DEF n, step
  <2> QED BY <1>1, <1>2, <1>3 DEF Steps
<1>5. f = [i \in 0 .. n |-> IF i = 0 THEN 0 ELSE f[i - 1] + tests[i].arity]
  <2> HIDE DEF n, step
  <2> QED BY <1>2, <1>3, <1>4 DEF Steps
<1>6. \A g : Eq(g) => g = f
  <2> SUFFICES ASSUME NEW g, Eq(g) PROVE g = f
    OBVIOUS
  <2> DEFINE U == {m \in 0 .. n : g[m] = f[m]}
  <2>1. \A i \in 0 .. n : i \in U
    <3>1. 0 \in U /\ \A i \in 1 .. n : i - 1 \in U => i \in U
      <4> HIDE DEF n, step
      <4> QED BY <1>2, <1>3, <1>4 DEF Steps
    <3> HIDE DEF U, n, step
    <3> QED BY <1>1, <3>1, Climb
  <2> HIDE DEF n, step
  <2> QED BY <2>1, <1>2 DEF Steps
<1>7. k = f
  <2>1. Eq(f)
    BY <1>5
  <2> HIDE DEF Eq
  <2> QED BY <2>1, <1>6
<1>8. Taken(tests) = k
  BY DEF Taken
<1> HIDE DEF n, step, k
<1> QED BY <1>2, <1>4, <1>7, <1>8 DEF Steps, n

(* A slice of a concatenation that lies in one of its halves.              *)
LEMMA SliceLeft ==
  ASSUME NEW X, NEW s \in Seq(X), NEW t \in Seq(X),
         NEW m \in 1 .. Len(s) + 1, NEW n \in m - 1 .. Len(s)
  PROVE  SubSeq(s \o t, m, n) = SubSeq(s, m, n)
<1>0. Len(s) \in Nat
  BY LenProperties
<1>1. CASE n < m
  <2>1. m \in Int /\ n \in Int
    BY <1>0
  <2> QED BY <1>1, <2>1, SubSeqEmpty
<1>2. CASE m <= n
  <2>1. m \in 1 .. Len(s) /\ n \in 1 .. Len(s)
    BY <1>0, <1>2
  <2> QED BY <2>1, SubSeqOfConcat1
<1> QED BY <1>0, <1>1, <1>2

(* The same for the other half.                                            *)
LEMMA SliceRight ==
  ASSUME NEW X, NEW s \in Seq(X), NEW t \in Seq(X),
         NEW m \in 1 .. Len(t) + 1, NEW n \in m - 1 .. Len(t)
  PROVE  SubSeq(s \o t, Len(s) + m, Len(s) + n) = SubSeq(t, m, n)
<1>0. Len(s) \in Nat /\ Len(t) \in Nat
  BY LenProperties
<1>1. CASE n < m
  <2>1. m \in Int /\ n \in Int /\ Len(s) + m \in Int /\ Len(s) + n \in Int /\ Len(s) + n < Len(s) + m
    BY <1>0, <1>1
  <2> QED BY <1>1, <2>1, SubSeqEmpty
<1>2. CASE m <= n
  <2> DEFINE a == Len(s) + m
             b == Len(s) + n
  <2>1. a \in Len(s) + 1 .. Len(s) + Len(t) /\ b \in Len(s) + 1 .. Len(s) + Len(t)
    BY <1>0, <1>2
  <2>2. SubSeq(s \o t, a, b) = SubSeq(t, a - Len(s), b - Len(s))
    <3> HIDE DEF a, b
    <3> QED BY <2>1, SubSeqOfConcat2
  <2>3. a - Len(s) = m /\ b - Len(s) = n
    BY <1>0
  <2> QED BY <2>2, <2>3
<1> QED BY <1>0, <1>1, <1>2

(* A concatenation has the values of both halves.                          *)
LEMMA SetOfConcat ==
  ASSUME NEW X, NEW s \in Seq(X), NEW t \in Seq(X)
  PROVE  ToSet(s \o t) = ToSet(s) \cup ToSet(t)
<1>0. Len(s) \in Nat /\ Len(t) \in Nat /\ DOMAIN s = 1 .. Len(s) /\ DOMAIN t = 1 .. Len(t)
  BY LenProperties
<1>1. /\ DOMAIN (s \o t) = 1 .. Len(s) + Len(t)
      /\ \A i \in 1 .. Len(s) + Len(t) : (s \o t)[i] = IF i <= Len(s) THEN s[i] ELSE t[i - Len(s)]
  BY ConcatProperties, LenProperties
<1>2. \A i \in 1 .. Len(s) : i \in 1 .. Len(s) + Len(t) /\ (s \o t)[i] = s[i]
  BY <1>0, <1>1
<1>3. \A i \in 1 .. Len(t) : i + Len(s) \in 1 .. Len(s) + Len(t) /\ (s \o t)[i + Len(s)] = t[i]
  BY <1>0, <1>1
<1>4. \A i \in 1 .. Len(s) + Len(t) :
        \/ i \in 1 .. Len(s) /\ (s \o t)[i] = s[i]
        \/ i - Len(s) \in 1 .. Len(t) /\ (s \o t)[i] = t[i - Len(s)]
  BY <1>0, <1>1
<1>5. ToSet(s \o t) \subseteq ToSet(s) \cup ToSet(t)
  BY <1>0, <1>1, <1>4 DEF ToSet
<1>6. ToSet(s) \subseteq ToSet(s \o t)
  BY <1>0, <1>1, <1>2 DEF ToSet
<1>7. ToSet(t) \subseteq ToSet(s \o t)
  BY <1>0, <1>1, <1>3 DEF ToSet
<1> QED BY <1>5, <1>6, <1>7

\* The slices of q are slices of u.
Prefixed(u, q) ==
  \A a \in 1 .. Len(q) + 1 : \A b \in a - 1 .. Len(q) : SubSeq(u, a, b) = SubSeq(q, a, b)

(* What a concatenation is, part by part.                                  *)
LEMMA Extended ==
  ASSUME NEW X, NEW q \in Seq(X), NEW t \in Seq(X)
  PROVE  /\ q \o t \in Seq(X) /\ Len(q \o t) = Len(q) + Len(t)
         /\ Len(q) \in Nat /\ Len(t) \in Nat
         /\ ToSet(q \o t) = ToSet(q) \cup ToSet(t)
         /\ SubSeq(q \o t, Len(q) + 1, Len(q) + Len(t)) = t
         /\ Prefixed(q \o t, q)
<1>1. Len(q) \in Nat /\ Len(t) \in Nat
  BY LenProperties
<1>2. q \o t \in Seq(X) /\ Len(q \o t) = Len(q) + Len(t)
  BY ConcatProperties
<1>3. SubSeq(q \o t, Len(q) + 1, Len(q) + Len(t)) = SubSeq(t, 1, Len(t))
  <2>1. 1 \in 1 .. Len(t) + 1 /\ Len(t) \in 1 - 1 .. Len(t)
    BY <1>1
  <2> QED BY <2>1, SliceRight
<1>4. SubSeq(t, 1, Len(t)) = t
  BY SubSeqFull
<1>5. Prefixed(q \o t, q)
  BY SliceLeft DEF Prefixed
<1> QED BY <1>1, <1>2, <1>3, <1>4, <1>5, SetOfConcat

(* FlattenSeq, whatever the lengths of the parts: the i-th is found where  *)
(* the parts before it end.                                                *)
LEMMA Flattening ==
  ASSUME NEW X, NEW s \in Seq(Seq(X)), NEW off \in [0 .. Len(s) -> Nat], off[0] = 0,
         \A i \in 1 .. Len(s) : off[i] = off[i - 1] + Len(s[i])
  PROVE  /\ FlattenSeq(s) \in Seq(X) /\ Len(FlattenSeq(s)) = off[Len(s)]
         /\ ToSet(FlattenSeq(s)) = UNION {ToSet(s[i]) : i \in 1 .. Len(s)}
         /\ \A i \in 1 .. Len(s) :
              off[i] <= off[Len(s)] /\ SubSeq(FlattenSeq(s), off[i - 1] + 1, off[i]) = s[i]
<1> DEFINE n == Len(s)
<1>0. /\ n \in Nat /\ (\A i \in 1 .. n : s[i] \in Seq(X) /\ Len(s[i]) \in Nat)
      /\ DOMAIN s = 1 .. n /\ <<>> \in Seq(X)
  BY LenProperties, ElementOfSeq, EmptySeq
<1>1. CASE n = 0
  <2>1. s = <<>> /\ 1 .. n = {} /\ Len(<<>>) = 0
    BY <1>1, EmptySeq
  <2>2. FlattenSeq(s) = <<>>
    BY <2>1 DEF FlattenSeq
  <2>3. ToSet(<<>>) = {} /\ UNION {ToSet(s[i]) : i \in {}} = {}
    BY DEF ToSet
  <2> HIDE DEF n
  <2> QED BY <1>0, <1>1, <2>1, <2>2, <2>3 DEF n
<1>2. CASE n # 0
  <2> DEFINE Eq(g) == g = [i \in 1 .. n |-> IF i = 1 THEN s[i] ELSE g[i - 1] \o s[i]]
             k == CHOOSE g : Eq(g)
  <2>1. FlattenSeq(s) = k[n]
    BY <1>2 DEF FlattenSeq
  <2>2. Eq(k)
    <3> DEFINE step == [i \in 1 .. n |-> [q \in Seq(X) |-> q \o s[i]]]
    <3>0. \A i \in 1 .. n, q \in Seq(X) : q \o s[i] \in Seq(X)
      BY <1>0, ConcatProperties
    <3>1. step \in [1 .. n -> [Seq(X) -> Seq(X)]] /\ \A i \in 1 .. n, q \in Seq(X) : step[i][q] = q \o s[i]
      <4> HIDE DEF n
      <4> QED BY <3>0
    <3>2. PICK f : Steps(f, n, Seq(X), <<>>, step)
      <4> HIDE DEF step, n
      <4> QED BY <1>0, <3>1, StepByStep
    <3>3. /\ 0 \in 0 .. n /\ 1 \in 1 .. n
          /\ \A i \in 1 .. n : i - 1 \in 0 .. n /\ i \in 0 .. n /\ (i # 1 => i - 1 \in 1 .. n)
      BY <1>0, <1>2
    <3>3a. \A i \in 1 .. n : f[i] = step[i][f[i - 1]] /\ f[i - 1] \in Seq(X) 
      <4> HIDE DEF step, n
      <4> QED BY <3>2, <3>3 DEF Steps
    <3>3b. f[0] = <<>>
      BY <3>2 DEF Steps
    <3>4. \A i \in 1 .. n : f[i] = f[i - 1] \o s[i] /\ f[i - 1] \in Seq(X)
      <4> HIDE DEF step, n
      <4> QED BY <3>1, <3>3a
    <3>5. f[1] = s[1]
      <4>1. s[1] \in Seq(X) /\ f[1] = f[1 - 1] \o s[1] /\ 1 - 1 = 0
        <5> HIDE DEF n
        <5> QED BY <1>0, <3>3, <3>4
      <4> QED BY <4>1, <3>3b, ConcatEmptySeq
    <3> DEFINE h == [i \in 1 .. n |-> f[i]]
    <3>6. Eq(h)
      <4> HIDE DEF n, step
      <4> QED BY <3>3, <3>4, <3>5
    <3> HIDE DEF Eq
    <3> QED BY <3>6
  <2> HIDE DEF k
  <2>3. /\ 0 \in 0 .. n /\ 1 \in 1 .. n /\ n \in 1 .. n
        /\ \A i \in 1 .. n : i - 1 \in 0 .. n /\ i \in 0 .. n /\ (i # 1 => i - 1 \in 1 .. n)
    BY <1>0, <1>2
  <2>4. k[1] = s[1] /\ \A i \in 1 .. n : i # 1 => k[i] = k[i - 1] \o s[i]
    <3> HIDE DEF n
    <3> QED BY <2>2, <2>3
  <2> DEFINE Done(m) == /\ k[m] \in Seq(X) /\ Len(k[m]) = off[m]
                        /\ ToSet(k[m]) = UNION {ToSet(s[i]) : i \in 1 .. m}
                        /\ \A i \in 1 .. m : off[i] <= off[m] /\ SubSeq(k[m], off[i - 1] + 1, off[i]) = s[i]
             U == {m \in 0 .. n : m = 0 \/ Done(m)}
  <2>5. (\A m \in 0 .. n : off[m] \in Nat) /\ \A i \in 1 .. n : off[i] = off[i - 1] + Len(s[i])
    OBVIOUS
  <2>6. ASSUME NEW m \in 1 .. n, m - 1 \in U PROVE Done(m)
    <3>0. /\ m - 1 \in 0 .. n /\ m \in Nat /\ off[m] = off[m - 1] + Len(s[m]) /\ off[m] \in Nat /\ off[m - 1] \in Nat
          /\ s[m] \in Seq(X) /\ Len(s[m]) \in Nat
      BY <1>0, <2>3, <2>5
    <3>1. CASE m = 1
      <4>1. k[m] = s[m] /\ off[m - 1] = 0 /\ off[m] = Len(s[m]) /\ 1 .. m = {m}
        BY <2>4, <3>0, <3>1
      <4>2. SubSeq(s[m], 1, Len(s[m])) = s[m]
        BY <3>0, SubSeqFull
      <4> QED BY <3>0, <4>1, <4>2
    <3>2. CASE m # 1
      <4>a. m - 1 # 0 /\ m \in 1 .. n
        BY <3>0, <3>2
      <4>b. Done(m - 1)
        <5> HIDE DEF Done
        <5> QED BY <2>6, <4>a
      <4>c. k[m] = k[m - 1] \o s[m]
        <5> HIDE DEF n
        <5> QED BY <2>4, <4>a, <3>2
      <4> DEFINE q == k[m - 1]
                 t == s[m]
      <4>1. /\ q \in Seq(X) /\ Len(q) = off[m - 1] /\ ToSet(q) = UNION {ToSet(s[i]) : i \in 1 .. m - 1}
            /\ \A i \in 1 .. m - 1 : off[i] <= off[m - 1] /\ SubSeq(q, off[i - 1] + 1, off[i]) = s[i]
            /\ k[m] = q \o t /\ Len(q) \in Nat /\ t \in Seq(X) /\ Len(t) \in Nat /\ t = s[m]
            /\ off[m] = Len(q) + Len(t)
        BY <4>b, <4>c, <3>0
      <4> HIDE DEF q, t, n, Done
      <4>1a. q \in Seq(X) /\ t \in Seq(X)
        BY <4>1
      <4>1b. /\ q \o t \in Seq(X) /\ Len(q \o t) = Len(q) + Len(t)
             /\ SubSeq(q \o t, Len(q) + 1, Len(q) + Len(t)) = t
             /\ Prefixed(q \o t, q)
        BY <4>1a, Extended, Zenon
      <4>1c. ToSet(q \o t) = ToSet(q) \cup ToSet(t)
        BY <4>1a, SetOfConcat
      <4>2. k[m] \in Seq(X) /\ Len(k[m]) = off[m] /\ ToSet(k[m]) = ToSet(q) \cup ToSet(t)
        BY <4>1, <4>1b, <4>1c
      <4>3. 1 .. m = (1 .. m - 1) \cup {m}
        BY <3>0
      <4>4. ToSet(k[m]) = UNION {ToSet(s[i]) : i \in 1 .. m}
        BY <4>1, <4>2, <4>3
      <4>5. ASSUME NEW i \in 1 .. m PROVE off[i] <= off[m] /\ SubSeq(k[m], off[i - 1] + 1, off[i]) = s[i]
        <5>1. CASE i = m
          <6>0. off[i - 1] + 1 = Len(q) + 1 /\ off[i] = Len(q) + Len(t) /\ off[i] <= off[m]
            BY <5>1, <4>1, <3>0
          <6>1. SubSeq(q \o t, Len(q) + 1, Len(q) + Len(t)) = t
            BY <4>1, <4>1b
          <6> QED BY <6>0, <4>1, <5>1, <6>1
        <5>2. CASE i # m
          <6>1. i \in 1 .. m - 1 /\ i \in 1 .. n /\ i \in 0 .. n /\ i - 1 \in 0 .. n
            BY <5>2, <3>0, <1>0
          <6>2. /\ off[i] <= off[m - 1] /\ SubSeq(q, off[i - 1] + 1, off[i]) = s[i]
            BY <4>1, <6>1
          <6>2a. /\ off[i] = off[i - 1] + Len(s[i]) /\ off[i] \in Nat /\ off[i - 1] \in Nat /\ Len(s[i]) \in Nat
            BY <6>1, <2>5, <1>0
          <6> DEFINE a == off[i - 1] + 1
                     b == off[i]
          <6>3. a \in 1 .. Len(q) + 1 /\ b \in a - 1 .. Len(q) /\ off[i] <= off[m]
            <7>1. off[i] <= Len(q) /\ Len(q) \in Nat /\ off[m] = Len(q) + Len(t) /\ Len(t) \in Nat
              BY <6>2, <4>1
            <7>2. off[i - 1] + 1 >= 1 /\ off[i - 1] + 1 <= Len(q) + 1 /\ off[i - 1] + 1 - 1 <= off[i]
              BY <7>1, <6>2a
            <7> QED BY <7>1, <7>2, <6>2a
          <6>4. SubSeq(k[m], a, b) = SubSeq(q, a, b)
            <7> HIDE DEF a, b
            <7>1. SubSeq(q \o t, a, b) = SubSeq(q, a, b)
              BY <6>3, <4>1b DEF Prefixed
            <7> QED BY <7>1, <4>1
          <6> QED BY <6>2, <6>3, <6>4
        <5> QED BY <5>1, <5>2
      <4> QED BY <4>2, <4>4, <4>5 DEF Done
    <3> QED BY <3>1, <3>2
  <2>7. \A m \in 0 .. n : m \in U
    <3>1. 0 \in U
      BY <1>0
    <3>2. \A m \in 1 .. n : m - 1 \in U => m \in U
      <4> HIDE DEF Done
      <4> QED BY <2>6, <2>3
    <3> HIDE DEF U, n
    <3> QED BY <1>0, <3>1, <3>2, Climb
  <2>8. Done(n)
    <3> HIDE DEF Done
    <3> QED BY <2>7, <2>3, <1>2
  <2> QED BY <2>1, <2>8
<1> QED BY <1>1, <1>2

(* A function on 1 .. n is a sequence of length n.                         *)
LEMMA IsSequence ==
  ASSUME NEW n \in Nat, NEW S, NEW f \in [1 .. n -> S]
  PROVE  f \in Seq(S) /\ Len(f) = n /\ DOMAIN f = 1 .. n
OBVIOUS

(* The bounds of a slice that the lemmas on concatenation ask for.         *)
LEMMA InRange ==
  ASSUME NEW a \in Nat, NEW b \in Nat, NEW c \in Nat, a <= b, b <= c
  PROVE  a + 1 \in 1 .. c + 1 /\ b \in (a + 1) - 1 .. c
OBVIOUS

(* Every placeholder gets the argument that was meant for it: a statement  *)
(* chooses a row when each part of its conditions holds with its own       *)
(* arguments, although the arguments of all parts are one flat sequence.   *)
LEMMA ChosenIsAllHold ==
  ASSUME NEW X, NEW T, NEW pre \in Seq([test : T, args : Seq(X)]),
         NEW late \in Seq([test : T, args : Seq(X)]), NEW row, NEW statement,
         statement.tests = Tests(pre) \o Tests(late),
         statement.args = BoundArgs(pre, late)
  PROVE  Chosen(statement, row) <=>
           \A part \in ToSet(pre) \cup ToSet(late) : Holds(part.test, part.args, row)
<1> DEFINE P == [test : T, args : Seq(X)]
           TA == [test : T, arity : Nat]
           n == Len(pre)
           m == Len(late)
           tests == statement.tests
           taken == Taken(tests)
<1>1. /\ n \in Nat /\ m \in Nat /\ DOMAIN pre = 1 .. n /\ DOMAIN late = 1 .. m
      /\ \A i \in 1 .. n : pre[i] \in P /\ pre[i].test \in T /\ pre[i].args \in Seq(X) /\ Len(pre[i].args) \in Nat
      /\ \A i \in 1 .. m : late[i] \in P /\ late[i].test \in T /\ late[i].args \in Seq(X) /\ Len(late[i].args) \in Nat
  <2>1. \A p \in P : p.test \in T /\ p.args \in Seq(X) /\ Len(p.args) \in Nat
    BY LenProperties
  <2>2. /\ n \in Nat /\ m \in Nat /\ DOMAIN pre = 1 .. n /\ DOMAIN late = 1 .. m
        /\ \A i \in 1 .. n : pre[i] \in P
        /\ \A i \in 1 .. m : late[i] \in P
    BY LenProperties, ElementOfSeq
  <2> HIDE DEF P, n, m
  <2> QED BY <2>1, <2>2
<1> HIDE DEF P
<1>2. /\ Tests(pre) \in Seq(TA) /\ Len(Tests(pre)) = n
      /\ Tests(late) \in Seq(TA) /\ Len(Tests(late)) = m
  <2>1. /\ Tests(pre) = [i \in 1 .. n |-> [test |-> pre[i].test, arity |-> Len(pre[i].args)]]
        /\ Tests(late) = [i \in 1 .. m |-> [test |-> late[i].test, arity |-> Len(late[i].args)]]
    BY <1>1 DEF Tests
  <2> DEFINE a == [i \in 1 .. n |-> [test |-> pre[i].test, arity |-> Len(pre[i].args)]]
             b == [i \in 1 .. m |-> [test |-> late[i].test, arity |-> Len(late[i].args)]]
  <2>2. a \in [1 .. n -> TA] /\ b \in [1 .. m -> TA]
    <3> HIDE DEF n, m
    <3> QED BY <1>1
  <2>3. a \in Seq(TA) /\ Len(a) = n /\ b \in Seq(TA) /\ Len(b) = m
    <3> HIDE DEF a, b, TA, n, m
    <3> QED BY <2>2, <1>1, IsSequence
  <2> QED BY <2>1, <2>3
<1>3. /\ Len(tests) = n + m /\ DOMAIN tests = 1 .. n + m
      /\ \A i \in 1 .. n : tests[i].test = pre[i].test /\ tests[i].arity = Len(pre[i].args)
      /\ \A i \in 1 .. m : tests[n + i].test = late[i].test /\ tests[n + i].arity = Len(late[i].args)
  <2>0. tests = Tests(pre) \o Tests(late)
    OBVIOUS
  <2>1. /\ Len(tests) = n + m /\ tests \in Seq(TA)
        /\ \A i \in 1 .. n + m : tests[i] = IF i <= n THEN Tests(pre)[i] ELSE Tests(late)[i - n]
    <3> HIDE DEF n, m, tests, TA
    <3> QED BY <1>2, <2>0, ConcatProperties
  <2>2. DOMAIN tests = 1 .. n + m
    <3> HIDE DEF n, m, tests, TA
    <3> QED BY <2>1, LenProperties
  <2>3. /\ \A i \in 1 .. n : i \in 1 .. n + m /\ i <= n
        /\ \A i \in 1 .. m : n + i \in 1 .. n + m /\ ~(n + i <= n) /\ (n + i) - n = i
    BY <1>1
  <2>4. /\ \A i \in 1 .. n : tests[i] = Tests(pre)[i]
        /\ \A i \in 1 .. m : tests[n + i] = Tests(late)[i]
    <3> HIDE DEF n, m, tests
    <3> QED BY <2>1, <2>3
  <2>5. /\ \A i \in 1 .. n : Tests(pre)[i].test = pre[i].test /\ Tests(pre)[i].arity = Len(pre[i].args)
        /\ \A i \in 1 .. m : Tests(late)[i].test = late[i].test /\ Tests(late)[i].arity = Len(late[i].args)
    <3> HIDE DEF n, m
    <3> QED BY <1>1 DEF Tests
  <2> HIDE DEF n, m, tests
  <2>6. \A i \in 1 .. n : tests[i].test = pre[i].test /\ tests[i].arity = Len(pre[i].args)
    BY <2>4, <2>5
  <2>7. \A i \in 1 .. m : tests[n + i].test = late[i].test /\ tests[n + i].arity = Len(late[i].args)
    BY <2>4, <2>5
  <2> QED BY <2>1, <2>2, <2>6, <2>7
<1>4. \A i \in 1 .. n + m : tests[i].arity \in Nat
  <2>1. \A i \in 1 .. n + m : i \in 1 .. n \/ (i - n \in 1 .. m /\ n + (i - n) = i)
    BY <1>1
  <2> HIDE DEF n, m, tests
  <2> QED BY <1>1, <1>3, <2>1
<1>5. /\ taken \in [0 .. n + m -> Nat] /\ taken[0] = 0
      /\ \A i \in 1 .. n + m : taken[i] = taken[i - 1] + tests[i].arity
  <2>1. Len(tests) \in Nat
    BY <1>1, <1>3
  <2>2. \A i \in 1 .. Len(tests) : tests[i].arity \in Nat
    BY <1>3, <1>4
  <2> HIDE DEF n, m, tests
  <2>3. /\ taken \in [0 .. Len(tests) -> Nat] /\ taken[0] = 0
        /\ \A i \in 1 .. Len(tests) : taken[i] = taken[i - 1] + tests[i].arity
    BY <2>1, <2>2, TakenIs
  <2> QED BY <2>3, <1>3
<1> DEFINE apre == [i \in 1 .. n |-> pre[i].args]
           alate == [i \in 1 .. m |-> late[i].args]
           opre == [i \in 0 .. n |-> taken[i]]
           olate == [i \in 0 .. m |-> taken[n + i] - taken[n]]
           ap == FlattenSeq(apre)
           al == FlattenSeq(alate)
<1>6. statement.args = ap \o al
  BY <1>1 DEF BoundArgs, Args
<1>7. /\ ap \in Seq(X) /\ Len(ap) = taken[n]
      /\ \A i \in 1 .. n : taken[i] <= taken[n] /\ SubSeq(ap, taken[i - 1] + 1, taken[i]) = pre[i].args
  <2>1. apre \in Seq(Seq(X)) /\ Len(apre) = n
    <3>1. apre \in [1 .. n -> Seq(X)]
      <4> HIDE DEF n
      <4> QED BY <1>1
    <3> HIDE DEF apre, n
    <3> QED BY <3>1, <1>1, IsSequence
  <2>2. /\ opre \in [0 .. n -> Nat] /\ opre[0] = 0
        /\ \A i \in 1 .. n : opre[i] = opre[i - 1] + Len(apre[i])
    <3>1. \A i \in 0 .. n : i \in 0 .. n + m
      BY <1>1
    <3>2. \A i \in 1 .. n : i \in 1 .. n + m /\ i - 1 \in 0 .. n /\ i \in 0 .. n
      BY <1>1
    <3>3. 0 \in 0 .. n
      BY <1>1
    <3> HIDE DEF n, m, taken, tests
    <3> QED BY <1>1, <1>3, <1>5, <3>1, <3>2, <3>3
  <2>3. /\ ap \in Seq(X) /\ Len(ap) = opre[n]
        /\ \A i \in 1 .. n : opre[i] <= opre[n] /\ SubSeq(ap, opre[i - 1] + 1, opre[i]) = apre[i]
    <3> HIDE DEF n, apre, opre
    <3> QED BY <2>1, <2>2, Flattening
  <2>4. n \in 0 .. n /\ \A i \in 1 .. n : i \in 0 .. n /\ i - 1 \in 0 .. n
    BY <1>1
  <2> HIDE DEF ap, n, taken
  <2> QED BY <2>3, <2>4
<1>8. \A i \in 0 .. m : taken[n] <= taken[n + i]
  <2> DEFINE U == {i \in 0 .. m : taken[n] <= taken[n + i]}
  <2>1. 0 \in U
    <3>1. 0 \in 0 .. m /\ n + 0 = n /\ n \in 0 .. n + m
      BY <1>1
    <3>2. taken[n] \in Nat
      <4> HIDE DEF n, m, taken
      <4> QED BY <3>1, <1>5
    <3> HIDE DEF n, m, taken
    <3> QED BY <3>1, <3>2
  <2>2. ASSUME NEW i \in 1 .. m, i - 1 \in U PROVE i \in U
    <3>1. n + i \in 1 .. n + m /\ (n + i) - 1 = n + (i - 1) /\ n \in 0 .. n + m /\ n + i \in 0 .. n + m /\ (n + i) - 1 \in 0 .. n + m /\ i \in 0 .. m
      BY <1>1
    <3>2. /\ taken[n + i] = taken[n + (i - 1)] + tests[n + i].arity /\ tests[n + i].arity \in Nat
          /\ taken[n] \in Nat /\ taken[n + (i - 1)] \in Nat
      <4> HIDE DEF n, m, taken, tests
      <4> QED BY <3>1, <1>4, <1>5
    <3>3. taken[n] <= taken[n + (i - 1)]
      BY <2>2
    <3>4. taken[n] <= taken[n + i]
      <4> HIDE DEF taken, tests, n, m
      <4> QED BY <3>2, <3>3
    <3> HIDE DEF taken, tests, n, m
    <3> QED BY <3>1, <3>4
  <2>3. \A i \in 1 .. m : i - 1 \in U => i \in U
    BY <2>2
  <2> HIDE DEF U, m, n
  <2>4. \A i \in 0 .. m : i \in U
    BY <1>1, <2>1, <2>3, Climb
  <2> QED BY <2>4 DEF U
<1>9. /\ al \in Seq(X)
      /\ \A i \in 1 .. m : /\ taken[n + i] - taken[n] <= Len(al)
                           /\ SubSeq(al, taken[n + (i - 1)] - taken[n] + 1, taken[n + i] - taken[n]) = late[i].args
  <2>1. alate \in Seq(Seq(X)) /\ Len(alate) = m
    <3>1. alate \in [1 .. m -> Seq(X)]
      <4> HIDE DEF m
      <4> QED BY <1>1
    <3> HIDE DEF alate, m
    <3> QED BY <3>1, <1>1, IsSequence
  <2>0. /\ \A i \in 0 .. m : n + i \in 0 .. n + m 
        /\ \A i \in 1 .. m : n + i \in 1 .. n + m /\ (n + i) - 1 = n + (i - 1) /\ i - 1 \in 0 .. m /\ i \in 0 .. m
        /\ n \in 0 .. n + m /\ 0 \in 0 .. m /\ n + 0 = n /\ m \in 0 .. m
    BY <1>1
  <2>2. /\ olate \in [0 .. m -> Nat] /\ olate[0] = 0
        /\ \A i \in 1 .. m : olate[i] = olate[i - 1] + Len(alate[i])
    <3>1. \A i \in 0 .. m : taken[n + i] \in Nat /\ taken[n] \in Nat /\ taken[n] <= taken[n + i]
      <4> HIDE DEF n, m, taken
      <4> QED BY <2>0, <1>5, <1>8
    <3>2. \A i \in 1 .. m : taken[n + i] = taken[n + (i - 1)] + Len(late[i].args) /\ Len(late[i].args) \in Nat
      <4> HIDE DEF n, m, taken, tests
      <4> QED BY <2>0, <1>1, <1>3, <1>5
    <3>3. \A i \in 0 .. m : taken[n + i] - taken[n] \in Nat
      <4> HIDE DEF n, m, taken
      <4> QED BY <3>1
    <3>4. olate \in [0 .. m -> Nat] /\ olate[0] = 0
      <4> HIDE DEF n, m, taken
      <4> QED BY <2>0, <3>1, <3>3
    <3>5. ASSUME NEW i \in 1 .. m PROVE olate[i] = olate[i - 1] + Len(alate[i])
      <4>1. olate[i] = taken[n + i] - taken[n] /\ olate[i - 1] = taken[n + (i - 1)] - taken[n] /\ alate[i] = late[i].args
        <5> HIDE DEF n, m, taken
        <5> QED BY <2>0
      <4>2. taken[n] \in Nat /\ taken[n + (i - 1)] \in Nat
        <5> HIDE DEF n, m, taken
        <5> QED BY <2>0, <3>1
      <4>3. taken[n + i] = taken[n + (i - 1)] + Len(late[i].args) /\ Len(late[i].args) \in Nat
        BY <3>2
      <4> HIDE DEF n, m, taken, olate, alate
      <4>4. (taken[n + (i - 1)] + Len(late[i].args)) - taken[n] = (taken[n + (i - 1)] - taken[n]) + Len(late[i].args)
        BY <4>2, <4>3
      <4> QED BY <4>1, <4>3, <4>4
    <3> QED BY <3>4, <3>5
  <2>3. /\ al \in Seq(X) /\ Len(al) = olate[m]
        /\ \A i \in 1 .. m : olate[i] <= olate[m] /\ SubSeq(al, olate[i - 1] + 1, olate[i]) = alate[i]
    <3> HIDE DEF m, alate, olate
    <3> QED BY <2>1, <2>2, Flattening
  <2> HIDE DEF al, n, m, taken
  <2> QED BY <2>3, <2>0
<1>10. \A i \in 1 .. n : SubSeq(statement.args, taken[i - 1] + 1, taken[i]) = pre[i].args
  <2> SUFFICES ASSUME NEW i \in 1 .. n PROVE SubSeq(ap \o al, taken[i - 1] + 1, taken[i]) = pre[i].args
    BY <1>6
  <2>0. i \in 1 .. n + m /\ i \in 0 .. n + m /\ i - 1 \in 0 .. n + m
    BY <1>1
  <2>1. /\ taken[i] = taken[i - 1] + tests[i].arity /\ tests[i].arity \in Nat /\ taken[i] <= Len(ap)
        /\ taken[i] \in Nat /\ taken[i - 1] \in Nat /\ Len(ap) \in Nat
    <3> HIDE DEF n, m, taken, tests, ap
    <3> QED BY <2>0, <1>4, <1>5, <1>7, LenProperties
  <2> DEFINE a == taken[i - 1] + 1
             b == taken[i]
  <2> HIDE DEF taken, tests, ap, al
  <2>2. a \in 1 .. Len(ap) + 1 /\ b \in a - 1 .. Len(ap)
    <3>1. taken[i - 1] <= taken[i]
      BY <2>1
    <3> QED BY <2>1, <3>1, InRange
  <2>3. SubSeq(ap \o al, a, b) = SubSeq(ap, a, b)
    <3> HIDE DEF a, b
    <3> QED BY <2>2, <1>7, <1>9, SliceLeft
  <2> HIDE DEF n
  <2> QED BY <2>3, <1>7
<1>11. \A i \in 1 .. m : SubSeq(statement.args, taken[(n + i) - 1] + 1, taken[n + i]) = late[i].args
  <2> SUFFICES ASSUME NEW i \in 1 .. m PROVE SubSeq(ap \o al, taken[(n + i) - 1] + 1, taken[n + i]) = late[i].args
    BY <1>6
  <2>0. n + i \in 1 .. n + m /\ n + i \in 0 .. n + m /\ (n + i) - 1 \in 0 .. n + m /\ (n + i) - 1 = n + (i - 1) /\ i - 1 \in 0 .. m /\ n \in 0 .. n + m
    BY <1>1
  <2>1. /\ taken[n + i] = taken[(n + i) - 1] + tests[n + i].arity /\ tests[n + i].arity \in Nat
        /\ taken[n + i] - taken[n] <= Len(al)
        /\ taken[n + i] \in Nat /\ taken[(n + i) - 1] \in Nat /\ taken[n] \in Nat /\ taken[n] <= taken[(n + i) - 1]
        /\ Len(al) \in Nat /\ Len(ap) = taken[n]
    <3> HIDE DEF n, m, taken, tests, ap, al
    <3> QED BY <2>0, <1>4, <1>5, <1>7, <1>8, <1>9, LenProperties
  <2> DEFINE a == taken[n + (i - 1)] - taken[n] + 1
             b == taken[n + i] - taken[n]
  <2> HIDE DEF taken, tests, ap, al, n
  <2>a. taken[(n + i) - 1] = taken[n + (i - 1)]
    BY <2>0
  <2>b. /\ taken[n + (i - 1)] \in Nat /\ taken[n + i] \in Nat /\ taken[n] \in Nat
        /\ taken[n + (i - 1)] <= taken[n + i] /\ taken[n] <= taken[n + (i - 1)]
    BY <2>1, <2>a
  <2>c. /\ taken[n + (i - 1)] - taken[n] \in Nat /\ taken[n + i] - taken[n] \in Nat
        /\ taken[n + (i - 1)] - taken[n] <= taken[n + i] - taken[n]
    BY <2>b
  <2>2. a \in 1 .. Len(al) + 1 /\ b \in a - 1 .. Len(al)
    BY <2>1, <2>c, InRange
  <2>3. SubSeq(ap \o al, Len(ap) + a, Len(ap) + b) = SubSeq(al, a, b)
    <3> HIDE DEF a, b
    <3> QED BY <2>2, <1>7, <1>9, SliceRight
  <2>4. Len(ap) + a = taken[(n + i) - 1] + 1 /\ Len(ap) + b = taken[n + i]
    BY <2>b, <2>a, <2>1
  <2>5. SubSeq(al, a, b) = late[i].args
    <3> HIDE DEF m
    <3> QED BY <1>9
  <2> QED BY <2>3, <2>4, <2>5
<1> DEFINE Good(i) == Holds(tests[i].test, SubSeq(statement.args, taken[i - 1] + 1, taken[i]), row)
<1>12. Chosen(statement, row) <=> \A i \in 1 .. n + m : Good(i)
  BY <1>3 DEF Chosen
<1>13. \A i \in 1 .. n : Good(i) <=> Holds(pre[i].test, pre[i].args, row)
  <2> HIDE DEF n, tests, taken
  <2> QED BY <1>3, <1>10
<1>14. \A i \in 1 .. m : Good(n + i) <=> Holds(late[i].test, late[i].args, row)
  <2> HIDE DEF n, m, tests, taken
  <2> QED BY <1>3, <1>11
<1>15. (\A i \in 1 .. n + m : Good(i)) <=> (\A i \in 1 .. n : Good(i)) /\ (\A i \in 1 .. m : Good(n + i))
  <2>1. \A i \in 1 .. n + m : i \in 1 .. n \/ (i - n \in 1 .. m /\ n + (i - n) = i)
    BY <1>1
  <2>2. (\A i \in 1 .. n : i \in 1 .. n + m) /\ (\A i \in 1 .. m : n + i \in 1 .. n + m)
    BY <1>1
  <2> HIDE DEF Good, n, m
  <2>3. ASSUME \A i \in 1 .. n : Good(i), \A i \in 1 .. m : Good(n + i), NEW i \in 1 .. n + m PROVE Good(i)
    <3>1. CASE i \in 1 .. n
      BY <2>3, <3>1
    <3>2. CASE i - n \in 1 .. m /\ n + (i - n) = i
      <4>1. Good(n + (i - n))
        BY <2>3, <3>2
      <4> QED BY <4>1, <3>2
    <3> QED BY <2>1, <3>1, <3>2
  <2> QED BY <2>2, <2>3
<1>16. (\A part \in ToSet(pre) \cup ToSet(late) : Holds(part.test, part.args, row))
         <=> (\A i \in 1 .. n : Holds(pre[i].test, pre[i].args, row))
              /\ (\A i \in 1 .. m : Holds(late[i].test, late[i].args, row))
  <2> HIDE DEF n, m
  <2> QED BY <1>1 DEF ToSet
<1> HIDE DEF Good, n, m
<1> QED BY <1>12, <1>13, <1>14, <1>15, <1>16

-----------------------------------------------------------------------------
(* What single tests of a statement say.                                   *)

(* What a statement is made of: tests, and arguments for their             *)
(* placeholders.                                                           *)
Text == STRING \cup {Unset}
Arg == Int \cup Text \cup [name : Text, index : Int]
Kinds ==
  {"from", "to", "scope", "environment", "trace", "service", "severity", "error", "ok",
   "duration", "buckets", "server", "search", "map", "json"}
Columns == {Unset, "resource", "span", "log", "body"}
Operators == {Unset, "eq", "neq", "contains", "exists", "missing", "gt", "gte", "lt", "lte"}
TestSet == [kind : Kinds, column : Columns, op : Operators, segments : Nat]
Piece == [test : TestSet, args : Seq(Arg)]
AllHold(parts, row) == \A part \in ToSet(parts) : Holds(part.test, part.args, row)

(* A part of the conditions that may be left out.                          *)
LEMMA OnePart ==
  ASSUME NEW c \in BOOLEAN, NEW test \in TestSet, NEW args, c => args \in Seq(Arg)
  PROVE  /\ If(c, Part(test, args)) \in Seq(Piece)
         /\ \A row : AllHold(If(c, Part(test, args)), row) <=> (c => Holds(test, args, row))
<1>1. CASE ~c
  <2>1. If(c, Part(test, args)) = <<>> /\ ToSet(<<>>) = {}
    BY <1>1 DEF If, ToSet
  <2> QED BY <1>1, <2>1, EmptySeq DEF AllHold
<1>2. CASE c
  <2> DEFINE x == [test |-> test, args |-> args]
  <2>1. x \in Piece /\ x.test = test /\ x.args = args
    BY <1>2 DEF Piece
  <2>2. If(c, Part(test, args)) = <<x>>
    BY <1>2 DEF If, Part
  <2> HIDE DEF x
  <2>3. ToSet(<<x>>) = {x} /\ <<x>> \in Seq(Piece)
    BY <2>1 DEF ToSet
  <2> QED BY <1>2, <2>1, <2>2, <2>3 DEF AllHold
<1> QED BY <1>1, <1>2

(* Conditions one after the other hold when both hold.                     *)
LEMMA MoreParts ==
  ASSUME NEW s \in Seq(Piece), NEW t \in Seq(Piece)
  PROVE  /\ s \o t \in Seq(Piece)
         /\ \A row : AllHold(s \o t, row) <=> AllHold(s, row) /\ AllHold(t, row)
<1>1. ToSet(s \o t) = ToSet(s) \cup ToSet(t)
  BY SetOfConcat
<1>2. s \o t \in Seq(Piece)
  BY ConcatProperties
<1> QED BY <1>1, <1>2 DEF AllHold

(* A test that is named by its kind.                                       *)
LEMMA TestIs ==
  ASSUME NEW kind \in Kinds
  PROVE  Test(kind) \in TestSet /\ Test(kind).kind = kind
BY DEF Test, TestSet, Columns, Operators
-----------------------------------------------------------------------------
(* A checked list of a parameter has allowed values only, none twice.      *)
LEMMA ValuesAllowed ==
  ASSUME NEW values \in Seq(Text), NEW allowed, NEW max, ValidList(values, max, allowed)
  PROVE  Values(values) \in Seq(allowed) /\ Distinct(Values(values))
<1>1. CASE values = <<Unset>>
  <2>1. Values(values) = <<>> /\ <<>> \in Seq(allowed)
    BY <1>1 DEF Values
  <2>2. Distinct(<<>>)
    BY DEF Distinct
  <2> QED BY <2>1, <2>2
<1>2. CASE values # <<Unset>>
  <2>1. Unset \notin ToSet(values)
    <3>1. SUFFICES ASSUME Unset \in ToSet(values) PROVE FALSE
      OBVIOUS
    <3>2. Len(values) = 1
      BY <3>1 DEF ValidList
    <3>3. values[1] = Unset
      <4>1. PICK i \in DOMAIN values : values[i] = Unset
        BY <3>1 DEF ToSet
      <4>2. i = 1
        BY <3>2
      <4> QED BY <4>1, <4>2
    <3>4. values = <<values[1]>>
      BY <3>2
    <3> QED BY <3>3, <3>4, <1>2
  <2>2. ToSet(values) \subseteq allowed
    BY <2>1 DEF ValidList
  <2>3. values \in Seq(ToSet(values))
    BY DEF ToSet
  <2>4. values \in Seq(allowed)
    BY <2>2, <2>3, SeqMonotonic
  <2> QED BY <1>2, <2>4, UniqueKeeps DEF Values
<1> QED BY <1>1, <1>2

(* The severity numbers of OpenTelemetry.                                  *)
Severities == 0 .. 24

(* Every band is the range of numbers that the statement binds for it.     *)
LEMMA BandsAreRanges ==
  ASSUME NEW band \in ToSet(Bands)
  PROVE  /\ SeverityRange(band) \in Seq(Int) /\ Len(SeverityRange(band)) = 2
         /\ \A n \in Severities : n \in SeverityRange(band)[1] .. SeverityRange(band)[2] <=> Band(n) = band
<1>1. PICK j \in 1 .. 7 : Bands[j] = band
  BY DEF Bands, ToSet
<1>2. \A a, b \in 1 .. 7 : Bands[a] = Bands[b] => a = b
  BY DEF Bands
<1>3. DOMAIN Bands = 1 .. 7
  BY DEF Bands
<1> DEFINE i == CHOOSE k \in DOMAIN Bands : Bands[k] = band
<1>4. i = j
  BY <1>1, <1>2, <1>3
<1>5. SeverityRange(band) = IF j = 1 THEN <<0, 0>> ELSE <<4 * j - 7, 4 * j - 4>>
  <2>1. SeverityRange(band) = IF i = 1 THEN <<0, 0>> ELSE <<4 * i - 7, 4 * i - 4>>
    BY DEF SeverityRange
  <2> HIDE DEF i
  <2> QED BY <2>1, <1>4
<1> HIDE DEF i
<1>6. ASSUME NEW n \in Severities PROVE Band(n) = Bands[IF n < 1 THEN 1 ELSE IF n >= 21 THEN 7 ELSE (n + 7) \div 4]
  BY DEF Band, Bands
<1>7. ASSUME NEW n \in Severities
      PROVE  (IF n < 1 THEN 1 ELSE IF n >= 21 THEN 7 ELSE (n + 7) \div 4) \in 1 .. 7
  BY DEF Severities
<1>8. ASSUME NEW n \in Severities
      PROVE  (IF n < 1 THEN 1 ELSE IF n >= 21 THEN 7 ELSE (n + 7) \div 4) = j
               <=> (IF j = 1 THEN n = 0 ELSE n \in 4 * j - 7 .. 4 * j - 4)
  BY DEF Severities
<1>9. ASSUME NEW n \in Severities
      PROVE  n \in SeverityRange(band)[1] .. SeverityRange(band)[2] <=> Band(n) = band
  <2> DEFINE b == IF n < 1 THEN 1 ELSE IF n >= 21 THEN 7 ELSE (n + 7) \div 4
  <2>1. Band(n) = Bands[b] /\ b \in 1 .. 7 /\ (b = j <=> IF j = 1 THEN n = 0 ELSE n \in 4 * j - 7 .. 4 * j - 4)
    BY <1>6, <1>7, <1>8
  <2> HIDE DEF b
  <2>2. Band(n) = band <=> b = j
    BY <2>1, <1>1, <1>2
  <2>3. CASE j = 1
    BY <2>1, <2>2, <2>3, <1>5 DEF Severities
  <2>4. CASE j # 1
    BY <2>1, <2>2, <2>4, <1>5 DEF Severities
  <2> QED BY <2>3, <2>4
<1> QED BY <1>5, <1>9

(* The statement's ranges choose the severities whose band was asked for.  *)
LEMMA SeverityHolds ==
  ASSUME NEW bands \in Seq(ToSet(Bands)), NEW row, RowOK(row)
  PROVE  LET args == FlattenSeq([i \in DOMAIN bands |-> SeverityRange(bands[i])])
         IN  /\ args \in Seq(Int)
             /\ Holds(Test("severity"), args, row) <=> Band(row.severity) \in ToSet(bands)
<1> DEFINE n == Len(bands)
           parts == [i \in DOMAIN bands |-> SeverityRange(bands[i])]
           args == FlattenSeq(parts)
           off == [i \in 0 .. n |-> 2 * i]
<1>0. n \in Nat /\ DOMAIN bands = 1 .. n /\ \A i \in 1 .. n : bands[i] \in ToSet(Bands)
  BY LenProperties, ElementOfSeq
<1>1. parts \in Seq(Seq(Int)) /\ Len(parts) = n /\ \A i \in 1 .. n : Len(parts[i]) = 2 /\ parts[i] = SeverityRange(bands[i])
  <2>1. parts \in [1 .. n -> Seq(Int)]
    <3> HIDE DEF n
    <3> QED BY <1>0, BandsAreRanges
  <2>2. \A i \in 1 .. n : parts[i] = SeverityRange(bands[i])
    <3> HIDE DEF n
    <3> QED BY <1>0
  <2> HIDE DEF n, parts
  <2> QED BY <2>1, <2>2, <1>0, IsSequence, BandsAreRanges
<1>2. off \in [0 .. n -> Nat] /\ off[0] = 0 /\ \A i \in 1 .. n : off[i] = off[i - 1] + Len(parts[i])
  <2>1. off \in [0 .. n -> Nat] /\ off[0] = 0
    BY <1>0
  <2>2. ASSUME NEW i \in 1 .. n PROVE off[i] = off[i - 1] + Len(parts[i])
    <3>1. off[i] = 2 * i /\ off[i - 1] = 2 * (i - 1) /\ i \in Int
      BY <1>0
    <3>2. Len(parts[i]) = 2
      BY <1>1
    <3> HIDE DEF off, parts
    <3> QED BY <3>1, <3>2
  <2> QED BY <2>1, <2>2
<1>3. args \in Seq(Int) /\ Len(args) = off[n] /\ \A i \in 1 .. n : SubSeq(args, off[i - 1] + 1, off[i]) = parts[i]
  <2> HIDE DEF n, parts, off
  <2> QED BY <1>1, <1>2, Flattening
<1>4. Len(args) = 2 * n /\ Len(args) \div 2 = n
  <2>1. off[n] = 2 * n
    BY <1>0
  <2>2. Len(args) = 2 * n
    <3> HIDE DEF args, off, n
    <3> QED BY <2>1, <1>3
  <2> HIDE DEF args, off, n
  <2> QED BY <2>2, <1>0
<1>5. ASSUME NEW i \in 1 .. n
      PROVE  args[2 * i - 1] = SeverityRange(bands[i])[1] /\ args[2 * i] = SeverityRange(bands[i])[2]
  <2> HIDE DEF args, parts
  <2>1. off[i - 1] + 1 = 2 * i - 1 /\ off[i] = 2 * i
    BY <1>0
  <2>2. SubSeq(args, 2 * i - 1, 2 * i) = SeverityRange(bands[i])
    <3> HIDE DEF off, n
    <3> QED BY <2>1, <1>1, <1>3
  <2>3. SubSeq(args, 2 * i - 1, 2 * i)[1] = args[2 * i - 1] /\ SubSeq(args, 2 * i - 1, 2 * i)[2] = args[2 * i]
    BY <1>3, <1>4, <1>0
  <2> QED BY <2>2, <2>3
<1>6. Holds(Test("severity"), args, row) <=> \E i \in 1 .. n : row.severity \in args[2 * i - 1] .. args[2 * i]
  <2>1. Test("severity").kind = "severity"
    BY DEF Test
  <2>2. Holds(Test("severity"), args, row) <=>
          \E i \in 1 .. Len(args) \div 2 : row.severity \in args[2 * i - 1] .. args[2 * i]
    <3> HIDE DEF args
    <3> QED BY <2>1 DEF Holds
  <2> HIDE DEF args, n
  <2> QED BY <1>4, <2>2
<1>7. row.severity \in Severities
  BY DEF RowOK, Severities
<1>8. \A i \in 1 .. n : row.severity \in args[2 * i - 1] .. args[2 * i] <=> Band(row.severity) = bands[i]
  <2> HIDE DEF args, n
  <2> QED BY <1>0, <1>5, <1>7, BandsAreRanges
<1>9. Band(row.severity) \in ToSet(bands) <=> \E i \in 1 .. n : Band(row.severity) = bands[i]
  <2> HIDE DEF n
  <2> QED BY <1>0 DEF ToSet
<1> HIDE DEF n, parts
<1>10. Holds(Test("severity"), args, row) <=> Band(row.severity) \in ToSet(bands)
  <2> HIDE DEF args
  <2> QED BY <1>6, <1>8, <1>9
<1> QED BY <1>3, <1>10 DEF parts

-----------------------------------------------------------------------------
(* Paths into JSON documents.                                              *)

(* One segment down a document, by ClickHouse or by the mock store.        *)
NodeStep(fake, node, segment) == IF fake THEN MockChild(node, segment) ELSE Child(node, segment)
Walks(f, n, fake, document, path) ==
  /\ f = [i \in 0 .. n |-> f[i]] /\ f[0] = document
  /\ \A i \in 1 .. n : f[i] = NodeStep(fake, f[i - 1], path[i])

(* A path of any length can be walked, so that the recursive functions     *)
(* below have a value.                                                     *)
LEMMA WalkExists ==
  ASSUME NEW n \in Nat, NEW fake, NEW document, NEW path
  PROVE  \E f : Walks(f, n, fake, document, path)
<1> DEFINE T == {m \in 0 .. n : \E f : Walks(f, m, fake, document, path)}
<1>1. 0 \in T
  <2> DEFINE f == [i \in 0 .. 0 |-> document]
  <2>1. Walks(f, 0, fake, document, path)
    BY DEF Walks
  <2> QED BY <2>1
<1>2. ASSUME NEW i \in 1 .. n, i - 1 \in T PROVE i \in T
  <2>1. PICK g : Walks(g, i - 1, fake, document, path)
    BY <1>2
  <2> DEFINE f == [j \in 0 .. i |-> IF j = i THEN NodeStep(fake, g[i - 1], path[i]) ELSE g[j]]
  <2>2. /\ i \in Nat /\ 0 # i /\ i - 1 # i /\ 0 \in 0 .. i /\ i - 1 \in 0 .. i /\ i \in 0 .. i
        /\ \A j \in 1 .. i : j = i \/ (j \in 1 .. i - 1 /\ j # i /\ j - 1 # i /\ j \in 0 .. i /\ j - 1 \in 0 .. i)
    OBVIOUS
  <2>3. f = [j \in 0 .. i |-> f[j]] /\ f[0] = document /\ f[i] = NodeStep(fake, f[i - 1], path[i])
    BY <2>1, <2>2 DEF Walks
  <2>4. ASSUME NEW j \in 1 .. i, j # i PROVE f[j] = NodeStep(fake, f[j - 1], path[j])
    <3>1. f[j] = g[j] /\ f[j - 1] = g[j - 1] /\ j \in 1 .. i - 1
      BY <2>2, <2>4
    <3> HIDE DEF f
    <3> QED BY <2>1, <3>1 DEF Walks
  <2> HIDE DEF f
  <2>5. Walks(f, i, fake, document, path)
    BY <2>3, <2>4 DEF Walks
  <2> QED BY <2>5
<1>3. \A i \in 1 .. n : i - 1 \in T => i \in T
  BY <1>2
<1> HIDE DEF T
<1>4. \A i \in 0 .. n : i \in T
  BY <1>1, <1>3, Climb
<1> QED BY <1>4 DEF T

(* The nodes the mock store passes on a path, each from the one before.    *)
LEMMA MockNodesAre ==
  ASSUME NEW document, NEW path, Len(path) \in Nat
  PROVE  /\ MockNodes(document, path)[0] = document
         /\ \A i \in 1 .. Len(path) :
              MockNodes(document, path)[i] = MockChild(MockNodes(document, path)[i - 1], path[i])
<1> DEFINE n == Len(path)
           Eq(g) == g = [i \in 0 .. n |-> IF i = 0 THEN document ELSE MockChild(g[i - 1], path[i])]
           k == CHOOSE g : Eq(g)
<1>1. PICK f : Walks(f, n, TRUE, document, path)
  BY WalkExists
<1>2. /\ 0 \in 0 .. n /\ \A i \in 0 .. n : i = 0 \/ i \in 1 .. n
      /\ \A i \in 1 .. n : i \in 0 .. n /\ i # 0
  OBVIOUS
<1>3. \A i \in 0 .. n : f[i] = IF i = 0 THEN document ELSE MockChild(f[i - 1], path[i])
  <2> HIDE DEF n
  <2> QED BY <1>1, <1>2 DEF Walks, NodeStep
<1>4. Eq(f)
  <2>1. f = [i \in 0 .. n |-> f[i]]
    BY <1>1 DEF Walks
  <2> HIDE DEF n
  <2> QED BY <1>3, <2>1
<1>5. Eq(k)
  <2> HIDE DEF Eq
  <2> QED BY <1>4
<1>6. MockNodes(document, path) = k
  BY DEF MockNodes
<1> HIDE DEF k
<1>7. \A i \in 0 .. n : k[i] = IF i = 0 THEN document ELSE MockChild(k[i - 1], path[i])
  BY <1>5
<1> HIDE DEF n, Eq
<1> QED BY <1>2, <1>6, <1>7 DEF n

(* JSONExtract follows a path segment by segment.                          *)
LEMMA ExtractIs ==
  ASSUME NEW document, NEW path, Len(path) \in Nat
  PROVE  \E k : /\ Extract(document, path) = k[Len(path)] /\ k[0] = document
                /\ \A i \in 1 .. Len(path) : k[i] = Child(k[i - 1], path[i])
<1> DEFINE n == Len(path)
           Eq(g) == g = [i \in 0 .. n |-> IF i = 0 THEN document ELSE Child(g[i - 1], path[i])]
           k == CHOOSE g : Eq(g)
<1>1. PICK f : Walks(f, n, FALSE, document, path)
  BY WalkExists
<1>2. /\ 0 \in 0 .. n /\ \A i \in 0 .. n : i = 0 \/ i \in 1 .. n
      /\ \A i \in 1 .. n : i \in 0 .. n /\ i # 0
  OBVIOUS
<1>3. \A i \in 0 .. n : f[i] = IF i = 0 THEN document ELSE Child(f[i - 1], path[i])
  <2> HIDE DEF n
  <2> QED BY <1>1, <1>2 DEF Walks, NodeStep
<1>4. Eq(f)
  <2>1. f = [i \in 0 .. n |-> f[i]]
    BY <1>1 DEF Walks
  <2> HIDE DEF n
  <2> QED BY <1>3, <2>1
<1>5. Eq(k)
  <2> HIDE DEF Eq
  <2> QED BY <1>4
<1>6. Extract(document, path) = k[n]
  BY DEF Extract
<1> HIDE DEF k
<1>7. \A i \in 0 .. n : k[i] = IF i = 0 THEN document ELSE Child(k[i - 1], path[i])
  BY <1>5
<1>8. k[0] = document /\ \A i \in 1 .. n : k[i] = Child(k[i - 1], path[i])
  <2> HIDE DEF n, Eq
  <2> QED BY <1>2, <1>7
<1> QED BY <1>6, <1>8

(* One segment leads to the same node in ClickHouse, which counts elements *)
(* from 1, and in the mock store, which counts from 0, when both take it   *)
(* for an index or both for a name.                                        *)
LEMMA SameChild ==
  ASSUME NEW node, NEW path, NEW i \in DOMAIN path,
         path[i] \in [name : STRING, index : Int, atoi : Int], path[i].index >= -1,
         node.kind = "array" => path[i].atoi = path[i].index,
         node.kind = "object" => path[i].index < 0
  PROVE  Child(node, Segments(path)[i]) = MockChild(node, path[i])
<1> DEFINE g == path[i]
           s == Segments(path)[i]
           k == s.index
           named == {j \in DOMAIN node.members : node.kind = "object" /\ node.members[j].name = s.name}
           mocked == {j \in DOMAIN node.members : node.members[j].name = g.name}
           counted == k > 0 /\ node.kind \in {"array", "object"} /\ k \in DOMAIN node.members
           there == g.atoi >= 0 /\ g.atoi + 1 \in DOMAIN node.members
<1>1. s = IF g.index >= 0 THEN [name |-> Unset, index |-> g.index + 1] ELSE [name |-> g.name, index |-> -1]
  BY DEF Segments
<1>2. Child(node, s) = CASE counted -> node.members[k].value
                         [] k < 0 /\ named # {} -> node.members[CHOOSE j \in named : TRUE].value
                         [] OTHER -> Nothing
  BY DEF Child
<1>3. MockChild(node, g) = CASE node.kind = "array" /\ there -> node.members[g.atoi + 1].value
                             [] node.kind = "object" /\ mocked # {} -> node.members[CHOOSE j \in mocked : TRUE].value
                             [] OTHER -> Nothing
  BY DEF MockChild
<1>4. g.index \in Int /\ g.atoi \in Int /\ g.index >= -1
  OBVIOUS
<1>5. IF g.index >= 0 THEN k = g.index + 1 ELSE k = -1 /\ s.name = g.name
  BY <1>1
<1> HIDE DEF g, s, k
<1>6. CASE node.kind = "array"
  <2>1. g.atoi = g.index
    BY <1>6 DEF g
  <2>2. named = {} /\ node.kind # "object"
    BY <1>6
  <2>3. counted <=> there
    BY <1>4, <1>5, <1>6, <2>1
  <2>4. there => k = g.atoi + 1
    BY <1>5, <2>1
  <2> HIDE DEF named, mocked, counted, there
  <2> QED BY <1>2, <1>3, <1>6, <2>2, <2>3, <2>4 DEF g, s
<1>7. CASE node.kind = "object"
  <2>1. k = -1 /\ s.name = g.name /\ ~(k > 0) /\ k < 0
    BY <1>4, <1>5, <1>7 DEF g
  <2>2. ~counted /\ node.kind # "array"
    BY <1>7, <2>1
  <2>3. named = mocked
    BY <1>7, <2>1
  <2> HIDE DEF named, mocked, counted, there
  <2> QED BY <1>2, <1>3, <1>7, <2>1, <2>2, <2>3 DEF g, s
<1>8. CASE node.kind \notin {"array", "object"}
  <2>1. ~counted /\ named = {} /\ node.kind # "array" /\ node.kind # "object"
    BY <1>8
  <2> HIDE DEF named, mocked, counted, there
  <2> QED BY <1>2, <1>3, <2>1 DEF g, s
<1> QED BY <1>6, <1>7, <1>8

(* The path of a condition leads to the same node in both stores.          *)
LEMMA SameNode ==
  ASSUME NEW c, ConditionOK(c), NEW text \in DOMAIN Parsed, ReadAlike(Parsed[text], PathOf(c))
  PROVE  Extract(Parsed[text], Segments(PathOf(c)))
           = MockNodes(Parsed[text], PathOf(c))[Len(PathOf(c))]
<1> DEFINE path == PathOf(c)
           n == Len(path)
           mocks == MockNodes(Parsed[text], path)
<1>1. /\ path \in Seq([name : STRING, index : Int, atoi : Int]) /\ n \in Nat /\ DOMAIN path = 1 .. n
      /\ \A i \in 1 .. n : path[i] \in [name : STRING, index : Int, atoi : Int] /\ path[i].index >= -1
  BY ElementOfSeq, LenProperties DEF ConditionOK
<1>a. \A i \in 1 .. n : /\ mocks[i - 1].kind = "array" => path[i].atoi = path[i].index
                        /\ mocks[i - 1].kind = "object" => path[i].index < 0
  <2> HIDE DEF n
  <2> QED BY <1>1 DEF ReadAlike
<1>2. Len(Segments(path)) = n
  <2>1. Segments(path) = [i \in 1 .. n |-> Segments(path)[i]]
    BY <1>1 DEF Segments
  <2> HIDE DEF n, path
  <2> QED BY <1>1, <2>1
<1>3. PICK k : /\ Extract(Parsed[text], Segments(path)) = k[n] /\ k[0] = Parsed[text]
               /\ \A i \in 1 .. n : k[i] = Child(k[i - 1], Segments(path)[i])
  <2> DEFINE segments == Segments(path)
  <2>1. Len(segments) \in Nat
    BY <1>1, <1>2
  <2> HIDE DEF segments
  <2>2. \E k : /\ Extract(Parsed[text], segments) = k[Len(segments)] /\ k[0] = Parsed[text]
               /\ \A i \in 1 .. Len(segments) : k[i] = Child(k[i - 1], segments[i])
    BY <2>1, ExtractIs
  <2>3. Len(segments) = n
    BY <1>2 DEF segments
  <2> HIDE DEF n
  <2>4. \E k : /\ Extract(Parsed[text], segments) = k[n] /\ k[0] = Parsed[text]
               /\ \A i \in 1 .. n : k[i] = Child(k[i - 1], segments[i])
    BY <2>2, <2>3
  <2> QED BY <2>4 DEF segments
<1>4. mocks[0] = Parsed[text] /\ \A i \in 1 .. n : mocks[i] = MockChild(mocks[i - 1], path[i])
  <2> HIDE DEF path
  <2> QED BY <1>1, MockNodesAre
<1> DEFINE U == {i \in 0 .. n : k[i] = mocks[i]}
<1>5. 0 \in U
  <2> HIDE DEF n, mocks, path
  <2> QED BY <1>1, <1>3, <1>4
<1>6. ASSUME NEW i \in 1 .. n, i - 1 \in U PROVE i \in U
  <2>1. /\ i \in DOMAIN path /\ path[i] \in [name : STRING, index : Int, atoi : Int] /\ path[i].index >= -1
        /\ mocks[i - 1].kind = "array" => path[i].atoi = path[i].index
        /\ mocks[i - 1].kind = "object" => path[i].index < 0
        /\ i \in 0 .. n
    <3> HIDE DEF n, mocks, path
    <3>1. i \in 0 .. n
      BY <1>1
    <3> QED BY <1>1, <1>a, <3>1
  <2>2. Child(mocks[i - 1], Segments(path)[i]) = MockChild(mocks[i - 1], path[i])
    <3> HIDE DEF n, mocks, path
    <3> QED BY <2>1, SameChild
  <2>3. k[i - 1] = mocks[i - 1]
    BY <1>6
  <2> HIDE DEF n, mocks, path
  <2> QED BY <1>3, <1>4, <2>1, <2>2, <2>3
<1>7. \A i \in 1 .. n : i - 1 \in U => i \in U
  BY <1>6
<1>8. \A i \in 0 .. n : i \in U
  <2> HIDE DEF U, n, mocks
  <2> QED BY <1>1, <1>5, <1>7, Climb
<1>9. k[n] = mocks[n]
  BY <1>8, <1>1
<1> QED BY <1>3, <1>9

(* A slice is known by its elements.                                       *)
LEMMA SliceIs ==
  ASSUME NEW X, NEW a \in Seq(X), NEW s \in Seq(X), NEW g \in Nat, g + Len(s) <= Len(a),
         \A j \in 1 .. Len(s) : a[g + j] = s[j]
  PROVE  SubSeq(a, g + 1, g + Len(s)) = s
<1> DEFINE u == SubSeq(a, g + 1, g + Len(s))
<1>1. Len(s) \in Nat /\ Len(a) \in Nat
  BY LenProperties
<1>2. u \in Seq(X) /\ Len(u) = Len(s) /\ \A j \in 1 .. Len(s) : u[j] = a[g + j]
  BY <1>1
<1> HIDE DEF u
<1>3. u = s
  BY <1>2, SeqEqual
<1> QED BY <1>3 DEF u

(* The elements of a concatenation.                                        *)
Joined(u, q, e) ==
  /\ Len(q) \in Nat /\ Len(e) \in Nat /\ Len(u) = Len(q) + Len(e)
  /\ \A j \in 1 .. Len(q) : u[j] = q[j]
  /\ \A j \in 1 .. Len(e) : u[Len(q) + j] = e[j]

(* A group of arguments appended after others.                             *)
LEMMA AppendedGroup ==
  ASSUME NEW X, NEW q \in Seq(X), NEW e \in Seq(X)
  PROVE  q \o e \in Seq(X) /\ Joined(q \o e, q, e)
<1>1. Len(q) \in Nat /\ Len(e) \in Nat /\ q \o e \in Seq(X) /\ Len(q \o e) = Len(q) + Len(e)
  BY LenProperties, ConcatProperties
<1>2. \A i \in 1 .. Len(q) + Len(e) : (q \o e)[i] = IF i <= Len(q) THEN q[i] ELSE e[i - Len(q)]
  BY ConcatProperties
<1>3. \A j \in 1 .. Len(q) : j \in 1 .. Len(q) + Len(e) /\ j <= Len(q)
  BY <1>1
<1>4. \A j \in 1 .. Len(e) : /\ Len(q) + j \in 1 .. Len(q) + Len(e) /\ ~(Len(q) + j <= Len(q))
                             /\ (Len(q) + j) - Len(q) = j
  BY <1>1
<1>5. \A j \in 1 .. Len(q) : (q \o e)[j] = q[j]
  BY <1>2, <1>3
<1>6. \A j \in 1 .. Len(e) : (q \o e)[Len(q) + j] = e[j]
  BY <1>2, <1>4
<1> QED BY <1>1, <1>5, <1>6 DEF Joined

\* own, four times e, and v.
FourOf(a, own, e, v) ==
  /\ Len(own) \in Nat /\ Len(e) \in Nat /\ Len(a) = Len(own) + 4 * Len(e) + 1 /\ a[Len(a)] = v
  /\ \A j \in 1 .. Len(own) : a[j] = own[j]
  /\ \A j \in 1 .. Len(e) : /\ a[Len(own) + j] = e[j] /\ a[Len(own) + Len(e) + j] = e[j]
                            /\ a[Len(own) + 2 * Len(e) + j] = e[j]
                            /\ a[Len(own) + 3 * Len(e) + j] = e[j]

(* The arguments of a comparison in JSON: the key, four copies of what     *)
(* finds the node, and the value.                                          *)
LEMMA FourGroups ==
  ASSUME NEW X, NEW own \in Seq(X), NEW e \in Seq(X), NEW v \in X
  PROVE  /\ own \o e \o e \o e \o e \o <<v>> \in Seq(X)
         /\ FourOf(own \o e \o e \o e \o e \o <<v>>, own, e, v)
<1> DEFINE o == Len(own)
           w == Len(e)
           b == own \o e
           c == b \o e
           d == c \o e
           f == d \o e
           a == f \o <<v>>
<1>1. o \in Nat /\ w \in Nat
  BY LenProperties
<1>2. /\ b \in Seq(X) /\ Len(b) = o + w
      /\ (\A j \in 1 .. o : b[j] = own[j]) /\ (\A j \in 1 .. w : b[o + j] = e[j])
  <2>2. own \o e \in Seq(X) /\ Joined(own \o e, own, e)
    BY AppendedGroup, Zenon
  <2> QED BY <2>2 DEF Joined
<1>3. /\ c \in Seq(X) /\ Len(c) = Len(b) + w
      /\ (\A j \in 1 .. Len(b) : c[j] = b[j]) /\ (\A j \in 1 .. w : c[Len(b) + j] = e[j])
  <2>1. b \in Seq(X)
    BY <1>2
  <2> HIDE DEF b
  <2>2. b \o e \in Seq(X) /\ Joined(b \o e, b, e)
    BY <2>1, AppendedGroup, Zenon
  <2> QED BY <2>2 DEF Joined
<1>4. /\ d \in Seq(X) /\ Len(d) = Len(c) + w
      /\ (\A j \in 1 .. Len(c) : d[j] = c[j]) /\ (\A j \in 1 .. w : d[Len(c) + j] = e[j])
  <2>1. c \in Seq(X)
    BY <1>3
  <2> HIDE DEF c
  <2>2. c \o e \in Seq(X) /\ Joined(c \o e, c, e)
    BY <2>1, AppendedGroup, Zenon
  <2> QED BY <2>2 DEF Joined
<1>5. /\ f \in Seq(X) /\ Len(f) = Len(d) + w
      /\ (\A j \in 1 .. Len(d) : f[j] = d[j]) /\ (\A j \in 1 .. w : f[Len(d) + j] = e[j])
  <2>1. d \in Seq(X)
    BY <1>4
  <2> HIDE DEF d
  <2>2. d \o e \in Seq(X) /\ Joined(d \o e, d, e)
    BY <2>1, AppendedGroup, Zenon
  <2> QED BY <2>2 DEF Joined
<1>6. /\ a \in Seq(X) /\ Len(a) = Len(f) + 1
      /\ (\A j \in 1 .. Len(f) : a[j] = f[j]) /\ a[Len(f) + 1] = v
  <2> HIDE DEF f
  <2>1. <<v>> \in Seq(X) /\ Len(<<v>>) = 1 /\ <<v>>[1] = v /\ 1 \in 1 .. 1
    OBVIOUS
  <2> DEFINE z == <<v>>
  <2>2. z \in Seq(X) /\ Len(z) = 1 /\ z[1] = v /\ 1 \in 1 .. 1
    OBVIOUS
  <2> HIDE DEF z
  <2>a. f \in Seq(X) /\ z \in Seq(X)
    BY <1>5, <2>2
  <2>3. f \o z \in Seq(X) /\ Joined(f \o z, f, z)
    BY <2>a, AppendedGroup, Zenon
  <2>4. (f \o z)[Len(f) + 1] = v
    BY <2>2, <2>3 DEF Joined
  <2>5. /\ f \o z \in Seq(X) /\ Len(f \o z) = Len(f) + 1
        /\ \A j \in 1 .. Len(f) : (f \o z)[j] = f[j]
    BY <2>2, <2>3 DEF Joined
  <2> QED BY <2>4, <2>5 DEF z
<1> HIDE DEF a, b, c, d, f, o, w
<1>7. Len(b) = o + w /\ Len(c) = o + 2 * w /\ Len(d) = o + 3 * w /\ Len(f) = o + 4 * w /\ Len(a) = o + 4 * w + 1
  BY <1>1, <1>2, <1>3, <1>4, <1>5, <1>6
<1>8. /\ \A j \in 1 .. o : j \in 1 .. Len(b) /\ j \in 1 .. Len(c) /\ j \in 1 .. Len(d) /\ j \in 1 .. Len(f)
      /\ \A j \in 1 .. w : /\ o + j \in 1 .. Len(b) /\ o + j \in 1 .. Len(c) /\ o + j \in 1 .. Len(d) /\ o + j \in 1 .. Len(f)
                           /\ o + w + j \in 1 .. Len(c) /\ o + w + j \in 1 .. Len(d) /\ o + w + j \in 1 .. Len(f)
                           /\ o + 2 * w + j \in 1 .. Len(d) /\ o + 2 * w + j \in 1 .. Len(f)
                           /\ o + 3 * w + j \in 1 .. Len(f)
  BY <1>1, <1>7
<1>9. \A j \in 1 .. o : a[j] = own[j]
  BY <1>2, <1>3, <1>4, <1>5, <1>6, <1>8
<1>10. ASSUME NEW j \in 1 .. w
       PROVE /\ a[o + j] = e[j] /\ a[o + w + j] = e[j] /\ a[o + 2 * w + j] = e[j] /\ a[o + 3 * w + j] = e[j]
  <2>1. a[o + j] = e[j]
    <3>1. b[o + j] = e[j]
      BY <1>2
    <3>2. c[o + j] = b[o + j]
      BY <1>3, <1>8
    <3>3. d[o + j] = c[o + j]
      BY <1>4, <1>8
    <3>4. f[o + j] = d[o + j]
      BY <1>5, <1>8
    <3>5. a[o + j] = f[o + j]
      BY <1>6, <1>8
    <3> QED BY <3>1, <3>2, <3>3, <3>4, <3>5
  <2>2. a[o + w + j] = e[j]
    <3>1. c[o + w + j] = e[j]
      BY <1>3, <1>7
    <3> QED BY <3>1, <1>4, <1>5, <1>6, <1>8
  <2>3. a[o + 2 * w + j] = e[j]
    <3>1. d[o + 2 * w + j] = e[j]
      BY <1>4, <1>7
    <3> QED BY <3>1, <1>5, <1>6, <1>8
  <2>4. a[o + 3 * w + j] = e[j]
    <3>1. f[o + 3 * w + j] = e[j]
      BY <1>5, <1>7
    <3> QED BY <3>1, <1>6, <1>8
  <2> QED BY <2>1, <2>2, <2>3, <2>4
<1>11. a[Len(a)] = v
  BY <1>6
<1>12. a \in Seq(X) /\ a = own \o e \o e \o e \o e \o <<v>>
  BY <1>6 DEF a, b, c, d, f
<1>13. FourOf(a, own, e, v)
  BY <1>1, <1>7, <1>9, <1>10, <1>11 DEF o, w, FourOf
<1> QED BY <1>12, <1>13

-----------------------------------------------------------------------------
(* Conditions on attributes.                                               *)

(* A condition on an attribute or on the body, as the code tells them      *)
(* apart, and the test and the arguments of its part.                      *)
Json(c) == c.scope = "body" \/ c.path # <<>>
Own(c) == If(c.scope # "body", <<c.key>>)
Found(c) == Own(c) \o Segments(PathOf(c))
Numeric == {"gt", "gte", "lt", "lte"}
Wanted(c) == IF c.op \in Numeric THEN Number[c.value] ELSE c.value
AttributeTest(c) ==
  [kind |-> IF Json(c) THEN "json" ELSE "map", column |-> c.scope, op |-> c.op,
   segments |-> Len(PathOf(c))]
AttributeArgs(c) ==
  IF c.op \in {"exists", "missing"} THEN IF Json(c) THEN Own(c) \o Found(c) ELSE <<c.key>>
  ELSE IF Json(c) THEN Own(c) \o Found(c) \o Found(c) \o Found(c) \o Found(c) \o <<Wanted(c)>>
  ELSE <<c.key, c.key, Wanted(c)>>

(* What is added to the statement for a condition.                         *)
LEMMA AttributePartIs ==
  ASSUME NEW c
  PROVE  AttributePart(c) = Part(AttributeTest(c), AttributeArgs(c))
BY Zenon DEF AttributePart, AttributeTest, AttributeArgs, Json, Own, Found, Wanted, Numeric

(* A condition the code accepts.                                           *)
Usable(c) == ConditionOK(c) /\ ValidCondition(c)

(* The arguments of an accepted condition are ones a statement can bind.   *)
LEMMA ArgumentsAre ==
  ASSUME NEW c, Usable(c)
  PROVE  /\ Own(c) \in Seq(Arg) /\ Len(Own(c)) = IF c.scope = "body" THEN 0 ELSE 1
         /\ c.scope # "body" => Own(c)[1] = c.key
         /\ Segments(PathOf(c)) \in Seq(Arg) /\ Len(Segments(PathOf(c))) = Len(PathOf(c))
         /\ Len(PathOf(c)) \in Nat
         /\ Wanted(c) \in Arg /\ AttributeTest(c) \in TestSet /\ AttributeArgs(c) \in Seq(Arg)
         /\ c.value \in Arg
<1> DEFINE path == PathOf(c)
           n == Len(path)
           S == [name : STRING, index : Int, atoi : Int]
           A == [name : Text, index : Int]
<1>1. path \in Seq(S) /\ n \in Nat /\ DOMAIN path = 1 .. n /\ \A i \in 1 .. n : path[i] \in S
  BY LenProperties, ElementOfSeq DEF ConditionOK, Usable
<1>2. c.value \in STRING /\ (c.scope # "body" => c.key \in STRING)
  BY DEF ConditionOK, Usable
<1>3. STRING \subseteq Arg /\ Int \subseteq Arg /\ A \subseteq Arg
  BY DEF Arg, Text
<1>4. /\ Own(c) \in Seq(Arg) /\ Len(Own(c)) = IF c.scope = "body" THEN 0 ELSE 1
      /\ c.scope # "body" => Own(c)[1] = c.key
  <2>1. CASE c.scope = "body"
    BY <2>1 DEF Own, If
  <2>2. CASE c.scope # "body"
    <3>1. c.key \in Arg /\ Own(c) = <<c.key>>
      BY <2>2, <1>2, <1>3 DEF Own, If
    <3> QED BY <3>1, <2>2
  <2> QED BY <2>1, <2>2
<1>5. Segments(path) \in Seq(Arg) /\ Len(Segments(path)) = n
  <2> DEFINE s == [i \in 1 .. n |-> IF path[i].index >= 0 THEN [name |-> Unset, index |-> path[i].index + 1]
                           ELSE [name |-> path[i].name, index |-> -1]]
  <2>1. Segments(path) = s
    BY <1>1 DEF Segments
  <2>2. ASSUME NEW x \in S PROVE (IF x.index >= 0 THEN [name |-> Unset, index |-> x.index + 1]
                             ELSE [name |-> x.name, index |-> -1]) \in A
    BY DEF Text
  <2>3. s \in [1 .. n -> Arg]
    <3> HIDE DEF n, path, S, A
    <3> QED BY <1>1, <1>3, <2>2
  <2> HIDE DEF s, n
  <2>4. s \in Seq(Arg) /\ Len(s) = n
    BY <1>1, <2>3, IsSequence
  <2> QED BY <2>1, <2>4
<1>6. Wanted(c) \in Arg
  <2>1. CASE c.op \in Numeric
    <3>1. c.value \in DOMAIN Number
      BY <2>1 DEF Usable, ValidCondition, Numeric
    <3> QED BY <2>1, <3>1, <1>3, QueryAssumption DEF Wanted
  <2>2. CASE c.op \notin Numeric
    BY <2>2, <1>2, <1>3 DEF Wanted
  <2> QED BY <2>1, <2>2
<1>7. AttributeTest(c) \in TestSet
  <2>1. c.scope \in Columns /\ c.op \in Operators /\ n \in Nat
    BY <1>1 DEF Usable, ValidCondition, Columns, Operators
  <2>2. (IF Json(c) THEN "json" ELSE "map") \in Kinds
    BY DEF Kinds
  <2> HIDE DEF path
  <2> QED BY <2>1, <2>2 DEF AttributeTest, TestSet, path
<1>8. Found(c) \in Seq(Arg)
  BY <1>4, <1>5, ConcatProperties DEF Found
<1>9. AttributeArgs(c) \in Seq(Arg)
  <2>1. CASE Json(c) /\ c.op \in {"exists", "missing"}
    <3>1. AttributeArgs(c) = Own(c) \o Found(c)
      BY <2>1 DEF AttributeArgs
    <3> QED BY <3>1, <1>4, <1>8, ConcatProperties
  <2>2. CASE Json(c) /\ c.op \notin {"exists", "missing"}
    <3>1. AttributeArgs(c) = Own(c) \o Found(c) \o Found(c) \o Found(c) \o Found(c) \o <<Wanted(c)>>
      BY <2>2 DEF AttributeArgs
    <3> QED BY <3>1, <1>4, <1>6, <1>8, FourGroups
  <2>3. CASE ~Json(c)
    <3>1. c.key \in Arg
      BY <2>3, <1>2, <1>3 DEF Json
    <3>2. AttributeArgs(c) = <<c.key>> \/ AttributeArgs(c) = <<c.key, c.key, Wanted(c)>>
      BY <2>3 DEF AttributeArgs
    <3>3. \A x, y \in Arg : <<x>> \in Seq(Arg) /\ <<x, x, y>> \in Seq(Arg)
      OBVIOUS
    <3> QED BY <3>1, <3>2, <3>3, <1>6
  <2> QED BY <2>1, <2>2, <2>3
<1> QED BY <1>1, <1>2, <1>3, <1>4, <1>5, <1>6, <1>7, <1>9

\* The parts of JsonHolds.
OwnOf(test) == IF test.column = "body" THEN 0 ELSE 1
At(test, i) == OwnOf(test) + (i - 1) * (OwnOf(test) + test.segments)
Source(test, a, row, k) ==
  IF OwnOf(test) = 0 THEN row.body
  ELSE IF a[k] \in DOMAIN MapOf(test.column, row) THEN MapOf(test.column, row)[a[k]] ELSE Unset
NodeAt(test, a, row, i) ==
  Extract(Parsed[Source(test, a, row, At(test, i) + 1)],
          SubSeq(a, At(test, i) + OwnOf(test) + 1, At(test, i + 1)))

(* What a JSON test says, each argument read at its own place.             *)
LEMMA JsonHoldsIs ==
  ASSUME NEW test, NEW a, NEW row
  PROVE  JsonHolds(test, a, row) <=>
           /\ Source(test, a, row, 1) \in DOMAIN Parsed
           /\ CASE test.op = "exists" -> NodeAt(test, a, row, 1) # Nothing
                [] test.op = "missing" -> ~(NodeAt(test, a, row, 1) # Nothing)
                [] OTHER -> /\ NodeAt(test, a, row, 1) # Nothing
                            /\ Satisfies(test.op,
                                 IF NodeAt(test, a, row, 2).kind = "string" THEN NodeAt(test, a, row, 3).text
                                 ELSE NodeAt(test, a, row, 4).raw, a[Len(a)])
BY Zenon DEF JsonHolds, Source, NodeAt, At, OwnOf

(* The node the path of a condition leads to.                              *)
NodeOf(row, c) == MockNodes(Parsed[SourceOf(row, c)], PathOf(c))[Len(PathOf(c))]

(* What the mock store asks of a document.                                 *)
LEMMA MockJsonIs ==
  ASSUME NEW c, Usable(c), Json(c), NEW row
  PROVE  MockAttribute(row, c) <=>
           /\ SourceOf(row, c) \in DOMAIN Parsed
           /\ CASE c.op = "exists" -> NodeOf(row, c) # Nothing
                [] c.op = "missing" -> ~(NodeOf(row, c) # Nothing)
                [] OTHER -> NodeOf(row, c) # Nothing /\ Satisfies(c.op, NodeOf(row, c).text, Wanted(c))
<1> DEFINE src == SourceOf(row, c)
           node == NodeOf(row, c)
<1>1. MockAttribute(row, c) <=>
        /\ src \in DOMAIN Parsed
        /\ CASE c.op = "exists" -> node # Nothing
             [] c.op = "missing" -> ~(node # Nothing)
             [] c.op \in {"eq", "neq", "contains"} -> node # Nothing /\ Satisfies(c.op, node.text, c.value)
             [] OTHER -> node # Nothing /\ node.text \in DOMAIN Number /\ Compare(c.op, Number[node.text], Number[c.value])
  BY Zenon DEF MockAttribute, NodeOf, Json, SourceOf
<1>2. c.op \in {"exists", "missing", "eq", "neq", "contains"} \cup Numeric
  BY DEF Usable, ValidCondition, Numeric
<1> HIDE DEF src, node
<1>3. c.op \in {"eq", "neq", "contains"} => Wanted(c) = c.value
  BY DEF Wanted, Numeric
<1>4. c.op \in Numeric => /\ Wanted(c) = Number[c.value]
                          /\ Satisfies(c.op, node.text, Wanted(c)) <=>
                               node.text \in DOMAIN Number /\ Compare(c.op, Number[node.text], Number[c.value])
  BY DEF Wanted, Numeric, Satisfies
<1>5. /\ MockAttribute(row, c) <=>
           /\ src \in DOMAIN Parsed
           /\ CASE c.op = "exists" -> node # Nothing
                [] c.op = "missing" -> ~(node # Nothing)
                [] OTHER -> node # Nothing /\ Satisfies(c.op, node.text, Wanted(c))
  <2>1. CASE c.op = "exists"
    BY <1>1, <2>1
  <2>2. CASE c.op = "missing"
    BY <1>1, <2>2
  <2>3. CASE c.op \in {"eq", "neq", "contains"}
    BY <1>1, <2>3, <1>3
  <2>4. CASE c.op \in Numeric
    BY <1>1, <2>4, <1>4 DEF Numeric
  <2> QED BY <1>2, <2>1, <2>2, <2>3, <2>4
<1> QED BY <1>5 DEF src, node

(* A JSON condition holds in ClickHouse when it holds in the mock store,   *)
(* of a row whose document both read alike.                                *)
LEMMA JsonAgrees ==
  ASSUME NEW c, Usable(c), Json(c), NEW row, Readable(row, c)
  PROVE  JsonHolds(AttributeTest(c), AttributeArgs(c), row) <=> MockAttribute(row, c)
<1> DEFINE test == AttributeTest(c)
           a == AttributeArgs(c)
           own == Own(c)
           s == Segments(PathOf(c))
           e == Found(c)
           o == Len(own)
           w == Len(e)
           v == Wanted(c)
           src == SourceOf(row, c)
           node == NodeOf(row, c)
           brief == c.op \in {"exists", "missing"}
<1>1. /\ own \in Seq(Arg) /\ o = (IF c.scope = "body" THEN 0 ELSE 1) /\ s \in Seq(Arg) /\ v \in Arg
      /\ c.scope # "body" => own[1] = c.key
      /\ Len(s) = Len(PathOf(c)) /\ Len(s) \in Nat /\ o \in Nat /\ a \in Seq(Arg)
  BY ArgumentsAre
<1>2. /\ test.column = c.scope /\ test.op = c.op /\ test.segments = Len(s) /\ OwnOf(test) = o
  BY <1>1 DEF AttributeTest, OwnOf
<1>3. /\ e \in Seq(Arg) /\ w = o + Len(s) /\ w \in Nat
      /\ (\A j \in 1 .. o : e[j] = own[j]) /\ \A j \in 1 .. Len(s) : e[o + j] = s[j]
  <2> HIDE DEF own, s
  <2>1. own \o s \in Seq(Arg) /\ Joined(own \o s, own, s)
    BY <1>1, AppendedGroup, Zenon
  <2>2. e = own \o s
    BY DEF own, s, Found
  <2> HIDE DEF e
  <2> QED BY <2>1, <2>2, <1>1 DEF Joined
<1>4. /\ Len(a) >= o + w /\ (\A j \in 1 .. o : a[j] = own[j]) /\ \A j \in 1 .. w : a[o + j] = e[j]
      /\ ~brief => /\ Len(a) = o + 4 * w + 1 /\ a[Len(a)] = v
                   /\ \A j \in 1 .. w : /\ a[o + w + j] = e[j] /\ a[o + 2 * w + j] = e[j]
                                        /\ a[o + 3 * w + j] = e[j]
  <2>1. CASE brief
    <3>1. a = own \o e
      BY <2>1 DEF AttributeArgs
    <3> HIDE DEF a, own, e
    <3>2. own \o e \in Seq(Arg) /\ Joined(own \o e, own, e)
      BY <1>1, <1>3, AppendedGroup, Zenon
    <3> HIDE DEF brief
    <3> QED BY <2>1, <3>1, <3>2 DEF Joined
  <2>2. CASE ~brief
    <3>1. a = own \o e \o e \o e \o e \o <<v>>
      BY <2>2 DEF AttributeArgs
    <3> HIDE DEF a, own, e, v
    <3> DEFINE b == own \o e \o e \o e \o e \o <<v>>
    <3>2. FourOf(b, own, e, v)
      BY <1>1, <1>3, FourGroups
    <3>3. a = b
      BY <3>1
    <3> HIDE DEF b, brief
    <3>4. o + 4 * w + 1 >= o + w
      BY <1>1, <1>3
    <3> QED BY <2>2, <3>2, <3>3, <3>4 DEF FourOf
  <2> QED BY <2>1, <2>2
<1> HIDE DEF a, own, s, e, o, w, v, test
<1>5. src \in DOMAIN Parsed => Extract(Parsed[src], s) = node
  BY SameNode DEF s, Usable, NodeOf, Readable, Json
<1>b. src \in DOMAIN Parsed => node.kind = "string" \/ node.raw = node.text
  BY DEF NodeOf, Readable, ReadAlike, Json
<1>6. /\ At(test, 1) = o /\ At(test, 2) = o + w /\ At(test, 3) = o + 2 * w
      /\ At(test, 4) = o + 3 * w /\ At(test, 5) = o + 4 * w
  BY <1>1, <1>2, <1>3 DEF At
<1>7. ASSUME NEW g \in Nat, g + w <= Len(a), \A j \in 1 .. w : a[g + j] = e[j]
      PROVE  /\ Source(test, a, row, g + 1) = src
             /\ SubSeq(a, g + o + 1, g + w) = s
  <2>1. Source(test, a, row, g + 1) = src
    <3>1. CASE c.scope = "body"
      BY <3>1, <1>1, <1>2 DEF Source, SourceOf
    <3>2. CASE c.scope # "body"
      <4>1. o = 1 /\ 1 \in 1 .. w /\ 1 \in 1 .. o
        BY <3>2, <1>1, <1>3
      <4>2. a[g + 1] = c.key
        BY <4>1, <1>7, <1>1, <1>3, <3>2
      <4> QED BY <4>1, <4>2, <3>2, <1>2 DEF Source, SourceOf
    <3> QED BY <3>1, <3>2
  <2>2. SubSeq(a, g + o + 1, g + w) = s
    <3> DEFINE h == g + o
    <3>1. h \in Nat /\ h + Len(s) <= Len(a) /\ h + Len(s) = g + w
      BY <1>1, <1>3, <1>7
    <3>2. \A j \in 1 .. Len(s) : a[h + j] = s[j]
      <4>0. \A k, l, u \in Nat : \A j \in 1 .. l : k + j \in 1 .. k + l /\ u + (k + j) = u + k + j
        OBVIOUS
      <4>a. o \in Nat /\ Len(s) \in Nat /\ w = o + Len(s)
        BY <1>1, <1>3
      <4>1. \A j \in 1 .. Len(s) : o + j \in 1 .. w /\ g + (o + j) = h + j
        BY <4>0, <4>a
      <4> HIDE DEF h
      <4> QED BY <4>1, <1>3, <1>7
    <3> HIDE DEF h
    <3>3. SubSeq(a, h + 1, h + Len(s)) = s
      BY <3>1, <3>2, <1>1, SliceIs
    <3> QED BY <3>1, <3>3 DEF h
  <2> QED BY <2>1, <2>2
<1>8. /\ Source(test, a, row, 1) = src
      /\ src \in DOMAIN Parsed => NodeAt(test, a, row, 1) = node
  <2>1. Source(test, a, row, 1) = src
    <3>1. CASE c.scope = "body"
      BY <3>1, <1>1, <1>2 DEF Source, SourceOf
    <3>2. CASE c.scope # "body"
      <4>1. a[1] = c.key /\ o = 1
        BY <3>2, <1>1, <1>4
      <4> QED BY <4>1, <3>2, <1>2 DEF Source, SourceOf
    <3> QED BY <3>1, <3>2
  <2>2. /\ Source(test, a, row, o + 1) = src /\ SubSeq(a, o + o + 1, o + w) = s
    BY <1>1, <1>3, <1>4, <1>7
  <2>3. At(test, 1) = o /\ At(test, 1 + 1) = o + w
    BY <1>6
  <2>4. NodeAt(test, a, row, 1) = Extract(Parsed[src], s)
    BY <1>2, <2>2, <2>3 DEF NodeAt
  <2> QED BY <2>1, <2>4, <1>5
<1>9. ~brief /\ src \in DOMAIN Parsed =>
        /\ NodeAt(test, a, row, 2) = node /\ NodeAt(test, a, row, 3) = node /\ NodeAt(test, a, row, 4) = node
        /\ a[Len(a)] = v
  <2> SUFFICES ASSUME ~brief, src \in DOMAIN Parsed
               PROVE  /\ NodeAt(test, a, row, 2) = node /\ NodeAt(test, a, row, 3) = node
                      /\ NodeAt(test, a, row, 4) = node /\ a[Len(a)] = v
    OBVIOUS
  <2>1. /\ Len(a) = o + 4 * w + 1 /\ a[Len(a)] = v
        /\ \A j \in 1 .. w : a[o + w + j] = e[j] /\ a[o + 2 * w + j] = e[j] /\ a[o + 3 * w + j] = e[j]
    BY <1>4
  <2>2. NodeAt(test, a, row, 2) = node
    <3> DEFINE g == o + w
    <3>1. g \in Nat /\ g + w <= Len(a) /\ \A j \in 1 .. w : a[g + j] = e[j]
      BY <2>1, <1>1, <1>3
    <3>2. Source(test, a, row, g + 1) = src /\ SubSeq(a, g + o + 1, g + w) = s
      <4> HIDE DEF g
      <4> QED BY <3>1, <1>7
    <3>3. g + w = o + 2 * w
      BY <1>1, <1>3
    <3>4. At(test, 2) = g /\ At(test, 2 + 1) = g + w
      BY <1>6, <3>3
    <3> HIDE DEF g
    <3> QED BY <1>2, <1>5, <3>2, <3>4 DEF NodeAt
  <2>3. NodeAt(test, a, row, 3) = node
    <3> DEFINE g == o + 2 * w
    <3>1. g \in Nat /\ g + w <= Len(a) /\ \A j \in 1 .. w : a[g + j] = e[j]
      BY <2>1, <1>1, <1>3
    <3>2. Source(test, a, row, g + 1) = src /\ SubSeq(a, g + o + 1, g + w) = s
      <4> HIDE DEF g
      <4> QED BY <3>1, <1>7
    <3>3. g + w = o + 3 * w
      BY <1>1, <1>3
    <3>4. At(test, 3) = g /\ At(test, 3 + 1) = g + w
      BY <1>6, <3>3
    <3> HIDE DEF g
    <3> QED BY <1>2, <1>5, <3>2, <3>4 DEF NodeAt
  <2>4. NodeAt(test, a, row, 4) = node
    <3> DEFINE g == o + 3 * w
    <3>1. g \in Nat /\ g + w <= Len(a) /\ \A j \in 1 .. w : a[g + j] = e[j]
      BY <2>1, <1>1, <1>3
    <3>2. Source(test, a, row, g + 1) = src /\ SubSeq(a, g + o + 1, g + w) = s
      <4> HIDE DEF g
      <4> QED BY <3>1, <1>7
    <3>3. g + w = o + 4 * w
      BY <1>1, <1>3
    <3>4. At(test, 4) = g /\ At(test, 4 + 1) = g + w
      BY <1>6, <3>3
    <3> HIDE DEF g
    <3> QED BY <1>2, <1>5, <3>2, <3>4 DEF NodeAt
  <2> QED BY <2>1, <2>2, <2>3, <2>4
<1>10. CASE src \notin DOMAIN Parsed
  <2>1. ~MockAttribute(row, c)
    BY <1>10, MockJsonIs
  <2>2. ~JsonHolds(test, a, row)
    BY <1>8, <1>10, JsonHoldsIs
  <2> QED BY <2>1, <2>2 DEF test, a
<1>11. CASE src \in DOMAIN Parsed
  <2>b. node.kind = "string" \/ node.raw = node.text
    BY <1>b, <1>11
  <2> HIDE DEF src, node
  <2>1. NodeAt(test, a, row, 1) = node /\ Source(test, a, row, 1) = src /\ test.op = c.op
    BY <1>2, <1>8, <1>11
  <2>2. JsonHolds(test, a, row) <=>
          CASE c.op = "exists" -> node # Nothing
            [] c.op = "missing" -> ~(node # Nothing)
            [] OTHER -> node # Nothing /\ Satisfies(c.op, node.text, v)
    <3>1. CASE c.op = "exists"
      BY <3>1, <2>1, <1>11, JsonHoldsIs
    <3>2. CASE c.op = "missing"
      BY <3>2, <2>1, <1>11, JsonHoldsIs
    <3>3. CASE ~brief
      <4>1. /\ NodeAt(test, a, row, 2) = node /\ NodeAt(test, a, row, 3) = node
            /\ NodeAt(test, a, row, 4) = node /\ a[Len(a)] = v
        BY <1>9, <1>11, <3>3
      <4>2. (IF NodeAt(test, a, row, 2).kind = "string" THEN NodeAt(test, a, row, 3).text
             ELSE NodeAt(test, a, row, 4).raw) = node.text
        BY <4>1, <2>b
      <4>3. c.op # "exists" /\ c.op # "missing"
        BY <3>3
      <4>4. JsonHolds(test, a, row) <=> NodeAt(test, a, row, 1) # Nothing /\ Satisfies(c.op,
              IF NodeAt(test, a, row, 2).kind = "string" THEN NodeAt(test, a, row, 3).text
              ELSE NodeAt(test, a, row, 4).raw, a[Len(a)])
        BY <4>3, <2>1, <1>11, JsonHoldsIs
      <4> QED BY <4>1, <4>2, <4>3, <4>4, <2>1
    <3> QED BY <3>1, <3>2, <3>3
  <2>3. MockAttribute(row, c) <=>
          CASE c.op = "exists" -> node # Nothing
            [] c.op = "missing" -> ~(node # Nothing)
            [] OTHER -> node # Nothing /\ Satisfies(c.op, node.text, v)
    BY <1>11, MockJsonIs DEF src, node, v
  <2> QED BY <2>2, <2>3 DEF test, a
<1> QED BY <1>10, <1>11

(* So does a condition on a plain attribute.                               *)
LEMMA MapAgrees ==
  ASSUME NEW c, Usable(c), ~Json(c), NEW row
  PROVE  MapHolds(AttributeTest(c), AttributeArgs(c), row) <=> MockAttribute(row, c)
<1> DEFINE test == AttributeTest(c)
           a == AttributeArgs(c)
           m == MapOf(c.scope, row)
           v == Wanted(c)
<1>1. test.column = c.scope /\ test.op = c.op /\ c.scope # "body" /\ c.path = <<>>
  BY DEF AttributeTest, Json
<1>2. c.op \in {"exists", "missing", "eq", "neq", "contains"} \cup Numeric
  BY DEF Usable, ValidCondition, Numeric
<1>3. MockAttribute(row, c) <=>
        CASE c.op = "exists" -> c.key \in DOMAIN m
          [] c.op = "missing" -> ~(c.key \in DOMAIN m)
          [] c.op \in {"eq", "neq", "contains"} -> c.key \in DOMAIN m /\ Satisfies(c.op, IF c.key \in DOMAIN m THEN m[c.key] ELSE Unset, c.value)
          [] OTHER -> /\ c.key \in DOMAIN m /\ (IF c.key \in DOMAIN m THEN m[c.key] ELSE Unset) \in DOMAIN Number
                      /\ Compare(c.op, Number[IF c.key \in DOMAIN m THEN m[c.key] ELSE Unset], Number[c.value])
  <2>1. ~(c.scope = "body" \/ c.path # <<>>) /\ c.scope # "body"
    BY <1>1
  <2> QED BY <2>1 DEF MockAttribute, SourceOf
<1> HIDE DEF m
<1>4. CASE c.op \in {"exists", "missing"}
  <2>1. a = <<c.key>>
    BY <1>4 DEF AttributeArgs
  <2>2. a[1] = c.key
    BY <2>1
  <2> HIDE DEF a, test
  <2>3. MapHolds(test, a, row) <=> IF c.op = "exists" THEN c.key \in DOMAIN m ELSE c.key \notin DOMAIN m
    BY <1>1, <1>4, <2>2 DEF MapHolds, m
  <2>4. MockAttribute(row, c) <=> IF c.op = "exists" THEN c.key \in DOMAIN m ELSE c.key \notin DOMAIN m
    BY <1>3, <1>4
  <2> QED BY <2>3, <2>4 DEF a, test
<1>5. CASE c.op \notin {"exists", "missing"}
  <2>1. a = <<c.key, c.key, v>>
    BY <1>5 DEF AttributeArgs
  <2>2. a[1] = c.key /\ a[2] = c.key /\ a[3] = v
    BY <2>1
  <2> HIDE DEF a, test, v
  <2>3. MapHolds(test, a, row) <=> c.key \in DOMAIN m /\ Satisfies(c.op, m[c.key], v)
    BY <1>1, <1>5, <2>2 DEF MapHolds, m
  <2>4. CASE c.op \in {"eq", "neq", "contains"}
    <3>1. v = c.value
      BY <2>4 DEF v, Wanted, Numeric
    <3>2. MockAttribute(row, c) <=> c.key \in DOMAIN m /\ Satisfies(c.op, m[c.key], c.value)
      BY <1>3, <2>4
    <3> QED BY <2>3, <3>1, <3>2 DEF a, test
  <2>5. CASE c.op \in Numeric
    <3>1. v = Number[c.value]
      BY <2>5 DEF v, Wanted
    <3>2. c.key \in DOMAIN m =>
           (Satisfies(c.op, m[c.key], v) <=>
             m[c.key] \in DOMAIN Number /\ Compare(c.op, Number[m[c.key]], Number[c.value]))
      BY <2>5, <3>1 DEF Satisfies, Numeric
    <3>3. MockAttribute(row, c) <=> /\ c.key \in DOMAIN m /\ m[c.key] \in DOMAIN Number
                                    /\ Compare(c.op, Number[m[c.key]], Number[c.value])
      BY <1>3, <2>5 DEF Numeric
    <3> QED BY <2>3, <3>2, <3>3 DEF a, test
  <2> QED BY <1>2, <1>5, <2>4, <2>5
<1> QED BY <1>4, <1>5

(* What a condition asks of a row, as its part of the statement has it.    *)
LEMMA SqlAttributeIs ==
  ASSUME NEW c, NEW row
  PROVE  SqlAttribute(row, c) <=> Holds(AttributeTest(c), AttributeArgs(c), row)
<1> DEFINE piece == [test |-> AttributeTest(c), args |-> AttributeArgs(c)]
<1>1. AttributePart(c)[1] = piece
  BY AttributePartIs DEF Part
<1>2. piece.test = AttributeTest(c) /\ piece.args = AttributeArgs(c)
  OBVIOUS
<1> HIDE DEF piece
<1> QED BY <1>1, <1>2 DEF SqlAttribute

(* And so does every condition on an attribute of a row read alike.        *)
LEMMA AttributeHolds ==
  ASSUME NEW c, Usable(c), NEW row, Readable(row, c)
  PROVE  SqlAttribute(row, c) <=> MockAttribute(row, c)
<1> DEFINE test == AttributeTest(c)
           a == AttributeArgs(c)
<1>1. test.kind = IF Json(c) THEN "json" ELSE "map"
  BY DEF AttributeTest
<1>2. Holds(test, a, row) <=> IF Json(c) THEN JsonHolds(test, a, row) ELSE MapHolds(test, a, row)
  <2> HIDE DEF test, a
  <2>1. CASE Json(c)
    <3>1. test.kind = "json"
      BY <1>1, <2>1
    <3> QED BY <2>1, <3>1 DEF Holds
  <2>2. CASE ~Json(c)
    <3>1. test.kind = "map"
      BY <1>1, <2>2
    <3> QED BY <2>2, <3>1 DEF Holds
  <2> QED BY <2>1, <2>2
<1> QED BY <1>2, SqlAttributeIs, JsonAgrees, MapAgrees

-----------------------------------------------------------------------------
(* A question, once it is accepted.                                        *)

(* What the code has made sure of when it builds a statement.              *)
RequestOK(r) ==
  /\ r.signal \in {"logs", "traces"} /\ {r.scope, r.env, r.trace, r.search} \subseteq Text
  /\ r.from \in Int /\ r.to \in Int /\ r.minDuration \in Nat
  /\ r.services \in Seq(Text) /\ r.severities \in Seq(ToSet(Bands))
  /\ r.statuses \in Seq({"ok", "error"}) /\ Distinct(r.statuses)
  /\ Len(r.attributes) \in Nat /\ DOMAIN r.attributes = 1 .. Len(r.attributes)
  /\ \A i \in DOMAIN r.attributes : Usable(r.attributes[i])

(* An accepted question becomes such a request.                            *)
LEMMA RequestIs ==
  ASSUME NEW p, QuestionOK(p), Accepted(p, Scope)
  PROVE  RequestOK(Discovering(Parse(p, Scope)))
<1> DEFINE q == Parse(p, Scope)
           r == Discovering(q)
<1>1. /\ p.signal \in {"logs", "traces"} /\ {p.q, p.env, p.trace} \subseteq STRING
      /\ {p.from, p.to, p.limit, p.offset, p.minDuration} \subseteq Int
      /\ p.service \in Seq(STRING) /\ p.severity \in Seq(STRING) /\ p.status \in Seq(STRING)
      /\ p.attributes \in Seq(ToSet(p.attributes))
  BY DEF QuestionOK
<1>2. /\ ValidList(p.service, 20, ToSet(p.service)) /\ ValidList(p.severity, 7, ToSet(Bands))
      /\ ValidList(p.status, 2, {"ok", "error"}) /\ p.minDuration >= 0
      /\ \A c \in ToSet(p.attributes) : Usable(c)
  BY DEF QuestionOK, Accepted, ValidParameters, Usable
<1>3. STRING \subseteq Text
  BY DEF Text
<1>4. p.service \in Seq(Text) /\ p.severity \in Seq(Text) /\ p.status \in Seq(Text)
  BY <1>1, <1>3, SeqMonotonic
<1>5. /\ Values(p.service) \in Seq(Text) /\ Values(p.severity) \in Seq(ToSet(Bands))
      /\ Values(p.status) \in Seq({"ok", "error"}) /\ Distinct(Values(p.status))
  <2>1. Values(p.service) \in Seq(ToSet(p.service))
    BY <1>2, <1>4, ValuesAllowed
  <2>2. ToSet(p.service) \subseteq Text
    BY <1>4 DEF ToSet
  <2>3. Values(p.service) \in Seq(Text)
    BY <2>1, <2>2, SeqMonotonic
  <2> QED BY <2>3, <1>2, <1>4, ValuesAllowed
<1>6. /\ Len(p.attributes) \in Nat /\ DOMAIN p.attributes = 1 .. Len(p.attributes)
      /\ \A i \in DOMAIN p.attributes : Usable(p.attributes[i])
  BY <1>1, <1>2, LenProperties DEF ToSet
<1>7. From(p) \in Int
  BY <1>1, QueryAssumption DEF From
<1>8. Scope \in Text
  BY <1>3, ServiceAssumption
<1>9. Unset \in Text
  BY DEF Text
<1>10. /\ q.signal = p.signal /\ q.operation = p.operation /\ q.scope = Scope /\ q.env = p.env /\ q.trace = p.trace
       /\ (q.search = p.q \/ q.search = Unset)
       /\ (q.attributes = p.attributes \/ q.attributes = <<>>)
       /\ q.from = From(p) /\ q.to = p.to /\ q.minDuration = p.minDuration
       /\ q.services = Values(p.service) /\ q.severities = Values(p.severity) /\ q.statuses = Values(p.status)
  BY DEF Parse
<1>11. /\ r.signal = q.signal /\ r.scope = q.scope /\ r.env = q.env /\ r.trace = q.trace
       /\ (r.search = q.search \/ r.search = Unset)
       /\ (r.attributes = q.attributes \/ r.attributes = <<>>)
       /\ r.from = q.from /\ r.to = q.to /\ (r.minDuration = q.minDuration \/ r.minDuration = 0)
       /\ r.services = q.services /\ (r.severities = q.severities \/ r.severities = <<>>)
       /\ (r.statuses = q.statuses \/ r.statuses = <<>>)
  BY DEF Discovering, Parse
<1>12. Len(<<>>) \in Nat /\ DOMAIN <<>> = 1 .. Len(<<>>) /\ DOMAIN <<>> = {} /\ Distinct(<<>>)
  BY DEF Distinct
<1> HIDE DEF q, r
<1>13. {r.scope, r.env, r.trace, r.search} \subseteq Text
  BY <1>1, <1>3, <1>8, <1>9, <1>10, <1>11
<1>14. r.signal \in {"logs", "traces"} /\ r.from \in Int /\ r.to \in Int /\ r.minDuration \in Nat
  BY <1>1, <1>2, <1>7, <1>10, <1>11
<1>15. /\ r.services \in Seq(Text) /\ r.severities \in Seq(ToSet(Bands))
       /\ r.statuses \in Seq({"ok", "error"}) /\ Distinct(r.statuses)
  BY <1>5, <1>10, <1>11, <1>12, EmptySeq
<1>16. /\ Len(r.attributes) \in Nat /\ DOMAIN r.attributes = 1 .. Len(r.attributes)
       /\ \A i \in DOMAIN r.attributes : Usable(r.attributes[i])
  BY <1>6, <1>10, <1>11, <1>12
<1> QED BY <1>13, <1>14, <1>15, <1>16 DEF RequestOK, q, r

\* The five-minute buckets take nothing away from the window.
LEMMA FloorMonotone ==
  ASSUME NEW a \in Int, NEW b \in Int, NEW unit \in Nat \ {0}, a <= b
  PROVE  Floor(a, unit) <= Floor(b, unit) /\ Floor(a, unit) \in Int /\ Floor(b, unit) \in Int
<1>1. a - (a % unit) <= b - (b % unit) /\ a - (a % unit) \in Int /\ b - (b % unit) \in Int
  OBVIOUS
<1> QED BY <1>1 DEF Floor

-----------------------------------------------------------------------------
(* The clauses of a statement.                                             *)

(* What the single tests say.                                              *)
LEMMA SimpleTests ==
  ASSUME NEW row, NEW x
  PROVE  /\ Holds(Test("from"), <<x>>, row) <=> row.time >= x
         /\ Holds(Test("to"), <<x>>, row) <=> row.time < x
         /\ Holds(Test("scope"), <<x>>, row) <=> row.scope = x
         /\ Holds(Test("environment"), <<x>>, row) <=> row.env = x
         /\ Holds(Test("trace"), <<x>>, row) <=> row.trace = x
         /\ Holds(Test("service"), x, row) <=> row.service \in ToSet(x)
         /\ Holds(Test("error"), <<>>, row) <=> row.error
         /\ Holds(Test("ok"), <<>>, row) <=> ~row.error
         /\ Holds(Test("duration"), <<x>>, row) <=> row.duration >= x
         /\ Holds(Test("server"), <<>>, row) <=> row.server
         /\ Holds(Test("search"), <<x, x, x>>, row) <=> (Has(row.text, x) \/ Has(row.service, x) \/ Has(row.trace, x))
<1>0. \A kind : Test(kind).kind = kind
  BY DEF Test
<1>1. <<x>>[1] = x /\ <<x, x, x>>[1] = x /\ <<x, x, x>>[2] = x /\ <<x, x, x>>[3] = x
  OBVIOUS
<1>2. Holds(Test("from"), <<x>>, row) <=> row.time >= x
  <2> DEFINE t == Test("from")
  <2>1. t.kind = "from"
    BY <1>0
  <2> HIDE DEF t
  <2>2. Holds(t, <<x>>, row) <=> row.time >= x
    BY <2>1, <1>1 DEF Holds
  <2> QED BY <2>2 DEF t
<1>3. Holds(Test("to"), <<x>>, row) <=> row.time < x
  <2> DEFINE t == Test("to")
  <2>1. t.kind = "to"
    BY <1>0
  <2> HIDE DEF t
  <2>2. Holds(t, <<x>>, row) <=> row.time < x
    BY <2>1, <1>1 DEF Holds
  <2> QED BY <2>2 DEF t
<1>4. Holds(Test("scope"), <<x>>, row) <=> row.scope = x
  <2> DEFINE t == Test("scope")
  <2>1. t.kind = "scope"
    BY <1>0
  <2> HIDE DEF t
  <2>2. Holds(t, <<x>>, row) <=> row.scope = x
    BY <2>1, <1>1 DEF Holds
  <2> QED BY <2>2 DEF t
<1>5. Holds(Test("environment"), <<x>>, row) <=> row.env = x
  <2> DEFINE t == Test("environment")
  <2>1. t.kind = "environment"
    BY <1>0
  <2> HIDE DEF t
  <2>2. Holds(t, <<x>>, row) <=> row.env = x
    BY <2>1, <1>1 DEF Holds
  <2> QED BY <2>2 DEF t
<1>6. Holds(Test("trace"), <<x>>, row) <=> row.trace = x
  <2> DEFINE t == Test("trace")
  <2>1. t.kind = "trace"
    BY <1>0
  <2> HIDE DEF t
  <2>2. Holds(t, <<x>>, row) <=> row.trace = x
    BY <2>1, <1>1 DEF Holds
  <2> QED BY <2>2 DEF t
<1>7. Holds(Test("service"), x, row) <=> row.service \in ToSet(x)
  <2> DEFINE t == Test("service")
  <2>1. t.kind = "service"
    BY <1>0
  <2> HIDE DEF t
  <2>2. Holds(t, x, row) <=> row.service \in ToSet(x)
    BY <2>1, <1>1 DEF Holds
  <2> QED BY <2>2 DEF t
<1>8. Holds(Test("error"), <<>>, row) <=> row.error
  <2> DEFINE t == Test("error")
  <2>1. t.kind = "error"
    BY <1>0
  <2> HIDE DEF t
  <2>2. Holds(t, <<>>, row) <=> row.error
    BY <2>1, <1>1 DEF Holds
  <2> QED BY <2>2 DEF t
<1>9. Holds(Test("ok"), <<>>, row) <=> ~row.error
  <2> DEFINE t == Test("ok")
  <2>1. t.kind = "ok"
    BY <1>0
  <2> HIDE DEF t
  <2>2. Holds(t, <<>>, row) <=> ~row.error
    BY <2>1, <1>1 DEF Holds
  <2> QED BY <2>2 DEF t
<1>10. Holds(Test("duration"), <<x>>, row) <=> row.duration >= x
  <2> DEFINE t == Test("duration")
  <2>1. t.kind = "duration"
    BY <1>0
  <2> HIDE DEF t
  <2>2. Holds(t, <<x>>, row) <=> row.duration >= x
    BY <2>1, <1>1 DEF Holds
  <2> QED BY <2>2 DEF t
<1>11. Holds(Test("server"), <<>>, row) <=> row.server
  <2> DEFINE t == Test("server")
  <2>1. t.kind = "server"
    BY <1>0
  <2> HIDE DEF t
  <2>2. Holds(t, <<>>, row) <=> row.server
    BY <2>1, <1>1 DEF Holds
  <2> QED BY <2>2 DEF t
<1>12. Holds(Test("search"), <<x, x, x>>, row) <=> (Has(row.text, x) \/ Has(row.service, x) \/ Has(row.trace, x))
  <2> DEFINE t == Test("search")
  <2>1. t.kind = "search"
    BY <1>0
  <2> HIDE DEF t
  <2>2. Holds(t, <<x, x, x>>, row) <=> (Has(row.text, x) \/ Has(row.service, x) \/ Has(row.trace, x))
    BY <2>1, <1>1 DEF Holds
  <2> QED BY <2>2 DEF t
<1> QED BY <1>2, <1>3, <1>4, <1>5, <1>6, <1>7, <1>8, <1>9, <1>10, <1>11, <1>12

(* The arguments of the severity test.                                     *)
Ranges(r) == FlattenSeq([i \in DOMAIN r.severities |-> SeverityRange(r.severities[i])])

(* They are arguments a statement can bind.                                *)
LEMMA RangesTyped ==
  ASSUME NEW r, RequestOK(r)
  PROVE  Ranges(r) \in Seq(Arg)
<1> DEFINE bands == r.severities
           args == FlattenSeq([i \in DOMAIN bands |-> SeverityRange(bands[i])])
           row == [id |-> 0, time |-> 0, duration |-> 0, severity |-> 0, error |-> TRUE, server |-> TRUE,
                   keys |-> [k \in {"trace", "span", "body"} |-> 0]]
<1>1. bands \in Seq(ToSet(Bands))
  BY DEF RequestOK
<1>2. RowOK(row)
  BY DEF RowOK
<1>3. args \in Seq(Int)
  <2> HIDE DEF row, bands
  <2> QED BY <1>1, <1>2, SeverityHolds
<1>4. Int \subseteq Arg
  BY DEF Arg
<1>5. args \in Seq(Arg)
  <2> HIDE DEF args
  <2> QED BY <1>3, <1>4, SeqMonotonic
<1> QED BY <1>5 DEF Ranges

(* The parts of PREWHERE hold together when each holds that is there.      *)
LEMMA PreWhereHolds ==
  ASSUME NEW r, RequestOK(r)
  PROVE  /\ PreWhere(r) \in Seq(Piece)
         /\ \A row : AllHold(PreWhere(r), row) <=>
              /\ Holds(Test("from"), <<r.from>>, row)
              /\ Holds(Test("to"), <<r.to>>, row)
              /\ Holds(Test("scope"), <<r.scope>>, row)
              /\ (r.env # Unset => Holds(Test("environment"), <<r.env>>, row))
              /\ (r.trace # Unset => Holds(Test("trace"), <<r.trace>>, row))
              /\ (r.services # <<>> => Holds(Test("service"), r.services, row))
              /\ (r.signal = "logs" /\ r.severities # <<>> => Holds(Test("severity"), Ranges(r), row))
              /\ (r.signal = "traces" /\ Len(r.statuses) = 1 => Holds(Test(r.statuses[1]), <<>>, row))
              /\ (r.signal = "traces" /\ r.minDuration > 0 => Holds(Test("duration"), <<r.minDuration>>, row))
              /\ (r.search \in DOMAIN TraceOf => Holds(Test("trace"), <<TraceOf[r.search]>>, row))
              /\ (r.signal = "logs" => Holds(Test("buckets"), <<r.from, r.to - 1>>, row))
              /\ (ServerOnly(r) => Holds(Test("server"), <<>>, row))
<1> DEFINE ranges == Ranges(r)
           p1 == If(TRUE, Part(Test("from"), <<r.from>>))
           p2 == If(TRUE, Part(Test("to"), <<r.to>>))
           p3 == If(TRUE, Part(Test("scope"), <<r.scope>>))
           p4 == If(r.env # Unset, Part(Test("environment"), <<r.env>>))
           p5 == If(r.trace # Unset, Part(Test("trace"), <<r.trace>>))
           p6 == If(r.services # <<>>, Part(Test("service"), r.services))
           p7 == If(r.signal = "logs" /\ r.severities # <<>>, Part(Test("severity"), ranges))
           p8 == If(r.signal = "traces" /\ Len(r.statuses) = 1, Part(Test(r.statuses[1]), <<>>))
           p9 == If(r.signal = "traces" /\ r.minDuration > 0, Part(Test("duration"), <<r.minDuration>>))
           p10 == If(r.search \in DOMAIN TraceOf, Part(Test("trace"), <<TraceOf[r.search]>>))
           p11 == If(r.signal = "logs", Part(Test("buckets"), <<r.from, r.to - 1>>))
           p12 == If(ServerOnly(r), Part(Test("server"), <<>>))
           c2 == p1 \o p2
           c3 == c2 \o p3
           c4 == c3 \o p4
           c5 == c4 \o p5
           c6 == c5 \o p6
           c7 == c6 \o p7
           c8 == c7 \o p8
           c9 == c8 \o p9
           c10 == c9 \o p10
           c11 == c10 \o p11
           c12 == c11 \o p12
<1>a. PreWhere(r) = c12
  <2> DEFINE x == Part(Test("from"), <<r.from>>)
             y == Part(Test("to"), <<r.to>>)
             z == Part(Test("scope"), <<r.scope>>)
  <2>1. p1 = x /\ p2 = y /\ p3 = z
    BY DEF If
  <2>2. PreWhere(r) = x \o y \o z \o p4 \o p5 \o p6 \o p7 \o p8 \o p9 \o p10 \o p11 \o p12
    BY DEF PreWhere, BaseWhere, LogBuckets, Ranges
  <2> HIDE DEF x, y, z, p1, p2, p3, p4, p5, p6, p7, p8, p9, p10, p11, p12
  <2> QED BY <2>1, <2>2
<1>b. /\ r.signal \in {"logs", "traces"} /\ {r.scope, r.env, r.trace, r.search} \subseteq Text
      /\ r.from \in Int /\ r.to \in Int /\ r.minDuration \in Nat /\ r.services \in Seq(Text)
      /\ r.severities \in Seq(ToSet(Bands)) /\ r.statuses \in Seq({"ok", "error"})
  BY DEF RequestOK
<1>c. Text \subseteq Arg /\ Int \subseteq Arg /\ <<>> \in Seq(Arg) /\ ranges \in Seq(Arg)
  BY RangesTyped DEF Arg
<1>d. \A x, y \in Arg : <<x>> \in Seq(Arg) /\ <<x, y>> \in Seq(Arg)
  OBVIOUS
<1>e. r.search \in DOMAIN TraceOf => TraceOf[r.search] \in Arg
  BY <1>c, QueryAssumption DEF Text
<1>f. r.services \in Seq(Arg)
  BY <1>b, <1>c, SeqMonotonic
<1>g. Len(r.statuses) = 1 => r.statuses[1] \in {"ok", "error"}
  BY <1>b
<1>h. {"from", "to", "scope", "environment", "trace", "service", "severity", "ok", "error", "duration", "buckets", "server"} \subseteq Kinds
  BY DEF Kinds
<1> HIDE DEF ranges
<1>1. p1 \in Seq(Piece) /\ \A row : AllHold(p1, row) <=> (TRUE => Holds(Test("from"), <<r.from>>, row))
  <2> DEFINE args == <<r.from>>
             test == Test("from")
             there == TRUE
  <2>1. there => args \in Seq(Arg)
    BY <1>b, <1>c, <1>d, <1>e, <1>f
  <2>2. there => test \in TestSet
    BY <1>g, <1>h, TestIs
  <2>3. there \in BOOLEAN
    BY DEF ServerOnly
  <2> HIDE DEF args, test, there
  <2>4. test \in TestSet
    BY <1>h, TestIs DEF test
  <2>5. /\ If(there, Part(test, args)) \in Seq(Piece)
        /\ \A row : AllHold(If(there, Part(test, args)), row) <=> (there => Holds(test, args, row))
    BY <2>1, <2>3, <2>4, OnePart
  <2> QED BY <2>5 DEF there, test, args
<1>2. p2 \in Seq(Piece) /\ \A row : AllHold(p2, row) <=> (TRUE => Holds(Test("to"), <<r.to>>, row))
  <2> DEFINE args == <<r.to>>
             test == Test("to")
             there == TRUE
  <2>1. there => args \in Seq(Arg)
    BY <1>b, <1>c, <1>d, <1>e, <1>f
  <2>2. there => test \in TestSet
    BY <1>g, <1>h, TestIs
  <2>3. there \in BOOLEAN
    BY DEF ServerOnly
  <2> HIDE DEF args, test, there
  <2>4. test \in TestSet
    BY <1>h, TestIs DEF test
  <2>5. /\ If(there, Part(test, args)) \in Seq(Piece)
        /\ \A row : AllHold(If(there, Part(test, args)), row) <=> (there => Holds(test, args, row))
    BY <2>1, <2>3, <2>4, OnePart
  <2> QED BY <2>5 DEF there, test, args
<1>3. p3 \in Seq(Piece) /\ \A row : AllHold(p3, row) <=> (TRUE => Holds(Test("scope"), <<r.scope>>, row))
  <2> DEFINE args == <<r.scope>>
             test == Test("scope")
             there == TRUE
  <2>1. there => args \in Seq(Arg)
    BY <1>b, <1>c, <1>d, <1>e, <1>f
  <2>2. there => test \in TestSet
    BY <1>g, <1>h, TestIs
  <2>3. there \in BOOLEAN
    BY DEF ServerOnly
  <2> HIDE DEF args, test, there
  <2>4. test \in TestSet
    BY <1>h, TestIs DEF test
  <2>5. /\ If(there, Part(test, args)) \in Seq(Piece)
        /\ \A row : AllHold(If(there, Part(test, args)), row) <=> (there => Holds(test, args, row))
    BY <2>1, <2>3, <2>4, OnePart
  <2> QED BY <2>5 DEF there, test, args
<1>4. p4 \in Seq(Piece) /\ \A row : AllHold(p4, row) <=> (r.env # Unset => Holds(Test("environment"), <<r.env>>, row))
  <2> DEFINE args == <<r.env>>
             test == Test("environment")
             there == r.env # Unset
  <2>1. there => args \in Seq(Arg)
    BY <1>b, <1>c, <1>d, <1>e, <1>f
  <2>2. there => test \in TestSet
    BY <1>g, <1>h, TestIs
  <2>3. there \in BOOLEAN
    BY DEF ServerOnly
  <2> HIDE DEF args, test, there
  <2>4. test \in TestSet
    BY <1>h, TestIs DEF test
  <2>5. /\ If(there, Part(test, args)) \in Seq(Piece)
        /\ \A row : AllHold(If(there, Part(test, args)), row) <=> (there => Holds(test, args, row))
    BY <2>1, <2>3, <2>4, OnePart
  <2> QED BY <2>5 DEF there, test, args
<1>5. p5 \in Seq(Piece) /\ \A row : AllHold(p5, row) <=> (r.trace # Unset => Holds(Test("trace"), <<r.trace>>, row))
  <2> DEFINE args == <<r.trace>>
             test == Test("trace")
             there == r.trace # Unset
  <2>1. there => args \in Seq(Arg)
    BY <1>b, <1>c, <1>d, <1>e, <1>f
  <2>2. there => test \in TestSet
    BY <1>g, <1>h, TestIs
  <2>3. there \in BOOLEAN
    BY DEF ServerOnly
  <2> HIDE DEF args, test, there
  <2>4. test \in TestSet
    BY <1>h, TestIs DEF test
  <2>5. /\ If(there, Part(test, args)) \in Seq(Piece)
        /\ \A row : AllHold(If(there, Part(test, args)), row) <=> (there => Holds(test, args, row))
    BY <2>1, <2>3, <2>4, OnePart
  <2> QED BY <2>5 DEF there, test, args
<1>6. p6 \in Seq(Piece) /\ \A row : AllHold(p6, row) <=> (r.services # <<>> => Holds(Test("service"), r.services, row))
  <2> DEFINE args == r.services
             test == Test("service")
             there == r.services # <<>>
  <2>1. there => args \in Seq(Arg)
    BY <1>b, <1>c, <1>d, <1>e, <1>f
  <2>2. there => test \in TestSet
    BY <1>g, <1>h, TestIs
  <2>3. there \in BOOLEAN
    BY DEF ServerOnly
  <2> HIDE DEF args, test, there
  <2>4. test \in TestSet
    BY <1>h, TestIs DEF test
  <2>5. /\ If(there, Part(test, args)) \in Seq(Piece)
        /\ \A row : AllHold(If(there, Part(test, args)), row) <=> (there => Holds(test, args, row))
    BY <2>1, <2>3, <2>4, OnePart
  <2> QED BY <2>5 DEF there, test, args
<1>7. p7 \in Seq(Piece) /\ \A row : AllHold(p7, row) <=> (r.signal = "logs" /\ r.severities # <<>> => Holds(Test("severity"), ranges, row))
  <2> DEFINE args == ranges
             test == Test("severity")
             there == r.signal = "logs" /\ r.severities # <<>>
  <2>1. there => args \in Seq(Arg)
    BY <1>b, <1>c, <1>d, <1>e, <1>f
  <2>2. there => test \in TestSet
    BY <1>g, <1>h, TestIs
  <2>3. there \in BOOLEAN
    BY DEF ServerOnly
  <2> HIDE DEF args, test, there
  <2>4. test \in TestSet
    BY <1>h, TestIs DEF test
  <2>5. /\ If(there, Part(test, args)) \in Seq(Piece)
        /\ \A row : AllHold(If(there, Part(test, args)), row) <=> (there => Holds(test, args, row))
    BY <2>1, <2>3, <2>4, OnePart
  <2> QED BY <2>5 DEF there, test, args
<1>8. p8 \in Seq(Piece) /\ \A row : AllHold(p8, row) <=> (r.signal = "traces" /\ Len(r.statuses) = 1 => Holds(Test(r.statuses[1]), <<>>, row))
  <2> DEFINE args == <<>>
             test == Test(r.statuses[1])
             there == r.signal = "traces" /\ Len(r.statuses) = 1
  <2>1. there => args \in Seq(Arg)
    BY <1>b, <1>c, <1>d, <1>e, <1>f
  <2>2. there => test \in TestSet
    BY <1>g, <1>h, TestIs
  <2>3. there \in BOOLEAN
    BY DEF ServerOnly
  <2> HIDE DEF args, test, there
  <2>4. If(FALSE, Part(test, args)) = <<>> /\ ToSet(<<>>) = {} /\ <<>> \in Seq(Piece)
    BY DEF If, ToSet
  <2>5. CASE ~there
    <3>1. p8 = <<>>
      BY <2>5, <2>4 DEF there, If
    <3> HIDE DEF p8
    <3> QED BY <2>4, <2>5, <3>1 DEF AllHold, there, test, args
  <2>6. CASE there
    <3>1. /\ If(there, Part(test, args)) \in Seq(Piece)
          /\ \A row : AllHold(If(there, Part(test, args)), row) <=> (there => Holds(test, args, row))
      BY <2>1, <2>2, <2>3, <2>6, OnePart
    <3> QED BY <3>1 DEF there, test, args
  <2> QED BY <2>5, <2>6
<1>9. p9 \in Seq(Piece) /\ \A row : AllHold(p9, row) <=> (r.signal = "traces" /\ r.minDuration > 0 => Holds(Test("duration"), <<r.minDuration>>, row))
  <2> DEFINE args == <<r.minDuration>>
             test == Test("duration")
             there == r.signal = "traces" /\ r.minDuration > 0
  <2>1. there => args \in Seq(Arg)
    BY <1>b, <1>c, <1>d, <1>e, <1>f
  <2>2. there => test \in TestSet
    BY <1>g, <1>h, TestIs
  <2>3. there \in BOOLEAN
    BY DEF ServerOnly
  <2> HIDE DEF args, test, there
  <2>4. test \in TestSet
    BY <1>h, TestIs DEF test
  <2>5. /\ If(there, Part(test, args)) \in Seq(Piece)
        /\ \A row : AllHold(If(there, Part(test, args)), row) <=> (there => Holds(test, args, row))
    BY <2>1, <2>3, <2>4, OnePart
  <2> QED BY <2>5 DEF there, test, args
<1>10. p10 \in Seq(Piece) /\ \A row : AllHold(p10, row) <=> (r.search \in DOMAIN TraceOf => Holds(Test("trace"), <<TraceOf[r.search]>>, row))
  <2> DEFINE args == <<TraceOf[r.search]>>
             test == Test("trace")
             there == r.search \in DOMAIN TraceOf
  <2>1. there => args \in Seq(Arg)
    BY <1>b, <1>c, <1>d, <1>e, <1>f
  <2>2. there => test \in TestSet
    BY <1>g, <1>h, TestIs
  <2>3. there \in BOOLEAN
    BY DEF ServerOnly
  <2> HIDE DEF args, test, there
  <2>4. test \in TestSet
    BY <1>h, TestIs DEF test
  <2>5. /\ If(there, Part(test, args)) \in Seq(Piece)
        /\ \A row : AllHold(If(there, Part(test, args)), row) <=> (there => Holds(test, args, row))
    BY <2>1, <2>3, <2>4, OnePart
  <2> QED BY <2>5 DEF there, test, args
<1>11. p11 \in Seq(Piece) /\ \A row : AllHold(p11, row) <=> (r.signal = "logs" => Holds(Test("buckets"), <<r.from, r.to - 1>>, row))
  <2> DEFINE args == <<r.from, r.to - 1>>
             test == Test("buckets")
             there == r.signal = "logs"
  <2>1. there => args \in Seq(Arg)
    BY <1>b, <1>c, <1>d, <1>e, <1>f
  <2>2. there => test \in TestSet
    BY <1>g, <1>h, TestIs
  <2>3. there \in BOOLEAN
    BY DEF ServerOnly
  <2> HIDE DEF args, test, there
  <2>4. test \in TestSet
    BY <1>h, TestIs DEF test
  <2>5. /\ If(there, Part(test, args)) \in Seq(Piece)
        /\ \A row : AllHold(If(there, Part(test, args)), row) <=> (there => Holds(test, args, row))
    BY <2>1, <2>3, <2>4, OnePart
  <2> QED BY <2>5 DEF there, test, args
<1>12. p12 \in Seq(Piece) /\ \A row : AllHold(p12, row) <=> (ServerOnly(r) => Holds(Test("server"), <<>>, row))
  <2> DEFINE args == <<>>
             test == Test("server")
             there == ServerOnly(r)
  <2>1. there => args \in Seq(Arg)
    BY <1>b, <1>c, <1>d, <1>e, <1>f
  <2>2. there => test \in TestSet
    BY <1>g, <1>h, TestIs
  <2>3. there \in BOOLEAN
    BY DEF ServerOnly
  <2> HIDE DEF args, test, there
  <2>4. test \in TestSet
    BY <1>h, TestIs DEF test
  <2>5. /\ If(there, Part(test, args)) \in Seq(Piece)
        /\ \A row : AllHold(If(there, Part(test, args)), row) <=> (there => Holds(test, args, row))
    BY <2>1, <2>3, <2>4, OnePart
  <2> QED BY <2>5 DEF there, test, args
<1>13. c2 \in Seq(Piece) /\ \A row : AllHold(c2, row) <=> AllHold(p1, row) /\ AllHold(p2, row)
  <2> HIDE DEF p1, p2
  <2> QED BY <1>1, <1>2, MoreParts
<1>14. c3 \in Seq(Piece) /\ \A row : AllHold(c3, row) <=> AllHold(c2, row) /\ AllHold(p3, row)
  <2> HIDE DEF c2, p3
  <2> QED BY <1>13, <1>3, MoreParts
<1>15. c4 \in Seq(Piece) /\ \A row : AllHold(c4, row) <=> AllHold(c3, row) /\ AllHold(p4, row)
  <2> HIDE DEF c3, p4
  <2> QED BY <1>14, <1>4, MoreParts
<1>16. c5 \in Seq(Piece) /\ \A row : AllHold(c5, row) <=> AllHold(c4, row) /\ AllHold(p5, row)
  <2> HIDE DEF c4, p5
  <2> QED BY <1>15, <1>5, MoreParts
<1>17. c6 \in Seq(Piece) /\ \A row : AllHold(c6, row) <=> AllHold(c5, row) /\ AllHold(p6, row)
  <2> HIDE DEF c5, p6
  <2> QED BY <1>16, <1>6, MoreParts
<1>18. c7 \in Seq(Piece) /\ \A row : AllHold(c7, row) <=> AllHold(c6, row) /\ AllHold(p7, row)
  <2> HIDE DEF c6, p7
  <2> QED BY <1>17, <1>7, MoreParts
<1>19. c8 \in Seq(Piece) /\ \A row : AllHold(c8, row) <=> AllHold(c7, row) /\ AllHold(p8, row)
  <2> HIDE DEF c7, p8
  <2> QED BY <1>18, <1>8, MoreParts
<1>20. c9 \in Seq(Piece) /\ \A row : AllHold(c9, row) <=> AllHold(c8, row) /\ AllHold(p9, row)
  <2> HIDE DEF c8, p9
  <2> QED BY <1>19, <1>9, MoreParts
<1>21. c10 \in Seq(Piece) /\ \A row : AllHold(c10, row) <=> AllHold(c9, row) /\ AllHold(p10, row)
  <2> HIDE DEF c9, p10
  <2> QED BY <1>20, <1>10, MoreParts
<1>22. c11 \in Seq(Piece) /\ \A row : AllHold(c11, row) <=> AllHold(c10, row) /\ AllHold(p11, row)
  <2> HIDE DEF c10, p11
  <2> QED BY <1>21, <1>11, MoreParts
<1>23. c12 \in Seq(Piece) /\ \A row : AllHold(c12, row) <=> AllHold(c11, row) /\ AllHold(p12, row)
  <2> HIDE DEF c11, p12
  <2> QED BY <1>22, <1>12, MoreParts
<1> HIDE DEF p1, p2, p3, p4, p5, p6, p7, p8, p9, p10, p11, p12, c2, c3, c4, c5, c6, c7, c8, c9, c10, c11, c12
<1>24. \A row : AllHold(c12, row) <=>
          /\ Holds(Test("from"), <<r.from>>, row)
          /\ Holds(Test("to"), <<r.to>>, row)
          /\ Holds(Test("scope"), <<r.scope>>, row)
          /\ (r.env # Unset => Holds(Test("environment"), <<r.env>>, row))
          /\ (r.trace # Unset => Holds(Test("trace"), <<r.trace>>, row))
          /\ (r.services # <<>> => Holds(Test("service"), r.services, row))
          /\ (r.signal = "logs" /\ r.severities # <<>> => Holds(Test("severity"), ranges, row))
          /\ (r.signal = "traces" /\ Len(r.statuses) = 1 => Holds(Test(r.statuses[1]), <<>>, row))
          /\ (r.signal = "traces" /\ r.minDuration > 0 => Holds(Test("duration"), <<r.minDuration>>, row))
          /\ (r.search \in DOMAIN TraceOf => Holds(Test("trace"), <<TraceOf[r.search]>>, row))
          /\ (r.signal = "logs" => Holds(Test("buckets"), <<r.from, r.to - 1>>, row))
          /\ (ServerOnly(r) => Holds(Test("server"), <<>>, row))
  BY <1>1, <1>2, <1>3, <1>4, <1>5, <1>6, <1>7, <1>8, <1>9, <1>10, <1>11, <1>12, <1>13, <1>14, <1>15, <1>16, <1>17, <1>18, <1>19, <1>20, <1>21, <1>22, <1>23
<1> QED BY <1>a, <1>23, <1>24 DEF ranges

(* The parts of WHERE hold together when the search and each condition do. *)
LEMMA LateWhereHolds ==
  ASSUME NEW r, RequestOK(r)
  PROVE  /\ LateWhere(r) \in Seq(Piece)
         /\ \A row : AllHold(LateWhere(r), row) <=>
              /\ r.search # Unset /\ r.search \notin DOMAIN TraceOf =>
                   Has(row.text, r.search) \/ Has(row.service, r.search) \/ Has(row.trace, r.search)
              /\ \A i \in DOMAIN r.attributes : SqlAttribute(row, r.attributes[i])
<1> DEFINE c == r.attributes
           n == Len(c)
           s == [i \in 1 .. n |-> AttributePart(c[i])]
           off == [i \in 0 .. n |-> i]
           there == r.search # Unset /\ r.search \notin DOMAIN TraceOf
           args == <<r.search, r.search, r.search>>
           test == Test("search")
           front == If(there, Part(test, args))
           rest == FlattenSeq(s)
           piece(i) == [test |-> AttributeTest(c[i]), args |-> AttributeArgs(c[i])]
<1>1. n \in Nat /\ DOMAIN c = 1 .. n /\ \A i \in 1 .. n : Usable(c[i])
  BY DEF RequestOK
<1>2. LateWhere(r) = front \o rest
  BY <1>1 DEF LateWhere
<1>3. \A i \in 1 .. n : piece(i) \in Piece /\ AttributePart(c[i]) = <<piece(i)>>
  <2>1. \A i \in 1 .. n : AttributePart(c[i]) = <<piece(i)>>
    BY AttributePartIs DEF Part
  <2>2. \A i \in 1 .. n : AttributeTest(c[i]) \in TestSet /\ AttributeArgs(c[i]) \in Seq(Arg)
    <3> HIDE DEF c, n
    <3> QED BY <1>1, ArgumentsAre
  <2> QED BY <2>1, <2>2 DEF Piece
<1> HIDE DEF piece
<1>4. s \in Seq(Seq(Piece)) /\ Len(s) = n /\ \A i \in 1 .. n : Len(s[i]) = 1 /\ ToSet(s[i]) = {piece(i)}
  <2>1. \A x \in Piece : <<x>> \in Seq(Piece) /\ Len(<<x>>) = 1 /\ ToSet(<<x>>) = {x}
    BY DEF ToSet
  <2>2. s \in [1 .. n -> Seq(Piece)]
    <3> HIDE DEF n, c
    <3> QED BY <1>3, <2>1
  <2>3. \A i \in 1 .. n : s[i] = <<piece(i)>>
    <3> HIDE DEF n, c
    <3> QED BY <1>3
  <2> HIDE DEF s, n
  <2> QED BY <1>1, <1>3, <2>1, <2>2, <2>3, IsSequence
<1>5. off \in [0 .. n -> Nat] /\ off[0] = 0 /\ \A i \in 1 .. n : off[i] = off[i - 1] + Len(s[i])
  <2>1. off \in [0 .. n -> Nat] /\ off[0] = 0
    BY <1>1
  <2>2. ASSUME NEW i \in 1 .. n PROVE off[i] = off[i - 1] + Len(s[i])
    <3>1. off[i] = i /\ off[i - 1] = i - 1 /\ i \in Int
      BY <1>1
    <3>2. Len(s[i]) = 1
      BY <1>4
    <3> HIDE DEF off, s
    <3> QED BY <3>1, <3>2
  <2> QED BY <2>1, <2>2
<1>6. rest \in Seq(Piece) /\ ToSet(rest) = UNION {ToSet(s[i]) : i \in 1 .. n}
  <2>1. /\ s \in Seq(Seq(Piece)) /\ off \in [0 .. Len(s) -> Nat] /\ off[0] = 0
        /\ \A i \in 1 .. Len(s) : off[i] = off[i - 1] + Len(s[i])
    <3> HIDE DEF s, n, off
    <3> QED BY <1>4, <1>5
  <2> HIDE DEF s, off
  <2>2. FlattenSeq(s) \in Seq(Piece) /\ ToSet(FlattenSeq(s)) = UNION {ToSet(s[i]) : i \in 1 .. Len(s)}
    BY <2>1, Flattening
  <2> HIDE DEF n
  <2> QED BY <1>4, <2>2
<1>7. ToSet(rest) = {piece(i) : i \in 1 .. n}
  <2> HIDE DEF s, n, rest
  <2> QED BY <1>4, <1>6
<1>8. front \in Seq(Piece) /\ \A row : AllHold(front, row) <=> (there => Holds(test, args, row))
  <2>1. r.search \in Arg
    BY DEF RequestOK, Arg
  <2>2. args \in Seq(Arg)
    BY <2>1
  <2>3. test \in TestSet
    BY TestIs DEF Kinds
  <2>4. there \in BOOLEAN
    OBVIOUS
  <2> HIDE DEF there, test, args
  <2> QED BY <2>2, <2>3, <2>4, OnePart
<1>9. LateWhere(r) \in Seq(Piece) /\ \A row : AllHold(LateWhere(r), row) <=> AllHold(front, row) /\ AllHold(rest, row)
  <2> HIDE DEF front, rest
  <2> QED BY <1>2, <1>6, <1>8, MoreParts
<1>10. ASSUME NEW row
       PROVE  AllHold(rest, row) <=> \A i \in DOMAIN r.attributes : SqlAttribute(row, r.attributes[i])
  <2>1. \A i \in 1 .. n : /\ piece(i).test = AttributeTest(c[i]) /\ piece(i).args = AttributeArgs(c[i])
                          /\ Holds(AttributeTest(c[i]), AttributeArgs(c[i]), row) <=> SqlAttribute(row, c[i])
    <3>1. \A i \in 1 .. n : piece(i).test = AttributeTest(c[i]) /\ piece(i).args = AttributeArgs(c[i])
      BY DEF piece
    <3>2. \A i \in 1 .. n : Holds(AttributeTest(c[i]), AttributeArgs(c[i]), row) <=> SqlAttribute(row, c[i])
      BY SqlAttributeIs
    <3> QED BY <3>1, <3>2
  <2>2. AllHold(rest, row) <=> \A i \in 1 .. n : Holds(piece(i).test, piece(i).args, row)
    <3> HIDE DEF rest, n
    <3> QED BY <1>7 DEF AllHold
  <2>3. AllHold(rest, row) <=> \A i \in 1 .. n : SqlAttribute(row, c[i])
    <3> HIDE DEF rest, n, c
    <3> QED BY <2>1, <2>2
  <2> HIDE DEF rest
  <2> QED BY <1>1, <2>3
<1>11. ASSUME NEW row
       PROVE  AllHold(front, row) <=>
                (there => Has(row.text, r.search) \/ Has(row.service, r.search) \/ Has(row.trace, r.search))
  <2>1. Holds(test, args, row) <=> Has(row.text, r.search) \/ Has(row.service, r.search) \/ Has(row.trace, r.search)
    BY SimpleTests
  <2> HIDE DEF front, test, args, there
  <2> QED BY <1>8, <2>1
<1> HIDE DEF front, rest
<1> QED BY <1>9, <1>10, <1>11

(* Asking for one status is a test of the error flag, asking for both or   *)
(* none is no test.                                                        *)
LEMMA StatusAgrees ==
  ASSUME NEW statuses \in Seq({"ok", "error"}), Distinct(statuses), NEW failed \in BOOLEAN
  PROVE  (Len(statuses) = 1 => (IF statuses[1] = "error" THEN failed ELSE ~failed))
           <=> Includes(statuses, IF failed THEN "error" ELSE "ok")
<1> DEFINE x == IF failed THEN "error" ELSE "ok"
<1>1. /\ Len(statuses) \in Nat /\ DOMAIN statuses = 1 .. Len(statuses)
      /\ \A i \in 1 .. Len(statuses) : statuses[i] \in {"ok", "error"}
      /\ \A i, j \in 1 .. Len(statuses) : statuses[i] = statuses[j] => i = j
  BY DEF Distinct
<1>2. CASE Len(statuses) = 0
  <2>1. statuses = <<>>
    BY <1>2
  <2> QED BY <1>2, <2>1 DEF Includes
<1>3. CASE Len(statuses) = 1
  <2>1. ToSet(statuses) = {statuses[1]} /\ statuses # <<>> /\ statuses[1] \in {"ok", "error"}
    <3>1. DOMAIN statuses = {1}
      BY <1>1, <1>3
    <3>2. ToSet(statuses) = {statuses[1]}
      BY <3>1 DEF ToSet
    <3>3. statuses[1] \in {"ok", "error"}
      BY <1>1, <1>3
    <3>4. statuses # <<>>
      <4>1. DOMAIN <<>> = {}
        OBVIOUS
      <4> QED BY <3>1, <4>1
    <3> QED BY <3>2, <3>3, <3>4
  <2> QED BY <1>3, <2>1 DEF Includes
<1>4. CASE Len(statuses) >= 2
  <2>1. 1 \in 1 .. Len(statuses) /\ 2 \in 1 .. Len(statuses)
    BY <1>4, <1>1
  <2>2. statuses[1] # statuses[2] /\ statuses[1] \in {"ok", "error"} /\ statuses[2] \in {"ok", "error"}
    BY <2>1, <1>1
  <2>3. statuses[1] \in ToSet(statuses) /\ statuses[2] \in ToSet(statuses)
    BY <2>1, <1>1 DEF ToSet
  <2>4. x \in ToSet(statuses)
    BY <2>2, <2>3
  <2> HIDE DEF x
  <2>5. Includes(statuses, x)
    BY <2>4 DEF Includes
  <2>6. Len(statuses) # 1
    BY <1>4, <1>1
  <2> QED BY <2>5, <2>6 DEF x
<1> QED BY <1>1, <1>2, <1>3, <1>4

(* A five-minute bucket lies in the window's buckets when the time does.   *)
LEMMA BucketsHold ==
  ASSUME NEW r, RequestOK(r), NEW row, RowOK(row), row.time >= r.from, row.time < r.to
  PROVE  Holds(Test("buckets"), <<r.from, r.to - 1>>, row)
<1> DEFINE t == Test("buckets")
           a == <<r.from, r.to - 1>>
           unit == 5 * Minute
<1>1. t.kind = "buckets"
  BY TestIs DEF Kinds
<1>2. a[1] = r.from /\ a[2] = r.to - 1
  OBVIOUS
<1>3. unit \in Nat \ {0}
  BY QueryAssumption
<1>4. r.from \in Int /\ r.to - 1 \in Int /\ row.time \in Int /\ r.from <= row.time /\ row.time <= r.to - 1
  BY DEF RequestOK, RowOK
<1> HIDE DEF t, a, unit
<1>5. /\ Floor(r.from, unit) <= Floor(row.time, unit) /\ Floor(row.time, unit) <= Floor(r.to - 1, unit)
      /\ {Floor(r.from, unit), Floor(row.time, unit), Floor(r.to - 1, unit)} \subseteq Int
  BY <1>3, <1>4, FloorMonotone
<1>6. Floor(row.time, unit) \in Floor(r.from, unit) .. Floor(r.to - 1, unit)
  BY <1>5
<1>7. Holds(t, a, row)
  BY <1>1, <1>2, <1>6 DEF Holds, unit
<1> QED BY <1>7 DEF t, a

(* A condition on an attribute, as the mock store or the statement has it. *)
Meets(row, c, fake) == IF fake THEN MockAttribute(row, c) ELSE SqlAttribute(row, c)

(* The statement's own tests, and the mock store's, of one row.            *)
Clauses(r, row, fake) ==
  /\ row.time >= r.from /\ row.time < r.to /\ row.scope = r.scope
  /\ (r.env # Unset => row.env = r.env)
  /\ (r.trace # Unset => row.trace = r.trace)
  /\ (r.services # <<>> => row.service \in ToSet(r.services))
  /\ (r.signal = "logs" /\ r.severities # <<>> => Band(row.severity) \in ToSet(r.severities))
  /\ (r.signal = "traces" => Includes(r.statuses, IF row.error THEN "error" ELSE "ok"))
  /\ (r.signal = "traces" => row.duration >= r.minDuration)
  /\ (r.search \in DOMAIN TraceOf => row.trace = TraceOf[r.search])
  /\ (ServerOnly(r) => row.server)
  /\ (r.search # Unset /\ r.search \notin DOMAIN TraceOf =>
        Has(row.text, r.search) \/ Has(row.service, r.search) \/ Has(row.trace, r.search))
  /\ \A i \in DOMAIN r.attributes : Meets(row, r.attributes[i], fake)

(* What is selected is the conjunction of the clauses.                     *)
LEMMA SelectedIs ==
  ASSUME NEW r, RequestOK(r), NEW row, NEW fake
  PROVE  Selected(row, r, fake) <=> Clauses(r, row, fake)
<1>1. r.signal \in {"logs", "traces"}
  BY DEF RequestOK
<1>2. (\A c \in ToSet(r.attributes) : IF fake THEN MockAttribute(row, c) ELSE SqlAttribute(row, c))
        <=> \A i \in DOMAIN r.attributes : Meets(row, r.attributes[i], fake)
  BY DEF ToSet, Meets
<1>3. r.search = Unset => Has(row.text, r.search)
  BY DEF Has
<1> QED BY <1>1, <1>2, <1>3 DEF Selected, Fits, Clauses, Includes

(* So is what the tests of a statement have in common.                     *)
LEMMA ClausesHold ==
  ASSUME NEW r, RequestOK(r), NEW row, RowOK(row)
  PROVE  AllHold(PreWhere(r), row) /\ AllHold(LateWhere(r), row) <=> Clauses(r, row, FALSE)
<1>1. r.signal \in {"logs", "traces"} /\ r.minDuration \in Nat /\ r.severities \in Seq(ToSet(Bands))
      /\ r.statuses \in Seq({"ok", "error"}) /\ Distinct(r.statuses)
  BY DEF RequestOK
<1>2. row.duration \in Nat /\ row.error \in BOOLEAN
  BY DEF RowOK
<1>3. Holds(Test("severity"), Ranges(r), row) <=> Band(row.severity) \in ToSet(r.severities)
  <2>1. LET args == FlattenSeq([i \in DOMAIN r.severities |-> SeverityRange(r.severities[i])])
        IN  /\ args \in Seq(Int)
            /\ Holds(Test("severity"), args, row) <=> Band(row.severity) \in ToSet(r.severities)
    BY <1>1, SeverityHolds
  <2> QED BY <2>1 DEF Ranges
<1>4. (Len(r.statuses) = 1 => Holds(Test(r.statuses[1]), <<>>, row))
        <=> Includes(r.statuses, IF row.error THEN "error" ELSE "ok")
  <2>1. Len(r.statuses) = 1 => r.statuses[1] \in {"ok", "error"}
    BY <1>1
  <2>2. Holds(Test("error"), <<>>, row) <=> row.error
    BY SimpleTests
  <2>3. Holds(Test("ok"), <<>>, row) <=> ~row.error
    BY SimpleTests
  <2>4. Len(r.statuses) = 1 => (Holds(Test(r.statuses[1]), <<>>, row)
                                  <=> IF r.statuses[1] = "error" THEN row.error ELSE ~row.error)
    BY <2>1, <2>2, <2>3
  <2>5. (Len(r.statuses) = 1 => (IF r.statuses[1] = "error" THEN row.error ELSE ~row.error))
           <=> Includes(r.statuses, IF row.error THEN "error" ELSE "ok")
    BY <1>1, <1>2, StatusAgrees
  <2> QED BY <2>4, <2>5
<1>5. (r.minDuration > 0 => Holds(Test("duration"), <<r.minDuration>>, row)) <=> row.duration >= r.minDuration
  <2>1. Holds(Test("duration"), <<r.minDuration>>, row) <=> row.duration >= r.minDuration
    BY SimpleTests
  <2> QED BY <2>1, <1>1, <1>2
<1>6. /\ Holds(Test("from"), <<r.from>>, row) <=> row.time >= r.from
      /\ Holds(Test("to"), <<r.to>>, row) <=> row.time < r.to
      /\ Holds(Test("scope"), <<r.scope>>, row) <=> row.scope = r.scope
      /\ Holds(Test("environment"), <<r.env>>, row) <=> row.env = r.env
      /\ Holds(Test("trace"), <<r.trace>>, row) <=> row.trace = r.trace
      /\ Holds(Test("service"), r.services, row) <=> row.service \in ToSet(r.services)
      /\ Holds(Test("trace"), <<TraceOf[r.search]>>, row) <=> row.trace = TraceOf[r.search]
      /\ Holds(Test("server"), <<>>, row) <=> row.server
  BY SimpleTests
<1>7. row.time >= r.from /\ row.time < r.to => Holds(Test("buckets"), <<r.from, r.to - 1>>, row)
  BY BucketsHold
<1>8. AllHold(LateWhere(r), row) <=>
        /\ r.search # Unset /\ r.search \notin DOMAIN TraceOf =>
             Has(row.text, r.search) \/ Has(row.service, r.search) \/ Has(row.trace, r.search)
        /\ \A i \in DOMAIN r.attributes : Meets(row, r.attributes[i], FALSE)
  BY LateWhereHolds DEF Meets
<1>9. AllHold(PreWhere(r), row) <=>
        /\ Holds(Test("from"), <<r.from>>, row)
        /\ Holds(Test("to"), <<r.to>>, row)
        /\ Holds(Test("scope"), <<r.scope>>, row)
        /\ (r.env # Unset => Holds(Test("environment"), <<r.env>>, row))
        /\ (r.trace # Unset => Holds(Test("trace"), <<r.trace>>, row))
        /\ (r.services # <<>> => Holds(Test("service"), r.services, row))
        /\ (r.signal = "logs" /\ r.severities # <<>> => Holds(Test("severity"), Ranges(r), row))
        /\ (r.signal = "traces" /\ Len(r.statuses) = 1 => Holds(Test(r.statuses[1]), <<>>, row))
        /\ (r.signal = "traces" /\ r.minDuration > 0 => Holds(Test("duration"), <<r.minDuration>>, row))
        /\ (r.search \in DOMAIN TraceOf => Holds(Test("trace"), <<TraceOf[r.search]>>, row))
        /\ (r.signal = "logs" => Holds(Test("buckets"), <<r.from, r.to - 1>>, row))
        /\ (ServerOnly(r) => Holds(Test("server"), <<>>, row))
  BY PreWhereHolds
<1> QED BY <1>3, <1>4, <1>5, <1>6, <1>7, <1>8, <1>9, Zenon DEF Clauses

(* A statement chooses the rows that are selected.                         *)
LEMMA ChosenSelects ==
  ASSUME NEW r, RequestOK(r), NEW row, RowOK(row), NEW statement,
         statement.tests = Tests(PreWhere(r)) \o Tests(LateWhere(r)),
         statement.args = BoundArgs(PreWhere(r), LateWhere(r))
  PROVE  Chosen(statement, row) <=> Selected(row, r, FALSE)
<1>1. PreWhere(r) \in Seq(Piece) /\ LateWhere(r) \in Seq(Piece)
  BY PreWhereHolds, LateWhereHolds
<1>2. Chosen(statement, row) <=>
        \A part \in ToSet(PreWhere(r)) \cup ToSet(LateWhere(r)) : Holds(part.test, part.args, row)
  BY <1>1, ChosenIsAllHold DEF Piece
<1>3. Chosen(statement, row) <=> AllHold(PreWhere(r), row) /\ AllHold(LateWhere(r), row)
  BY <1>2 DEF AllHold
<1> QED BY <1>3, ClausesHold, SelectedIs

-----------------------------------------------------------------------------
(* The order of the rows.                                                  *)

\* The columns of ORDER BY, which rows of the table have.
Sortable(columns) ==
  \E m \in Nat : DOMAIN columns = 1 .. m /\ \A i \in 1 .. m : columns[i] \in {"trace", "span", "body"}

\* What tells tied rows apart in one execution.
Layout == Places \cup {Generated}

(* The statements' columns are such, and so are those of the mock store.   *)
LEMMA ColumnsAre ==
  ASSUME NEW r
  PROVE  Sortable(OrderBy(r).columns) /\ Sortable(ByTime(r).columns)
<1>1. Sortable(<<>>)
  <2>1. 0 \in Nat /\ DOMAIN <<>> = 1 .. 0 /\ \A i \in 1 .. 0 : <<>>[i] \in {"trace", "span", "body"}
    OBVIOUS
  <2> QED BY <2>1 DEF Sortable
<1>2. Sortable(<<"span">>)
  <2> DEFINE s == <<"span">>
  <2>1. 1 \in Nat /\ DOMAIN s = 1 .. 1 /\ \A i \in 1 .. 1 : s[i] \in {"trace", "span", "body"}
    OBVIOUS
  <2> HIDE DEF s
  <2>2. Sortable(s)
    BY <2>1 DEF Sortable
  <2> QED BY <2>2 DEF s
<1>3. Sortable(<<"trace", "span">>)
  <2> DEFINE s == <<"trace", "span">>
  <2>1. 2 \in Nat /\ DOMAIN s = 1 .. 2 /\ \A i \in 1 .. 2 : s[i] \in {"trace", "span", "body"}
    OBVIOUS
  <2> HIDE DEF s
  <2>2. Sortable(s)
    BY <2>1 DEF Sortable
  <2> QED BY <2>2 DEF s
<1>4. Sortable(<<"trace", "span", "body">>)
  <2> DEFINE s == <<"trace", "span", "body">>
  <2>1. 3 \in Nat /\ DOMAIN s = 1 .. 3 /\ \A i \in 1 .. 3 : s[i] \in {"trace", "span", "body"}
    OBVIOUS
  <2> HIDE DEF s
  <2>2. Sortable(s)
    BY <2>1 DEF Sortable
  <2> QED BY <2>2 DEF s
<1>5. OrderBy(r).columns \in {<<"span">>, <<"trace", "span", "body">>, <<"trace", "span">>}
  BY DEF OrderBy
<1>6. ByTime(r).columns = <<>>
  BY DEF ByTime
<1> QED BY <1>1, <1>2, <1>3, <1>4, <1>5, <1>6

(* Comparing column by column orders the rows, up to those that agree in   *)
(* every column.                                                           *)
LEMMA KeyOrder ==
  ASSUME NEW columns, Sortable(columns)
  PROVE  /\ \A a \in Rows : ~KeyLess(a, a, columns) /\ SameKeys(a, a, columns)
         /\ \A a, b \in Rows : KeyLess(a, b, columns) \/ KeyLess(b, a, columns) \/ SameKeys(a, b, columns)
         /\ \A a, b \in Rows : SameKeys(a, b, columns) => SameKeys(b, a, columns) /\ ~KeyLess(a, b, columns)
         /\ \A a, b, c \in Rows : KeyLess(a, b, columns) /\ KeyLess(b, c, columns) => KeyLess(a, c, columns)
         /\ \A a, b, c \in Rows : SameKeys(a, b, columns) /\ SameKeys(b, c, columns) => SameKeys(a, c, columns)
         /\ \A a, b, c \in Rows : SameKeys(a, b, columns) /\ KeyLess(b, c, columns) => KeyLess(a, c, columns)
         /\ \A a, b, c \in Rows : KeyLess(a, b, columns) /\ SameKeys(b, c, columns) => KeyLess(a, c, columns)
<1>1. PICK m \in Nat : DOMAIN columns = 1 .. m /\ \A i \in 1 .. m : columns[i] \in {"trace", "span", "body"}
  BY DEF Sortable
<1> DEFINE K(a, i) == a.keys[columns[i]]
<1>2. \A a \in Rows : \A i \in 1 .. m : K(a, i) \in Nat
  BY <1>1, ServiceAssumption DEF RowOK
<1>3. \A a, b : KeyLess(a, b, columns) <=>
        \E i \in 1 .. m : K(a, i) < K(b, i) /\ \A j \in 1 .. i - 1 : K(a, j) = K(b, j)
  BY <1>1 DEF KeyLess
<1>4. \A a, b : SameKeys(a, b, columns) <=> \A i \in 1 .. m : K(a, i) = K(b, i)
  BY <1>1 DEF SameKeys
<1>i. \A i \in 1 .. m : \A j \in 1 .. i - 1 : j \in 1 .. m
  OBVIOUS
<1> HIDE DEF K
<1>5. ASSUME NEW a \in Rows PROVE ~KeyLess(a, a, columns) /\ SameKeys(a, a, columns)
  BY <1>2, <1>3, <1>4
<1>6. ASSUME NEW a \in Rows, NEW b \in Rows, ~SameKeys(a, b, columns)
      PROVE  KeyLess(a, b, columns) \/ KeyLess(b, a, columns)
  <2> DEFINE T == {i \in 1 .. m : K(a, i) # K(b, i)}
  <2>1. T \in SUBSET Nat /\ T # {}
    BY <1>4, <1>6
  <2>2. PICK x \in T : \A y \in T : x <= y
    <3> HIDE DEF T
    <3> QED BY <2>1, Least
  <2>3. x \in 1 .. m /\ K(a, x) # K(b, x) /\ \A j \in 1 .. x - 1 : K(a, j) = K(b, j) /\ K(b, j) = K(a, j)
    <3>1. \A j \in 1 .. x - 1 : j \in 1 .. m /\ ~(x <= j)
      BY <2>2
    <3> QED BY <2>2, <3>1
  <2>4. K(a, x) < K(b, x) \/ K(b, x) < K(a, x)
    BY <1>2, <2>3
  <2> HIDE DEF T
  <2> QED BY <1>3, <2>3, <2>4
<1>7. ASSUME NEW a \in Rows, NEW b \in Rows, SameKeys(a, b, columns)
      PROVE  SameKeys(b, a, columns) /\ ~KeyLess(a, b, columns)
  BY <1>2, <1>3, <1>4, <1>7
<1>8. ASSUME NEW a \in Rows, NEW b \in Rows, NEW c \in Rows,
             KeyLess(a, b, columns), KeyLess(b, c, columns)
      PROVE  KeyLess(a, c, columns)
  <2>1. PICK i \in 1 .. m : K(a, i) < K(b, i) /\ \A j \in 1 .. i - 1 : K(a, j) = K(b, j)
    BY <1>3, <1>8
  <2>2. PICK k \in 1 .. m : K(b, k) < K(c, k) /\ \A j \in 1 .. k - 1 : K(b, j) = K(c, j)
    BY <1>3, <1>8
  <2>3. CASE i < k
    <3>1. i \in 1 .. k - 1 /\ \A j \in 1 .. i - 1 : j \in 1 .. k - 1
      BY <2>3
    <3>2. K(a, i) < K(c, i) /\ \A j \in 1 .. i - 1 : K(a, j) = K(c, j)
      BY <2>1, <2>2, <3>1
    <3> QED BY <1>3, <3>2
  <2>4. CASE i = k
    <3>1. K(a, i) < K(c, i)
      BY <1>2, <2>1, <2>2, <2>4
    <3>2. \A j \in 1 .. i - 1 : K(a, j) = K(c, j)
      BY <2>1, <2>2, <2>4
    <3> QED BY <1>3, <3>1, <3>2
  <2>5. CASE k < i
    <3>1. k \in 1 .. i - 1 /\ \A j \in 1 .. k - 1 : j \in 1 .. i - 1
      BY <2>5
    <3>2. K(a, k) < K(c, k) /\ \A j \in 1 .. k - 1 : K(a, j) = K(c, j)
      BY <2>1, <2>2, <3>1
    <3> QED BY <1>3, <3>2
  <2> QED BY <2>3, <2>4, <2>5
<1>9. ASSUME NEW a \in Rows, NEW b \in Rows, NEW c \in Rows,
             SameKeys(a, b, columns), SameKeys(b, c, columns)
      PROVE  SameKeys(a, c, columns)
  BY <1>4, <1>9
<1>10. ASSUME NEW a \in Rows, NEW b \in Rows, NEW c \in Rows,
              SameKeys(a, b, columns), KeyLess(b, c, columns)
       PROVE  KeyLess(a, c, columns)
  <2>1. PICK k \in 1 .. m : K(b, k) < K(c, k) /\ \A j \in 1 .. k - 1 : K(b, j) = K(c, j)
    BY <1>3, <1>10
  <2>2. K(a, k) < K(c, k) /\ \A j \in 1 .. k - 1 : K(a, j) = K(c, j)
    BY <1>i, <1>4, <1>10, <2>1
  <2> QED BY <1>3, <2>2
<1>11. ASSUME NEW a \in Rows, NEW b \in Rows, NEW c \in Rows,
              KeyLess(a, b, columns), SameKeys(b, c, columns)
       PROVE  KeyLess(a, c, columns)
  <2>1. PICK i \in 1 .. m : K(a, i) < K(b, i) /\ \A j \in 1 .. i - 1 : K(a, j) = K(b, j)
    BY <1>3, <1>11
  <2>2. K(a, i) < K(c, i) /\ \A j \in 1 .. i - 1 : K(a, j) = K(c, j)
    BY <1>i, <1>4, <1>11, <2>1
  <2> QED BY <1>3, <2>2
<1> QED BY <1>5, <1>6, <1>7, <1>8, <1>9, <1>10, <1>11

(* One execution orders the rows strictly and totally: tied rows by where  *)
(* they lie.                                                               *)
LEMMA Precedence ==
  ASSUME NEW order, Sortable(order.columns), NEW place \in Layout
  PROVE  /\ \A a \in Rows : ~Precedes(a, a, order, place)
         /\ \A a, b \in Rows : a = b \/ Precedes(a, b, order, place) \/ Precedes(b, a, order, place)
         /\ \A a, b, c \in Rows :
              Precedes(a, b, order, place) /\ Precedes(b, c, order, place) => Precedes(a, c, order, place)
<1> DEFINE L(a, b) == KeyLess(a, b, order.columns)
           E(a, b) == SameKeys(a, b, order.columns)
           P(a, b) == Precedes(a, b, order, place)
           old == order.oldestFirst
<1>1. \A a \in Rows : a.time \in Int /\ place[a] \in Nat
  BY ServiceAssumption DEF RowOK, Layout
<1>2. \A a, b \in Rows : place[a] = place[b] => a = b
  BY ServiceAssumption DEF Layout
<1>3. \A a \in Rows : ~L(a, a)
  BY KeyOrder
<1>t. \A a, b \in Rows : L(a, b) \/ L(b, a) \/ E(a, b)
  BY KeyOrder
<1>s. \A a, b \in Rows : E(a, b) => E(b, a)
  BY KeyOrder
<1>c. \A a, b, c \in Rows : L(a, b) /\ L(b, c) => L(a, c)
  BY KeyOrder
<1>e. \A a, b, c \in Rows : E(a, b) /\ E(b, c) => E(a, c)
  BY KeyOrder
<1>f. \A a, b, c \in Rows : E(a, b) /\ L(b, c) => L(a, c)
  BY KeyOrder
<1>g. \A a, b, c \in Rows : L(a, b) /\ E(b, c) => L(a, c)
  BY KeyOrder
<1>4. \A a, b : P(a, b) <=> \/ IF old THEN a.time < b.time ELSE a.time > b.time
                            \/ a.time = b.time /\ (L(a, b) \/ (E(a, b) /\ place[a] < place[b]))
  BY DEF Precedes
<1> HIDE DEF L, E, P, old
<1>5. \A a \in Rows : ~P(a, a)
  BY <1>1, <1>3, <1>4
<1>6. ASSUME NEW a \in Rows, NEW b \in Rows PROVE a = b \/ P(a, b) \/ P(b, a)
  <2>1. a.time = b.time \/ P(a, b) \/ P(b, a)
    BY <1>1, <1>4
  <2>2. ASSUME a.time = b.time, E(a, b), a # b PROVE P(a, b) \/ P(b, a)
    <3>1. E(b, a)
      BY <1>s, <2>2
    <3>2. place[a] < place[b] \/ place[b] < place[a]
      BY <1>1, <1>2, <2>2
    <3> QED BY <1>4, <2>2, <3>1, <3>2
  <2>3. ASSUME a.time = b.time, ~E(a, b) PROVE P(a, b) \/ P(b, a)
    <3>1. L(a, b) \/ L(b, a)
      BY <1>t, <2>3, Zenon
    <3>2. b.time = a.time
      BY <2>3
    <3> QED BY <1>4, <2>3, <3>1, <3>2, Zenon
  <2> QED BY <2>1, <2>2, <2>3
<1>7. ASSUME NEW a \in Rows, NEW b \in Rows, NEW c \in Rows, P(a, b), P(b, c) PROVE P(a, c)
  <2>1. CASE a.time = b.time /\ b.time = c.time
    <3>1. (L(a, b) \/ (E(a, b) /\ place[a] < place[b])) /\ (L(b, c) \/ (E(b, c) /\ place[b] < place[c]))
      BY <1>1, <1>4, <1>7, <2>1
    <3>2. L(a, c) \/ (E(a, c) /\ place[a] < place[c])
      <4>1. CASE L(a, b) /\ L(b, c)
        BY <1>c, <4>1, Zenon
      <4>2. CASE L(a, b) /\ E(b, c)
        BY <1>g, <4>2, Zenon
      <4>3. CASE E(a, b) /\ L(b, c)
        BY <1>f, <4>3, Zenon
      <4>4. CASE E(a, b) /\ place[a] < place[b] /\ E(b, c) /\ place[b] < place[c]
        <5>1. E(a, c)
          BY <1>e, <4>4, Zenon
        <5>2. place[a] < place[c]
          BY <1>1, <4>4
        <5> QED BY <5>1, <5>2
      <4> QED BY <3>1, <4>1, <4>2, <4>3, <4>4
    <3> QED BY <1>4, <2>1, <3>2
  <2>2. CASE ~(a.time = b.time /\ b.time = c.time)
    <3>1. IF old THEN a.time <= b.time /\ b.time <= c.time ELSE a.time >= b.time /\ b.time >= c.time
      BY <1>1, <1>4, <1>7
    <3>2. IF old THEN a.time < c.time ELSE a.time > c.time
      BY <1>1, <2>2, <3>1
    <3> QED BY <1>4, <3>2
  <2> QED BY <2>1, <2>2
<1> QED BY <1>5, <1>6, <1>7 DEF P

(* The place of a row in the listing is the number of rows before it.      *)
Rank(row, rows, order, place) == Cardinality(Before(row, rows, order, place))

(* Places are numbers below the length of the listing, and no two rows     *)
(* share one.                                                              *)
LEMMA RankIs ==
  ASSUME NEW order, Sortable(order.columns), NEW place \in Layout, NEW W \in SUBSET Rows
  PROVE  /\ IsFiniteSet(W) /\ Cardinality(W) \in Nat
         /\ \A a \in Rows : IsFiniteSet(Before(a, W, order, place)) /\ Rank(a, W, order, place) \in Nat
         /\ \A a \in W : Rank(a, W, order, place) < Cardinality(W)
         /\ \A a, b \in W : Rank(a, W, order, place) = Rank(b, W, order, place) => a = b
<1>1. IsFiniteSet(W) /\ Cardinality(W) \in Nat
  BY ServiceAssumption, FS_Subset, FS_CardinalityType
<1>2. ASSUME NEW a \in Rows PROVE IsFiniteSet(Before(a, W, order, place)) /\ Rank(a, W, order, place) \in Nat
  <2>1. Before(a, W, order, place) \in SUBSET W
    BY DEF Before
  <2> QED BY <1>1, <2>1, FS_Subset, FS_CardinalityType DEF Rank
<1>3. ASSUME NEW a \in W PROVE Rank(a, W, order, place) < Cardinality(W)
  <2>1. Before(a, W, order, place) \in SUBSET W /\ a \in W /\ a \notin Before(a, W, order, place)
    BY Precedence DEF Before
  <2>2. Before(a, W, order, place) # W
    BY <2>1
  <2>3. /\ Cardinality(Before(a, W, order, place)) <= Cardinality(W)
        /\ Cardinality(W) = Cardinality(Before(a, W, order, place)) => W = Before(a, W, order, place)
    BY <1>1, <2>1, FS_Subset
  <2> QED BY <1>1, <1>2, <2>2, <2>3 DEF Rank
<1>4. ASSUME NEW a \in W, NEW b \in W, Precedes(a, b, order, place) PROVE Rank(a, W, order, place) < Rank(b, W, order, place)
  <2>1. Before(a, W, order, place) \in SUBSET Before(b, W, order, place)
    <3>1. ASSUME NEW c \in W, Precedes(c, a, order, place) PROVE Precedes(c, b, order, place)
      BY <1>4, <3>1, Precedence
    <3> QED BY <3>1 DEF Before
  <2>2. a \in Before(b, W, order, place) /\ a \notin Before(a, W, order, place)
    BY <1>4, Precedence DEF Before
  <2>3. Before(a, W, order, place) # Before(b, W, order, place) /\ IsFiniteSet(Before(b, W, order, place))
    BY <1>2, <2>2
  <2>4. /\ Cardinality(Before(a, W, order, place)) <= Cardinality(Before(b, W, order, place))
        /\ Cardinality(Before(b, W, order, place)) = Cardinality(Before(a, W, order, place))
             => Before(b, W, order, place) = Before(a, W, order, place)
    BY <2>1, <2>3, FS_Subset
  <2> QED BY <1>2, <2>3, <2>4 DEF Rank
<1>5. ASSUME NEW a \in W, NEW b \in W, Rank(a, W, order, place) = Rank(b, W, order, place) PROVE a = b
  <2>1. Rank(a, W, order, place) \in Nat /\ Rank(b, W, order, place) \in Nat
    BY <1>2
  <2>2. ~Precedes(a, b, order, place) /\ ~Precedes(b, a, order, place)
    BY <1>4, <1>5, <2>1
  <2> QED BY <2>2, Precedence
<1> QED BY <1>1, <1>2, <1>3, <1>5

(* Rows that are stored later only move a row further back.                *)
LEMMA RankGrows ==
  ASSUME NEW order, Sortable(order.columns), NEW place \in Layout, NEW W \in SUBSET Rows, NEW V \in SUBSET W, NEW a \in Rows
  PROVE  Rank(a, V, order, place) <= Rank(a, W, order, place)
<1>1. Before(a, V, order, place) \in SUBSET Before(a, W, order, place)
  BY DEF Before
<1>2. IsFiniteSet(Before(a, W, order, place))
  BY RankIs
<1> QED BY <1>1, <1>2, FS_Subset DEF Rank

(* ORDER BY lists every row once, each behind the rows that precede it.    *)
LEMMA OrderedIs ==
  ASSUME NEW order, Sortable(order.columns), NEW place \in Layout, NEW W \in SUBSET Rows
  PROVE  /\ Ordered(W, order, place) \in [1 .. Cardinality(W) -> W]
         /\ \A a \in W : Rank(a, W, order, place) + 1 \in 1 .. Cardinality(W) /\ Ordered(W, order, place)[Rank(a, W, order, place) + 1] = a
<1> DEFINE n == Cardinality(W)
           rank == [a \in W |-> Rank(a, W, order, place)]
<1>1. IsFiniteSet(W) /\ n \in Nat
  BY RankIs
<1>2. \A a \in W : rank[a] = Rank(a, W, order, place) /\ rank[a] \in 0 .. n - 1
  BY <1>1, RankIs
<1>3. rank \in Injection(W, 0 .. n - 1)
  <2>1. \A a, b \in W : rank[a] = rank[b] => a = b
    BY <1>2, RankIs
  <2>2. rank \in [W -> 0 .. n - 1]
    BY <1>2
  <2> HIDE DEF rank, n
  <2> QED BY <2>1, <2>2, Fun_IsInj
<1>4. IsFiniteSet(0 .. n - 1) /\ Cardinality(0 .. n - 1) = n
  <2>1. 0 \in Int /\ n - 1 \in Int
    BY <1>1
  <2> HIDE DEF n
  <2> QED BY <1>1, <2>1, FS_Interval
<1>5. rank \in Surjection(W, 0 .. n - 1)
  <2> HIDE DEF rank
  <2> QED BY <1>3, <1>4, FS_Injection
<1>6. \A k \in 0 .. n - 1 : \E a \in W : rank[a] = k
  <2> HIDE DEF rank, n
  <2> QED BY <1>5 DEF Surjection
<1>7. \A i \in 1 .. n : \E a \in W : Rank(a, W, order, place) = i - 1
  <2> SUFFICES ASSUME NEW i \in 1 .. n PROVE \E a \in W : Rank(a, W, order, place) = i - 1
    OBVIOUS
  <2>1. i - 1 \in 0 .. n - 1
    BY <1>1
  <2> HIDE DEF rank, n
  <2> QED BY <2>1, <1>2, <1>6
<1>8. Ordered(W, order, place) = [i \in 1 .. n |-> CHOOSE a \in W : Rank(a, W, order, place) = i - 1]
  BY DEF Ordered, Rank
<1>9. Ordered(W, order, place) \in [1 .. n -> W]
  <2> HIDE DEF n
  <2>1. \A i \in 1 .. n : (CHOOSE a \in W : Rank(a, W, order, place) = i - 1) \in W
    BY <1>7
  <2> QED BY <1>8, <2>1
<1>10. ASSUME NEW a \in W
       PROVE  Rank(a, W, order, place) + 1 \in 1 .. n /\ Ordered(W, order, place)[Rank(a, W, order, place) + 1] = a
  <2> DEFINE i == Rank(a, W, order, place) + 1
             b == CHOOSE x \in W : Rank(x, W, order, place) = i - 1
  <2>1. Rank(a, W, order, place) \in Nat /\ i \in 1 .. n /\ i - 1 = Rank(a, W, order, place)
    <3>1. Rank(a, W, order, place) \in Nat /\ Rank(a, W, order, place) < n
      BY RankIs
    <3> HIDE DEF n
    <3> QED BY <1>1, <3>1
  <2>2. b \in W /\ Rank(b, W, order, place) = i - 1
    <3> HIDE DEF i
    <3> QED BY <2>1
  <2>3. b = a
    <3> HIDE DEF b, i
    <3> QED BY <2>1, <2>2, RankIs
  <2>4. Ordered(W, order, place)[i] = b
    <3> HIDE DEF n, i
    <3> QED BY <1>8, <2>1
  <2> QED BY <2>1, <2>3, <2>4
<1> QED BY <1>9, <1>10

(* A row that is tied with no other has one place, wherever the tied ones  *)
(* of the others lie.                                                      *)
LEMMA RankFixed ==
  ASSUME NEW order, Sortable(order.columns), NEW place \in Layout, NEW other \in Layout,
         NEW W \in SUBSET Rows, NEW row \in Rows, \A twin \in W : ~Tied(row, twin, order)
  PROVE  Rank(row, W, order, place) = Rank(row, W, order, other)
<1>1. ASSUME NEW a \in W, a # row PROVE Precedes(a, row, order, place) <=> Precedes(a, row, order, other)
  <2>1. ~(row.time = a.time /\ SameKeys(row, a, order.columns))
    BY <1>1 DEF Tied
  <2>2. SameKeys(a, row, order.columns) => SameKeys(row, a, order.columns)
    BY KeyOrder
  <2> QED BY <2>1, <2>2 DEF Precedes
<1>2. ~Precedes(row, row, order, place) /\ ~Precedes(row, row, order, other)
  BY Precedence
<1>3. Before(row, W, order, place) = Before(row, W, order, other)
  BY <1>1, <1>2 DEF Before
<1> QED BY <1>3 DEF Rank

(* Where the mock store's rows lie in the order of the statement, sorting  *)
(* them by time lists them in that order.                                  *)
LEMMA SameOrder ==
  ASSUME NEW r, NEW W \in SUBSET Rows,
         \A a, b \in W : a.time = b.time /\ KeyLess(a, b, OrderBy(r).columns) => Generated[a] < Generated[b]
  PROVE  Ordered(W, OrderBy(r), Generated) = Ordered(W, ByTime(r), Generated)
<1> DEFINE columns == OrderBy(r).columns
<1>1. Generated \in Layout /\ \A a \in Rows : Generated[a] \in Nat
  BY ServiceAssumption DEF Layout
<1>2. OrderBy(r).oldestFirst = ByTime(r).oldestFirst /\ ByTime(r).columns = <<>>
  BY DEF OrderBy, ByTime
<1>3. \A a, b : ~KeyLess(a, b, <<>>) /\ SameKeys(a, b, <<>>)
  <2>1. DOMAIN <<>> = {}
    OBVIOUS
  <2> QED BY <2>1 DEF KeyLess, SameKeys
<1>4. ASSUME NEW a \in W, NEW b \in W, a.time = b.time
      PROVE  KeyLess(a, b, columns) \/ (SameKeys(a, b, columns) /\ Generated[a] < Generated[b])
               <=> Generated[a] < Generated[b]
  <2>1. KeyLess(a, b, columns) => Generated[a] < Generated[b]
    BY <1>4
  <2>2. KeyLess(b, a, columns) => Generated[b] < Generated[a]
    BY <1>4
  <2>3. KeyLess(a, b, columns) \/ KeyLess(b, a, columns) \/ SameKeys(a, b, columns)
    BY ColumnsAre, KeyOrder
  <2>4. Generated[a] \in Nat /\ Generated[b] \in Nat
    BY <1>1
  <2> HIDE DEF columns
  <2> QED BY <2>1, <2>2, <2>3, <2>4
<1>5. ASSUME NEW a \in W, NEW b \in W
      PROVE  Precedes(a, b, OrderBy(r), Generated) <=> Precedes(a, b, ByTime(r), Generated)
  <2>1. CASE a.time = b.time
    <3>1. a.time \in Int /\ b.time \in Int
      BY ServiceAssumption DEF RowOK
    <3> QED BY <1>2, <1>3, <1>4, <2>1, <3>1 DEF Precedes
  <2>2. CASE a.time # b.time
    BY <1>2, <2>2 DEF Precedes
  <2> QED BY <2>1, <2>2
<1>6. \A row \in W : Before(row, W, OrderBy(r), Generated) = Before(row, W, ByTime(r), Generated)
  BY <1>5 DEF Before
<1>7. \A n : (CHOOSE row \in W : Cardinality(Before(row, W, OrderBy(r), Generated)) = n - 1)
              = CHOOSE row \in W : Cardinality(Before(row, W, ByTime(r), Generated)) = n - 1
  BY <1>6, Zenon
<1> QED BY <1>7 DEF Ordered

-----------------------------------------------------------------------------
(* Statements and what they yield.                                         *)

(* A statement asks for the rows of a request.                             *)
Asks(statement, r) ==
  /\ statement.tests = Tests(PreWhere(r)) \o Tests(LateWhere(r))
  /\ statement.args = BoundArgs(PreWhere(r), LateWhere(r))
  /\ statement.discovery = r.discovery /\ statement.key = r.keySearch /\ statement.order = OrderBy(r)

(* The rows that a request selects, from the mock store or the database.   *)
Wants(rows, r, fake) == {row \in rows : Selected(row, r, fake)}

(* A statement that selects what, of the rows of r, within limit and       *)
(* offset.                                                                 *)
Selects(s, r, what, limit, offset) ==
  Asks(s, r) /\ s.select = what /\ s.limit = limit /\ s.offset = offset

(* Select builds such a statement; LIMIT and OFFSET are added to it.       *)
LEMMA SelectAsks ==
  ASSUME NEW r, NEW what, NEW limit, NEW offset
  PROVE  /\ Selects(Select(r, what), r, what, 0, 0)
         /\ Selects([Select(r, what) EXCEPT !.limit = limit], r, what, limit, 0)
         /\ Selects([Select(r, what) EXCEPT !.limit = limit, !.offset = offset], r, what, limit, offset)
<1> DEFINE t == Tests(PreWhere(r)) \o Tests(LateWhere(r))
           a == BoundArgs(PreWhere(r), LateWhere(r))
           s(l, o) == [select |-> what, order |-> OrderBy(r), tests |-> t, args |-> a,
                       discovery |-> r.discovery, key |-> r.keySearch, limit |-> l, offset |-> o]
<1>1. Select(r, what) = s(0, 0)
  BY DEF Select
<1>2. [s(0, 0) EXCEPT !.limit = limit] = s(limit, 0)
  <2> HIDE DEF t, a
  <2> QED OBVIOUS
<1>3. \A x : Asks(x, r) <=> /\ x.tests = t /\ x.args = a /\ x.discovery = r.discovery
                           /\ x.key = r.keySearch /\ x.order = OrderBy(r)
  BY DEF Asks
<1>4. \A l, o : Selects(s(l, o), r, what, l, o)
  <2> HIDE DEF t, a
  <2> QED BY <1>3 DEF Selects
<1>5. Selects([s(0, 0) EXCEPT !.limit = limit, !.offset = offset], r, what, limit, offset)
  <2> HIDE DEF t, a
  <2> QED BY <1>3 DEF Selects
<1> HIDE DEF s
<1> QED BY <1>1, <1>2, <1>4, <1>5

(* The statements of each operation.                                       *)
LEMMA CompiledIs ==
  ASSUME NEW request, NEW r, r = Discovering(request)
  PROVE  /\ r.operation = "attributes" =>
              \E s : Compile(request) = <<s>> /\ Asks(s, r) /\ s.select = "attributes" /\ s.limit = MaxKeys + 1
         /\ r.operation = "services" =>
              \E s : Compile(request) = <<s>> /\ Asks(s, r) /\ s.select = "services" /\ s.limit = MaxServices
         /\ r.operation \in {"records", "detail"} =>
              \E s : /\ Compile(request) = <<s>> /\ Asks(s, r) /\ s.select = r.operation
                     /\ s.limit = r.limit + 1 /\ s.offset = r.offset
         /\ r.operation = "metrics" /\ r.signal # "traces" =>
              \E s : Compile(request) = <<s>> /\ Asks(s, r) /\ s.select = "metrics"
         /\ r.operation = "metrics" /\ r.signal = "traces" =>
              \E s, u : /\ Compile(request) = <<s, u>> /\ Asks(s, r) /\ s.select = "metrics"
                        /\ Asks(u, r) /\ u.select = "summary"
<1> DEFINE main == Select(r, r.operation)
<1>1. Compile(request) =
        CASE r.operation = "attributes" -> <<[main EXCEPT !.limit = MaxKeys + 1]>>
          [] r.operation = "services" -> <<[main EXCEPT !.limit = MaxServices]>>
          [] r.operation \in {"records", "detail"} ->
               <<[main EXCEPT !.limit = r.limit + 1, !.offset = r.offset]>>
          [] OTHER -> <<main>> \o If(r.signal = "traces", <<Select(r, "summary")>>)
  BY DEF Compile
<1>2. CASE r.operation = "attributes"
  <2>1. Compile(request) = <<[main EXCEPT !.limit = MaxKeys + 1]>>
    <3> HIDE DEF main
    <3> QED BY <1>1, <1>2
  <2>2. Selects([main EXCEPT !.limit = MaxKeys + 1], r, "attributes", MaxKeys + 1, 0)
    BY <1>2, SelectAsks
  <2> HIDE DEF main
  <2> QED BY <1>2, <2>1, <2>2 DEF Selects
<1>3. CASE r.operation = "services"
  <2>1. Compile(request) = <<[main EXCEPT !.limit = MaxServices]>>
    <3> HIDE DEF main
    <3> QED BY <1>1, <1>3
  <2>2. Selects([main EXCEPT !.limit = MaxServices], r, "services", MaxServices, 0)
    BY <1>3, SelectAsks
  <2> HIDE DEF main
  <2> QED BY <1>3, <2>1, <2>2 DEF Selects
<1>4. CASE r.operation \in {"records", "detail"}
  <2> DEFINE s == [main EXCEPT !.limit = r.limit + 1, !.offset = r.offset]
  <2>1. Compile(request) = <<s>>
    <3> HIDE DEF main, s
    <3>1. Compile(request) = <<[main EXCEPT !.limit = r.limit + 1, !.offset = r.offset]>>
      BY <1>1, <1>4
    <3> QED BY <3>1 DEF s
  <2>2. Asks(s, r) /\ s.select = r.operation /\ s.limit = r.limit + 1 /\ s.offset = r.offset
    <3>1. Selects(s, r, r.operation, r.limit + 1, r.offset)
      BY SelectAsks
    <3> HIDE DEF s
    <3> QED BY <3>1 DEF Selects
  <2> HIDE DEF s
  <2> QED BY <1>4, <2>1, <2>2
<1>5. CASE r.operation = "metrics"
  <2> DEFINE u == Select(r, "summary")
  <2>1. Compile(request) = <<main>> \o If(r.signal = "traces", <<u>>)
    <3> HIDE DEF main, u
    <3>1. Compile(request) = <<main>> \o If(r.signal = "traces", <<Select(r, "summary")>>)
      BY <1>1, <1>5
    <3> QED BY <3>1 DEF u
  <2>2. Asks(main, r) /\ main.select = "metrics" /\ Asks(u, r) /\ u.select = "summary"
    <3>1. Selects(main, r, r.operation, 0, 0) /\ Selects(u, r, "summary", 0, 0)
      BY SelectAsks
    <3> HIDE DEF main, u
    <3> QED BY <3>1, <1>5 DEF Selects
  <2> HIDE DEF main, u
  <2>3. Compile(request) = IF r.signal = "traces" THEN <<main, u>> ELSE <<main>>
    BY <2>1 DEF If
  <2>4. r.operation \notin {"attributes", "services", "records", "detail"}
    BY <1>5
  <2> QED BY <1>5, <2>2, <2>3, <2>4
<1> QED BY <1>2, <1>3, <1>4, <1>5

(* What either store yields of the rows it has found.                      *)
Yield(found, r, what, limit, offset, logs, order, place) ==
  CASE what \in {"records", "detail"} -> Page(Ordered(found, order, place), limit, offset)
    [] what = "attributes" -> Page(InOrder({k \in Keys(found, r.discovery) : Has(k, r.keySearch)}), limit, 0)
    [] what = "services" -> Page(InOrder({row.service : row \in found}), limit, 0)
    [] what = "metrics" -> Grouped(found, logs)
    [] what = "summary" -> Count(found)

(* A statement, run by ClickHouse, yields what it should of the rows that  *)
(* its request selects.                                                    *)
RunYields(s, r, rows, place) ==
  \A logs : Run(s, rows, logs, place)
              = Yield(Wants(rows, r, FALSE), r, s.select, s.limit, s.offset, logs, OrderBy(r), place)

LEMMA RunIs ==
  ASSUME NEW r, RequestOK(r), NEW rows \in SUBSET Rows, NEW s, Asks(s, r), NEW place
  PROVE  RunYields(s, r, rows, place)
<1> SUFFICES ASSUME NEW logs
             PROVE  Run(s, rows, logs, place)
                      = Yield(Wants(rows, r, FALSE), r, s.select, s.limit, s.offset, logs, OrderBy(r), place)
  BY DEF RunYields
<1> DEFINE found == {row \in rows : Chosen(s, row)}
           asked == [discovery |-> s.discovery, keySearch |-> s.key]
<1>1. \A row \in rows : Chosen(s, row) <=> Selected(row, r, FALSE)
  <2> SUFFICES ASSUME NEW row \in rows PROVE Chosen(s, row) <=> Selected(row, r, FALSE)
    OBVIOUS
  <2>1. RowOK(row)
    BY ServiceAssumption
  <2> QED BY <2>1, ChosenSelects DEF Asks
<1>2. found = Wants(rows, r, FALSE)
  BY <1>1 DEF Wants
<1>3. s.discovery = r.discovery /\ s.key = r.keySearch /\ s.order = OrderBy(r)
  BY DEF Asks
<1>4. Run(s, rows, logs, place) = Yield(found, asked, s.select, s.limit, s.offset, logs, s.order, place)
  BY DEF Run, Yield
<1>5. Yield(found, asked, s.select, s.limit, s.offset, logs, s.order, place)
        = Yield(found, r, s.select, s.limit, s.offset, logs, OrderBy(r), place)
  <2> HIDE DEF found
  <2> QED BY <1>3 DEF Yield
<1> HIDE DEF found, asked
<1> QED BY <1>2, <1>4, <1>5

(* The mock store cuts the same page out of a list as LIMIT and OFFSET.    *)
LEMMA SamePage ==
  ASSUME NEW n \in Nat, NEW s, DOMAIN s = 1 .. n, Len(s) = n, NEW limit \in Nat, NEW offset \in Nat
  PROVE  LET start == AtMost(offset, Len(s))
             end == AtMost(start + limit + 1, Len(s))
         IN  Page(s, limit + 1, offset) = SubSeq(s, start + 1, end)
<1> DEFINE start == AtMost(offset, n)
           end == AtMost(start + limit + 1, n)
           last == AtMost(offset + (limit + 1), n)
<1>1. CASE offset <= n
  <2>1. start = offset
    BY <1>1 DEF AtMost
  <2>2. end = last
    BY <2>1
  <2> QED BY <2>1, <2>2 DEF Page
<1>2. CASE offset > n
  <2>1. start = n /\ last = n
    BY <1>2 DEF AtMost
  <2>2. end = n
    BY <2>1 DEF AtMost
  <2>3. SubSeq(s, offset + 1, n) = SubSeq(s, n + 1, n)
    BY <1>2, SubSeqEmpty
  <2> HIDE DEF start, end, last
  <2> QED BY <2>1, <2>2, <2>3 DEF Page, last, start, end
<1> QED BY <1>1, <1>2

(* The rows found are finitely many.                                       *)
LEMMA FoundFinite ==
  ASSUME NEW rows \in SUBSET Rows, NEW r, NEW fake
  PROVE  /\ Wants(rows, r, fake) \in SUBSET Rows /\ IsFiniteSet(Wants(rows, r, fake))
         /\ Cardinality(Wants(rows, r, fake)) \in Nat
<1>1. Wants(rows, r, fake) \in SUBSET Rows
  BY DEF Wants
<1> QED BY <1>1, ServiceAssumption, FS_Subset, FS_CardinalityType

(* What the check of the parameters leaves of a request.                   *)
LEMMA AcceptedIs ==
  ASSUME NEW p, QuestionOK(p), Accepted(p, Scope), NEW q, q = Parse(p, Scope), NEW r, r = Discovering(q)
  PROVE  /\ r.operation = q.operation /\ r.signal = q.signal /\ q.operation = p.operation
         /\ r.signal \in {"logs", "traces"}
         /\ r.operation \in {"records", "metrics", "attributes", "services", "detail"}
         /\ r.operation # "services" => r = q
         /\ r.operation \in {"records", "detail"} => r.limit \in Nat \ {0} /\ r.limit = p.limit
         /\ r.operation \in {"records", "detail"} => r.offset \in Nat /\ r.offset = p.offset
<1>1. q.operation \in Operations(q.signal) /\ p.limit \in 1 .. MaxLimit /\ p.offset \in 0 .. MaxOffset
  BY DEF Accepted, ValidParameters, ValidRequest
<1>2. r.operation = q.operation /\ r.signal = q.signal /\ (r.operation # "services" => r = q)
  <2>1. CASE q.operation # "services"
    BY <2>1 DEF Discovering
  <2>2. CASE q.operation = "services"
    BY <2>2 DEF Discovering, Parse
  <2> QED BY <2>1, <2>2
<1>3. q.signal = p.signal /\ q.operation = p.operation /\ p.signal \in {"logs", "traces"}
  BY DEF Parse, QuestionOK
<1>4. p.operation # "attributes" => q.limit = p.limit /\ q.offset = p.offset
  BY DEF Parse
<1>5. MaxLimit \in Nat /\ MaxOffset \in Nat
  BY QueryAssumption
<1>6. r.operation \in {"records", "metrics", "attributes", "services", "detail"}
  BY <1>1, <1>2 DEF Operations
<1> QED BY <1>1, <1>2, <1>3, <1>4, <1>5, <1>6

(* Sequences of one and of two values.                                     *)
LEMMA Pairing ==
  ASSUME NEW x, NEW y
  PROVE  <<x>> \o <<>> = <<x>> /\ <<x>> \o <<y>> = <<x, y>> /\ Append(<<x>>, y) = <<x, y>>
<1> DEFINE u == <<x>> \o <<y>>
           v == <<x, y>>
<1>1. <<x>> \in Seq({x, y}) /\ <<y>> \in Seq({x, y}) /\ y \in {x, y}
  OBVIOUS
<1>2. <<x>> \o <<>> = <<x>>
  BY <1>1, ConcatEmptySeq
<1>3. u \in Seq({x, y}) /\ Len(u) = 2 /\ u[1] = x /\ u[2] = y
  BY <1>1
<1>4. v \in Seq({x, y}) /\ Len(v) = 2 /\ v[1] = x /\ v[2] = y
  OBVIOUS
<1> HIDE DEF u, v
<1>5. \A i \in 1 .. 2 : u[i] = v[i]
  <2>1. \A i \in 1 .. 2 : i = 1 \/ i = 2
    OBVIOUS
  <2> QED BY <1>3, <1>4, <2>1
<1>6. u = v
  BY <1>3, <1>4, <1>5, SeqEqual
<1>7. Append(<<x>>, y) = <<x>> \o <<y>>
  BY <1>1, AppendIsConcat
<1> QED BY <1>2, <1>6, <1>7 DEF u, v

(* A statement or two, evaluated one by one.                               *)
LEMMA OneByOne ==
  ASSUME NEW rows, NEW logs, NEW place, NEW s, NEW all, all = <<s>>
  PROVE  [i \in DOMAIN all |-> Run(all[i], rows, logs, place)] = <<Run(s, rows, logs, place)>>
OBVIOUS

LEMMA TwoByTwo ==
  ASSUME NEW rows, NEW logs, NEW place, NEW s, NEW u, NEW all, all = <<s, u>>
  PROVE  [i \in DOMAIN all |-> Run(all[i], rows, logs, place)]
           = <<Run(s, rows, logs, place), Run(u, rows, logs, place)>>
OBVIOUS

(* The answer of the mock store, operation by operation.                   *)
MockGives(reply, found, r, logs, order, place) ==
  /\ r.operation \in {"records", "detail"} =>
       reply = <<Yield(found, r, r.operation, r.limit + 1, r.offset, logs, order, place)>>
  /\ r.operation = "attributes" =>
       reply = <<Yield(found, r, r.operation, MaxKeys + 1, 0, logs, order, place)>>
  /\ r.operation = "services" =>
       reply = <<Yield(found, r, r.operation, MaxServices, 0, logs, order, place)>>
  /\ r.operation = "metrics" =>
       reply = IF r.signal = "traces"
                 THEN <<Yield(found, r, "metrics", 0, 0, logs, order, place),
                        Yield(found, r, "summary", 0, 0, logs, order, place)>>
                 ELSE <<Yield(found, r, "metrics", 0, 0, logs, order, place)>>

LEMMA MockIs ==
  ASSUME NEW p, QuestionOK(p), Accepted(p, Scope), NEW rows \in SUBSET Rows, NEW place,
         NEW q, q = Parse(p, Scope), NEW r, r = Discovering(q),
         NEW found, found = Wants(rows, r, TRUE), NEW logs, logs = Logs(q),
         NEW order, order = ByTime(r)
  PROVE  MockGives(MockExecute(q, rows, place), found, r, logs, order, place)
<1> DEFINE sorted == Ordered(found, order, place)
           start == AtMost(r.offset, Len(sorted))
           end == AtMost(start + r.limit + 1, Len(sorted))
           keys == InOrder({k \in Keys(found, r.discovery) : Has(k, r.keySearch)})
           services == InOrder({row.service : row \in found})
           groups == Grouped(found, r.signal = "logs")
<1>1. /\ r.signal = q.signal
      /\ r.operation \in {"records", "detail"} => r.limit \in Nat /\ r.offset \in Nat
  BY AcceptedIs
<1>m. {row \in rows : Matches(row, r)} = found
  BY DEF Wants, Matches, Selected
<1>2. MockExecute(q, rows, place) =
        CASE r.operation \in {"records", "detail"} -> <<SubSeq(sorted, start + 1, end)>>
          [] r.operation = "attributes" -> <<Page(keys, MaxKeys + 1, 0)>>
          [] r.operation = "services" -> <<Page(services, MaxServices, 0)>>
          [] r.operation = "metrics" -> <<groups>> \o If(r.signal = "traces", <<Count(found)>>)
  BY <1>m DEF MockExecute
<1>3. groups = Grouped(found, logs)
  <2>1. logs = (r.signal = "logs")
    BY <1>1 DEF Logs
  <2> QED BY <2>1
<1>4. CASE r.operation \in {"records", "detail"}
  <2>1. Page(sorted, r.limit + 1, r.offset) = SubSeq(sorted, start + 1, end)
    <3>1. \E n \in Nat : DOMAIN sorted = 1 .. n /\ Len(sorted) = n
      <4> DEFINE n == Cardinality(found)
                 S == {sorted[i] : i \in 1 .. n}
      <4>1. n \in Nat
        BY FoundFinite
      <4>2. sorted \in [1 .. n -> S]
        BY DEF Ordered
      <4> HIDE DEF sorted, n, S
      <4> QED BY <4>1, <4>2, IsSequence
    <3> HIDE DEF sorted
    <3>2. PICK n \in Nat : DOMAIN sorted = 1 .. n /\ Len(sorted) = n
      BY <3>1
    <3>3. r.limit \in Nat /\ r.offset \in Nat
      BY <1>1, <1>4
    <3> QED BY <3>2, <3>3, SamePage
  <2>2. Yield(found, r, r.operation, r.limit + 1, r.offset, logs, order, place) = Page(sorted, r.limit + 1, r.offset)
    <3> HIDE DEF sorted
    <3> QED BY <1>4 DEF Yield, sorted
  <2>3. MockExecute(q, rows, place) = <<SubSeq(sorted, start + 1, end)>>
    <3> HIDE DEF sorted, start, end, keys, services, groups
    <3> QED BY <1>2, <1>4
  <2> HIDE DEF sorted, start, end
  <2> QED BY <1>4, <2>1, <2>2, <2>3 DEF MockGives
<1>5. CASE r.operation = "attributes"
  <2>1. MockExecute(q, rows, place) = <<Page(keys, MaxKeys + 1, 0)>>
    <3> HIDE DEF sorted, start, end, keys, services, groups
    <3> QED BY <1>2, <1>5
  <2>2. Yield(found, r, r.operation, MaxKeys + 1, 0, logs, order, place) = Page(keys, MaxKeys + 1, 0)
    BY <1>5 DEF Yield
  <2> HIDE DEF keys
  <2> QED BY <1>5, <2>1, <2>2 DEF MockGives
<1>6. CASE r.operation = "services"
  <2>1. MockExecute(q, rows, place) = <<Page(services, MaxServices, 0)>>
    <3> HIDE DEF sorted, start, end, keys, services, groups
    <3> QED BY <1>2, <1>6
  <2>2. Yield(found, r, r.operation, MaxServices, 0, logs, order, place) = Page(services, MaxServices, 0)
    BY <1>6 DEF Yield
  <2> HIDE DEF services
  <2> QED BY <1>6, <2>1, <2>2 DEF MockGives
<1>7. CASE r.operation = "metrics"
  <2>1. MockExecute(q, rows, place) = <<groups>> \o If(r.signal = "traces", <<Count(found)>>)
    <3> HIDE DEF sorted, start, end, keys, services, groups
    <3> QED BY <1>2, <1>7
  <2>2. Yield(found, r, "metrics", 0, 0, logs, order, place) = groups /\ Yield(found, r, "summary", 0, 0, logs, order, place) = Count(found)
    <3> HIDE DEF groups
    <3> QED BY <1>3 DEF Yield
  <2>3. <<groups>> \o If(r.signal = "traces", <<Count(found)>>)
          = IF r.signal = "traces" THEN <<groups, Count(found)>> ELSE <<groups>>
    <3> HIDE DEF groups
    <3> QED BY Pairing, Zenon DEF If
  <2> HIDE DEF groups
  <2> QED BY <1>7, <2>1, <2>2, <2>3 DEF MockGives
<1>8. r.operation \in {"records", "metrics", "attributes", "services", "detail"}
  BY AcceptedIs
<1> QED BY <1>4, <1>5, <1>6, <1>7, <1>8

(* The rows and their order are the same for both stores, if both read the *)
(* documents alike and the mock store's rows of one time lie in the        *)
(* statements' order.                                                      *)
LEMMA SameRows ==
  ASSUME NEW p, QuestionOK(p), Accepted(p, Scope), NEW rows \in SUBSET Rows, NEW q, q = Parse(p, Scope),
         NEW r, r = Discovering(q), \A row \in rows, c \in ToSet(q.attributes) : Readable(row, c)
  PROVE  Wants(rows, r, TRUE) = Wants(rows, r, FALSE)
<1>1. r.attributes = q.attributes \/ r.attributes = <<>>
  BY DEF Discovering, Parse
<1>2. ASSUME NEW row \in rows, NEW c \in ToSet(r.attributes) PROVE SqlAttribute(row, c) <=> MockAttribute(row, c)
  <2>0. RequestOK(r)
    BY RequestIs
  <2>1. Usable(c)
    BY <2>0 DEF RequestOK, ToSet
  <2>2. c \in ToSet(q.attributes)
    <3>1. ToSet(<<>>) = {}
      BY DEF ToSet
    <3> QED BY <1>1, <1>2, <3>1
  <2> QED BY <2>1, <2>2, AttributeHolds
<1>3. \A row \in rows : Selected(row, r, TRUE) <=> Selected(row, r, FALSE)
  BY <1>2 DEF Selected
<1> QED BY <1>3 DEF Wants

LEMMA SameLists ==
  ASSUME NEW p, QuestionOK(p), Accepted(p, Scope), NEW rows \in SUBSET Rows, NEW q, q = Parse(p, Scope),
         NEW r, r = Discovering(q), NEW fake,
         \A a, b \in rows : a.time = b.time /\ KeyLess(a, b, OrderBy(q).columns) => Generated[a] < Generated[b]
  PROVE  LET found == Wants(rows, r, fake)
         IN  Ordered(found, OrderBy(r), Generated) = Ordered(found, ByTime(r), Generated)
<1> DEFINE found == Wants(rows, r, fake)
<1>1. OrderBy(r) = OrderBy(q)
  BY AcceptedIs DEF OrderBy
<1>2. found \in SUBSET Rows /\ found \in SUBSET rows
  BY DEF Wants
<1> HIDE DEF found
<1>3. \A a, b \in found : a.time = b.time /\ KeyLess(a, b, OrderBy(r).columns) => Generated[a] < Generated[b]
  BY <1>1, <1>2
<1>4. Ordered(found, OrderBy(r), Generated) = Ordered(found, ByTime(r), Generated)
  BY <1>2, <1>3, SameOrder
<1> QED BY <1>4 DEF found

(* Then the statements yield what the mock store answers.                  *)
AgreeOn(q, rows, place) ==
  [i \in DOMAIN Compile(q) |-> Run(Compile(q)[i], rows, Logs(q), place)] = MockExecute(q, rows, place)

LEMMA Agreement ==
  ASSUME NEW p, QuestionOK(p), Accepted(p, Scope), NEW rows \in SUBSET Rows, NEW q, q = Parse(p, Scope), NEW place,
         Wants(rows, Discovering(q), TRUE) = Wants(rows, Discovering(q), FALSE),
         LET found == Wants(rows, Discovering(q), TRUE)
         IN  Ordered(found, OrderBy(Discovering(q)), place) = Ordered(found, ByTime(Discovering(q)), place)
  PROVE  AgreeOn(q, rows, place)
<1> SUFFICES ASSUME NEW r, r = Discovering(q), NEW found, found = Wants(rows, r, TRUE),
                    found = Wants(rows, r, FALSE), NEW order, order = ByTime(r),
                    Ordered(found, OrderBy(r), place) = Ordered(found, order, place), NEW logs, logs = Logs(q)
             PROVE  [i \in DOMAIN Compile(q) |-> Run(Compile(q)[i], rows, logs, place)] = MockExecute(q, rows, place)
  BY DEF AgreeOn
<1>1. RequestOK(r)
  BY RequestIs
<1>2. r.operation \in {"records", "metrics", "attributes", "services", "detail"} /\ r.signal \in {"logs", "traces"}
  BY AcceptedIs
<1>3. \A s : Asks(s, r) =>
        Run(s, rows, logs, place) = Yield(found, r, s.select, s.limit, s.offset, logs, order, place)
  <2> SUFFICES ASSUME NEW s, Asks(s, r)
               PROVE  Run(s, rows, logs, place)
                        = Yield(found, r, s.select, s.limit, s.offset, logs, order, place)
    OBVIOUS
  <2>1. Run(s, rows, logs, place)
          = Yield(Wants(rows, r, FALSE), r, s.select, s.limit, s.offset, logs, OrderBy(r), place)
    <3>1. RunYields(s, r, rows, place)
      BY <1>1, RunIs
    <3> QED BY <3>1 DEF RunYields
  <2>2. Yield(found, r, s.select, s.limit, s.offset, logs, OrderBy(r), place)
          = Yield(found, r, s.select, s.limit, s.offset, logs, order, place)
    BY DEF Yield
  <2> QED BY <2>1, <2>2
<1>m. MockGives(MockExecute(q, rows, place), found, r, logs, order, place)
  BY MockIs
<1>4. CASE r.operation \in {"records", "detail"}
  <2>1. PICK s : Compile(q) = <<s>> /\ Asks(s, r) /\ s.select = r.operation /\ s.limit = r.limit + 1 /\ s.offset = r.offset
    BY <1>4, CompiledIs
  <2>2. MockExecute(q, rows, place) = <<Yield(found, r, r.operation, r.limit + 1, r.offset, logs, order, place)>>
    BY <1>4, <1>m DEF MockGives
  <2>3. Run(s, rows, logs, place) = Yield(found, r, r.operation, r.limit + 1, r.offset, logs, order, place)
    BY <1>3, <2>1
  <2>5. [i \in DOMAIN Compile(q) |-> Run(Compile(q)[i], rows, logs, place)] = <<Run(s, rows, logs, place)>>
    BY <2>1, OneByOne
  <2> QED BY <2>2, <2>3, <2>5
<1>5. CASE r.operation = "attributes"
  <2>1. PICK s : Compile(q) = <<s>> /\ Asks(s, r) /\ s.select = r.operation /\ s.limit = MaxKeys + 1
    BY <1>5, CompiledIs
  <2>2. MockExecute(q, rows, place) = <<Yield(found, r, r.operation, MaxKeys + 1, 0, logs, order, place)>>
    BY <1>5, <1>m DEF MockGives
  <2>3. Run(s, rows, logs, place) = Yield(found, r, r.operation, MaxKeys + 1, s.offset, logs, order, place)
    BY <1>3, <2>1
  <2>4. \A o : Yield(found, r, r.operation, MaxKeys + 1, o, logs, order, place) = Yield(found, r, r.operation, MaxKeys + 1, 0, logs, order, place)
    BY <1>5 DEF Yield
  <2>5. [i \in DOMAIN Compile(q) |-> Run(Compile(q)[i], rows, logs, place)] = <<Run(s, rows, logs, place)>>
    BY <2>1, OneByOne
  <2>6. Run(s, rows, logs, place) = Yield(found, r, r.operation, MaxKeys + 1, 0, logs, order, place)
    BY <2>3, <2>4
  <2> QED BY <2>2, <2>5, <2>6
<1>6. CASE r.operation = "services"
  <2>1. PICK s : Compile(q) = <<s>> /\ Asks(s, r) /\ s.select = r.operation /\ s.limit = MaxServices
    BY <1>6, CompiledIs
  <2>2. MockExecute(q, rows, place) = <<Yield(found, r, r.operation, MaxServices, 0, logs, order, place)>>
    BY <1>6, <1>m DEF MockGives
  <2>3. Run(s, rows, logs, place) = Yield(found, r, r.operation, MaxServices, s.offset, logs, order, place)
    BY <1>3, <2>1
  <2>4. \A o : Yield(found, r, r.operation, MaxServices, o, logs, order, place) = Yield(found, r, r.operation, MaxServices, 0, logs, order, place)
    BY <1>6 DEF Yield
  <2>5. [i \in DOMAIN Compile(q) |-> Run(Compile(q)[i], rows, logs, place)] = <<Run(s, rows, logs, place)>>
    BY <2>1, OneByOne
  <2>6. Run(s, rows, logs, place) = Yield(found, r, r.operation, MaxServices, 0, logs, order, place)
    BY <2>3, <2>4
  <2> QED BY <2>2, <2>5, <2>6
<1>7. CASE r.operation = "metrics"
  <2>1. MockExecute(q, rows, place) = IF r.signal = "traces"
                               THEN <<Yield(found, r, "metrics", 0, 0, logs, order, place),
                                      Yield(found, r, "summary", 0, 0, logs, order, place)>>
                               ELSE <<Yield(found, r, "metrics", 0, 0, logs, order, place)>>
    BY <1>7, <1>m DEF MockGives
  <2>2. \A l, o : /\ Yield(found, r, "metrics", l, o, logs, order, place) = Yield(found, r, "metrics", 0, 0, logs, order, place)
                  /\ Yield(found, r, "summary", l, o, logs, order, place) = Yield(found, r, "summary", 0, 0, logs, order, place)
    BY DEF Yield
  <2>3. CASE r.signal # "traces"
    <3>1. PICK s : Compile(q) = <<s>> /\ Asks(s, r) /\ s.select = "metrics"
      BY <1>7, <2>3, CompiledIs
    <3>2. Run(s, rows, logs, place) = Yield(found, r, "metrics", s.limit, s.offset, logs, order, place)
      BY <1>3, <3>1
    <3>5. [i \in DOMAIN Compile(q) |-> Run(Compile(q)[i], rows, logs, place)] = <<Run(s, rows, logs, place)>>
      BY <3>1, OneByOne
    <3>6. Run(s, rows, logs, place) = Yield(found, r, "metrics", 0, 0, logs, order, place)
      BY <2>2, <3>2
    <3> QED BY <2>1, <2>3, <3>5, <3>6
  <2>4. CASE r.signal = "traces"
    <3>1. PICK s, u : Compile(q) = <<s, u>> /\ Asks(s, r) /\ s.select = "metrics" /\ Asks(u, r) /\ u.select = "summary"
      BY <1>7, <2>4, CompiledIs
    <3>2. Run(s, rows, logs, place) = Yield(found, r, "metrics", s.limit, s.offset, logs, order, place)
      BY <1>3, <3>1
    <3>3. Run(u, rows, logs, place) = Yield(found, r, "summary", u.limit, u.offset, logs, order, place)
      BY <1>3, <3>1
    <3>5. [i \in DOMAIN Compile(q) |-> Run(Compile(q)[i], rows, logs, place)]
            = <<Run(s, rows, logs, place), Run(u, rows, logs, place)>>
      BY <3>1, TwoByTwo
    <3>6. /\ Run(s, rows, logs, place) = Yield(found, r, "metrics", 0, 0, logs, order, place)
          /\ Run(u, rows, logs, place) = Yield(found, r, "summary", 0, 0, logs, order, place)
      BY <2>2, <3>2, <3>3
    <3> QED BY <2>1, <2>4, <3>5, <3>6
  <2> QED BY <2>3, <2>4
<1> QED BY <1>2, <1>4, <1>5, <1>6, <1>7

-----------------------------------------------------------------------------
(* Pages.                                                                  *)

(* The store that answers sorts in its own way; the database also chooses  *)
(* how rows lie that its order does not tell apart.                        *)
Sorting(q, fake) == IF fake THEN ByTime(q) ELSE OrderBy(q)
Layouts(fake) == IF fake THEN {Generated} ELSE Places

(* The rows of a page, with their places in the whole listing.             *)
Listing(S, q, fake, place) == Ordered(Wants(S, q, fake), Sorting(q, fake), place)
PageOf(S, q, fake, place) == Page(Listing(S, q, fake, place), q.limit + 1, q.offset)
Place(row, S, q, fake, place) == Rank(row, Wants(S, q, fake), Sorting(q, fake), place)

(* A row whose place is the same in every execution.                       *)
Alone(row, S, q, fake) == fake \/ \A twin \in Wants(S, q, fake) : ~Tied(row, twin, OrderBy(q))

(* The rows not yet shown: each that is alone has at least n rows before   *)
(* it; at the end only rows that are not alone were not shown.             *)
Unseen(S, q, f, g, n, fake) ==
  \A row \in Wants(f, q, fake) \ g :
    Alone(row, S, q, fake) => \A place \in Layouts(fake) : Place(row, S, q, fake, place) >= n
Settled(S, q, f, g, fake) == \A row \in Wants(f, q, fake) \ g : ~Alone(row, S, q, fake)

(* What the lemmas about order ask of a store's sorting.                   *)
LEMMA SortingIs ==
  ASSUME NEW q, NEW fake \in BOOLEAN, NEW place \in Layouts(fake)
  PROVE  Sortable(Sorting(q, fake).columns) /\ place \in Layout
<1>1. Sortable(Sorting(q, fake).columns)
  BY ColumnsAre DEF Sorting
<1>2. place \in Layout
  BY DEF Layouts, Layout
<1> QED BY <1>1, <1>2

(* The listing of a snapshot has each matching row at its place.           *)
Arranged(S, q, fake, place) ==
  \E n \in Nat :
    /\ Listing(S, q, fake, place) \in [1 .. n -> Wants(S, q, fake)] /\ Len(Listing(S, q, fake, place)) = n
    /\ \A a \in Wants(S, q, fake) :
         /\ Place(a, S, q, fake, place) + 1 \in 1 .. n
         /\ Listing(S, q, fake, place)[Place(a, S, q, fake, place) + 1] = a
    /\ \A a \in Rows : Place(a, S, q, fake, place) \in Nat

LEMMA ListingIs ==
  ASSUME NEW S \in SUBSET Rows, NEW q, NEW fake \in BOOLEAN, NEW place \in Layouts(fake)
  PROVE  Arranged(S, q, fake, place)
<1> DEFINE W == Wants(S, q, fake)
           n == Cardinality(W)
           order == Sorting(q, fake)
           list == Listing(S, q, fake, place)
<1>1. W \in SUBSET Rows /\ n \in Nat
  BY FoundFinite
<1>2. Sortable(order.columns) /\ place \in Layout
  BY SortingIs
<1>3. list = Ordered(W, order, place) /\ \A a : Place(a, S, q, fake, place) = Rank(a, W, order, place)
  BY DEF Listing, Place
<1>4. /\ list \in [1 .. n -> W]
      /\ \A a \in W : Place(a, S, q, fake, place) + 1 \in 1 .. n /\ list[Place(a, S, q, fake, place) + 1] = a
  <2> HIDE DEF W, order, list
  <2> QED BY <1>1, <1>2, <1>3, OrderedIs
<1>5. \A a \in Rows : Place(a, S, q, fake, place) \in Nat
  <2> HIDE DEF W, order, list
  <2> QED BY <1>1, <1>2, <1>3, RankIs
<1>6. Len(list) = n
  <2> HIDE DEF W, n, list
  <2> QED BY <1>1, <1>4, IsSequence
<1> HIDE DEF n
<1> QED BY <1>1, <1>4, <1>5, <1>6 DEF Arranged

(* Rows that are stored while the pages are read leave what is unseen      *)
(* behind the page, and no row becomes alone.                              *)
LEMMA UnseenGrows ==
  ASSUME NEW T \in SUBSET Rows, NEW S \in SUBSET T, NEW q, NEW fake \in BOOLEAN, NEW f \in SUBSET Rows, NEW g,
         NEW n \in Nat, Unseen(S, q, f, g, n, fake)
  PROVE  Unseen(T, q, f, g, n, fake)
<1>1. Wants(S, q, fake) \in SUBSET Wants(T, q, fake) /\ Wants(T, q, fake) \in SUBSET Rows
      /\ Wants(f, q, fake) \in SUBSET Rows
  BY DEF Wants
<1> SUFFICES ASSUME NEW row \in Wants(f, q, fake) \ g, Alone(row, T, q, fake), NEW place \in Layouts(fake)
             PROVE  Place(row, T, q, fake, place) >= n
  BY DEF Unseen
<1>2. Alone(row, S, q, fake)
  BY <1>1 DEF Alone
<1>3. Place(row, S, q, fake, place) >= n
  BY <1>2 DEF Unseen
<1>4. row \in Rows
  BY <1>1
<1>5. Place(row, S, q, fake, place) <= Place(row, T, q, fake, place)
  <2>1. Sortable(Sorting(q, fake).columns) /\ place \in Layout
    BY SortingIs
  <2> QED BY <1>1, <1>4, <2>1, RankGrows DEF Place
<1>6. Place(row, S, q, fake, place) \in Nat /\ Place(row, T, q, fake, place) \in Nat
  <2>1. S \in SUBSET Rows
    OBVIOUS
  <2>2. Arranged(S, q, fake, place) /\ Arranged(T, q, fake, place)
    BY <2>1, ListingIs
  <2> QED BY <1>4, <2>2 DEF Arranged
<1> QED BY <1>3, <1>5, <1>6

LEMMA SettledGrows ==
  ASSUME NEW T, NEW S \in SUBSET T, NEW q, NEW fake, NEW f, NEW g, Settled(S, q, f, g, fake)
  PROVE  Settled(T, q, f, g, fake)
<1>1. Wants(S, q, fake) \in SUBSET Wants(T, q, fake)
  BY DEF Wants
<1>2. \A row : Alone(row, T, q, fake) => Alone(row, S, q, fake)
  BY <1>1 DEF Alone
<1> QED BY <1>2 DEF Settled

(* A row that is alone has the same place in every execution.              *)
LEMMA PlaceFixed ==
  ASSUME NEW S \in SUBSET Rows, NEW q, NEW fake \in BOOLEAN, NEW row \in Rows, Alone(row, S, q, fake),
         NEW place \in Layouts(fake), NEW other \in Layouts(fake)
  PROVE  Place(row, S, q, fake, place) = Place(row, S, q, fake, other)
<1>1. CASE fake
  BY <1>1 DEF Layouts
<1>2. CASE ~fake
  <2>1. Sorting(q, fake) = OrderBy(q) /\ \A twin \in Wants(S, q, fake) : ~Tied(row, twin, OrderBy(q))
    BY <1>2 DEF Sorting, Alone
  <2>2. Sortable(OrderBy(q).columns) /\ place \in Layout /\ other \in Layout
    BY <2>1, SortingIs
  <2>3. Wants(S, q, fake) \in SUBSET Rows
    BY DEF Wants
  <2>4. Rank(row, Wants(S, q, fake), OrderBy(q), place) = Rank(row, Wants(S, q, fake), OrderBy(q), other)
    BY <2>1, <2>2, <2>3, RankFixed
  <2> QED BY <2>1, <2>4 DEF Place
<1> QED BY <1>1, <1>2

(* A page shows the rows from its offset on, and at least all of them that *)
(* the next page begins behind.                                            *)
Shows(S, q, fake, place, f, g, shown) ==
  LET data == PageOf(S, q, fake, place)
  IN  /\ Len(data) \in Nat /\ ToSet(shown) \in SUBSET Wants(S, q, fake)
      /\ Len(data) > q.limit => Unseen(S, q, f, g \cup ToSet(shown), q.offset + q.limit, fake)
      /\ Len(data) <= q.limit => Settled(S, q, f, g \cup ToSet(shown), fake)

LEMMA PageShows ==
  ASSUME NEW S \in SUBSET Rows, NEW q, NEW fake \in BOOLEAN, NEW place \in Layouts(fake), NEW f \in SUBSET S, NEW g,
         q.limit \in Nat \ {0}, q.offset \in Nat, Unseen(S, q, f, g, q.offset, fake),
         NEW shown,
         shown = LET data == PageOf(S, q, fake, place)
                 IN  IF Len(data) > q.limit THEN SubSeq(data, 1, q.limit) ELSE data
  PROVE  Shows(S, q, fake, place, f, g, shown)
<1> SUFFICES ASSUME NEW data, data = PageOf(S, q, fake, place),
                    shown = IF Len(data) > q.limit THEN SubSeq(data, 1, q.limit) ELSE data
             PROVE  Shows(S, q, fake, place, f, g, shown)
  OBVIOUS
<1> DEFINE s == Listing(S, q, fake, place)
           o == q.offset
           l == q.limit
           W == Wants(S, q, fake)
<1>1. PICK n \in Nat :
        /\ s \in [1 .. n -> W] /\ Len(s) = n
        /\ \A a \in W : Place(a, S, q, fake, place) + 1 \in 1 .. n /\ s[Place(a, S, q, fake, place) + 1] = a
        /\ \A a \in Rows : Place(a, S, q, fake, place) \in Nat
  <2>1. Arranged(S, q, fake, place)
    BY ListingIs
  <2> QED BY <2>1 DEF Arranged
<1>2. o \in Nat /\ l \in Nat \ {0}
  OBVIOUS
<1> DEFINE last == IF o + (l + 1) <= n THEN o + (l + 1) ELSE n
           size == IF o <= last THEN last - o ELSE 0
<1>3. data = SubSeq(s, o + 1, last)
  BY <1>1 DEF PageOf, Page, AtMost
<1>4. last \in Nat /\ size \in Nat /\ last <= n
  BY <1>1, <1>2
<1> HIDE DEF s, o, l, W
<1>5. data \in Seq(W) /\ Len(data) = size /\ \A i \in 1 .. size : data[i] = s[o + i]
  <2> HIDE DEF last
  <2>1. \A i \in o + 1 .. last : s[i] \in W
    BY <1>1, <1>2, <1>4
  <2>2. o + 1 \in Int /\ last \in Int
    BY <1>2, <1>4
  <2>3. /\ data \in Seq(W) /\ Len(data) = (IF o + 1 <= last THEN last - (o + 1) + 1 ELSE 0)
        /\ \A i \in 1 .. last - (o + 1) + 1 : data[i] = s[o + 1 + i - 1]
    BY <1>3, <2>1, <2>2, SubSeqProperties
  <2>4. \A i \in 1 .. size : i \in 1 .. last - (o + 1) + 1 /\ o + 1 + i - 1 = o + i
    BY <1>2, <1>4
  <2>5. (IF o + 1 <= last THEN last - (o + 1) + 1 ELSE 0) = size
    BY <1>2, <1>4
  <2> QED BY <2>3, <2>4, <2>5
<1> DEFINE size2 == IF size > l THEN l ELSE size
<1>6. shown \in Seq(W) /\ Len(shown) = size2 /\ \A i \in 1 .. size2 : shown[i] = s[o + i]
  <2>1. CASE size > l
    <3>1. shown = SubSeq(data, 1, l)
      BY <1>5, <2>1 DEF l
    <3>2. \A i \in 1 .. l : data[i] \in W /\ i \in 1 .. size
      <4> HIDE DEF size
      <4> QED BY <1>2, <1>4, <1>5, <2>1, ElementOfSeq
    <3>3. /\ shown \in Seq(W) /\ Len(shown) = l
          /\ \A i \in 1 .. l : shown[i] = data[i]
      <4> HIDE DEF size
      <4>1. 1 \in Int /\ l \in Int /\ 1 <= l /\ l - 1 + 1 = l
        BY <1>2
      <4>2. /\ shown \in Seq(W) /\ Len(shown) = (IF 1 <= l THEN l - 1 + 1 ELSE 0)
            /\ \A i \in 1 .. l - 1 + 1 : shown[i] = data[1 + i - 1]
        BY <3>1, <3>2, <4>1, SubSeqProperties
      <4>3. \A i \in 1 .. l : 1 + i - 1 = i
        BY <1>2
      <4> QED BY <4>1, <4>2, <4>3
    <3> HIDE DEF size
    <3> QED BY <1>5, <2>1, <3>2, <3>3
  <2>2. CASE ~(size > l)
    <3>1. shown = data
      BY <1>5, <2>2 DEF l
    <3> HIDE DEF size
    <3> QED BY <1>5, <2>2, <3>1
  <2> HIDE DEF size, size2
  <2> QED BY <2>1, <2>2
<1>7. size2 \in Nat /\ (size > l => size2 = l /\ o + l < last) /\ (size <= l => size2 = size)
  BY <1>2, <1>4
<1>8. ToSet(shown) \in SUBSET W
  <2> HIDE DEF size2
  <2> QED BY <1>6 DEF ToSet
<1>9. ASSUME NEW a \in Wants(f, q, fake) \ g, Alone(a, S, q, fake), Place(a, S, q, fake, place) < o + size2 PROVE a \in ToSet(shown)
  <2> DEFINE k == Place(a, S, q, fake, place)
  <2>1. a \in W /\ a \in Rows
    BY DEF W, Wants
  <2>2. k \in Nat /\ k + 1 \in 1 .. n /\ s[k + 1] = a
    BY <1>1, <2>1
  <2>3. k >= o
    BY <1>9 DEF Unseen, o
  <2> HIDE DEF size2, k
  <2>4. k < o + size2
    BY <1>9 DEF k
  <2>5. k - o + 1 \in 1 .. size2 /\ o + (k - o + 1) = k + 1
    BY <1>2, <1>7, <2>2, <2>3, <2>4
  <2>6. shown[k - o + 1] = a
    BY <1>6, <2>2, <2>5
  <2>7. k - o + 1 \in DOMAIN shown
    BY <1>6, <2>5, LenProperties
  <2> QED BY <2>6, <2>7 DEF ToSet
<1>10. ASSUME NEW a \in Wants(f, q, fake) \ g, Alone(a, S, q, fake), size <= l PROVE a \in ToSet(shown)
  <2> DEFINE k == Place(a, S, q, fake, place)
  <2>1. a \in W /\ a \in Rows
    BY DEF W, Wants
  <2>2. k \in Nat /\ k + 1 \in 1 .. n
    BY <1>1, <2>1
  <2>3. k >= o
    BY <1>10 DEF Unseen, o
  <2> HIDE DEF k
  <2>4. last = n
    BY <1>1, <1>2, <1>10
  <2>5. k < o + size2
    BY <1>1, <1>2, <1>7, <1>10, <2>2, <2>3, <2>4
  <2> HIDE DEF size2, size, last
  <2> QED BY <1>9, <1>10, <2>5 DEF k
<1>11. size > l => Unseen(S, q, f, g \cup ToSet(shown), o + l, fake)
  <2> SUFFICES ASSUME size > l, NEW a \in Wants(f, q, fake) \ (g \cup ToSet(shown)), Alone(a, S, q, fake),
                      NEW other \in Layouts(fake)
               PROVE  Place(a, S, q, fake, other) >= o + l
    BY DEF Unseen
  <2>1. a \in Rows /\ a \in Wants(f, q, fake) \ g /\ a \notin ToSet(shown)
    BY DEF Wants
  <2>2. Place(a, S, q, fake, place) \in Nat
    BY <1>1, <2>1
  <2> HIDE DEF size2
  <2>3. ~(Place(a, S, q, fake, place) < o + size2)
    BY <1>9, <2>1
  <2>4. Place(a, S, q, fake, other) = Place(a, S, q, fake, place)
    BY <2>1, PlaceFixed
  <2> QED BY <1>2, <1>7, <2>2, <2>3, <2>4
<1>12. size <= l => Settled(S, q, f, g \cup ToSet(shown), fake)
  BY <1>10 DEF Settled
<1> HIDE DEF size, size2, last
<1> QED BY <1>4, <1>5, <1>8, <1>11, <1>12 DEF o, l, W, Shows

(* The records of parameters, so that one of them replaced leaves a record *)
(* of parameters.                                                          *)
Parameters(attributes) ==
  [signal : {"logs", "traces"}, operation : STRING, from : Int, to : Int, q : STRING,
   attributes : attributes, service : Seq(STRING), severity : Seq(STRING),
   status : Seq(STRING), env : STRING, trace : STRING, limit : Int, offset : Int,
   minDuration : Int, discovery : STRING, keySearch : STRING]

(* Another offset leaves them parameters.                                  *)
LEMMA OffsetReplaced ==
  ASSUME NEW A, NEW n \in Int, NEW p \in Parameters(A)
  PROVE  [p EXCEPT !.offset = n] \in Parameters(A)
BY DEF Parameters

(* The next page is the same question, but for the offset.                 *)
LEMMA NextQuestion ==
  ASSUME NEW p, QuestionOK(p), NEW n \in Nat, NEW t, t = [p EXCEPT !.offset = n]
  PROVE  /\ QuestionOK(t) /\ From(t) = From(p) /\ t.to = p.to /\ t.offset = n /\ t.limit = p.limit
         /\ t.operation = p.operation
         /\ \A S, fake : Wants(S, Parse(t, Scope), fake) = Wants(S, Parse(p, Scope), fake)
         /\ OrderBy(Parse(t, Scope)) = OrderBy(Parse(p, Scope)) /\ ByTime(Parse(t, Scope)) = ByTime(Parse(p, Scope))
<1> DEFINE q == Parse(p, Scope)
           u == Parse(t, Scope)
<1>1. /\ p \in [signal : {"logs", "traces"}, operation : STRING, from : Int, to : Int, q : STRING,
                attributes : Seq(ToSet(p.attributes)), service : Seq(STRING), severity : Seq(STRING),
                status : Seq(STRING), env : STRING, trace : STRING, limit : Int, offset : Int,
                minDuration : Int, discovery : STRING, keySearch : STRING]
      /\ \A c \in ToSet(p.attributes) : ConditionOK(c)
  BY DEF QuestionOK
<1>2. /\ t.signal = p.signal /\ t.operation = p.operation /\ t.from = p.from /\ t.to = p.to /\ t.q = p.q
      /\ t.attributes = p.attributes /\ t.service = p.service /\ t.severity = p.severity
      /\ t.status = p.status /\ t.env = p.env /\ t.trace = p.trace /\ t.limit = p.limit
      /\ t.offset = n /\ t.minDuration = p.minDuration /\ t.discovery = p.discovery
      /\ t.keySearch = p.keySearch
  BY <1>1
<1>3. t \in Parameters(Seq(ToSet(t.attributes)))
  <2>1. p \in Parameters(Seq(ToSet(p.attributes)))
    BY <1>1 DEF Parameters
  <2>2. n \in Int
    OBVIOUS
  <2>3. t \in Parameters(Seq(ToSet(p.attributes)))
    BY <2>1, <2>2, OffsetReplaced
  <2> QED BY <1>2, <2>3
<1>4. QuestionOK(t)
  BY <1>1, <1>2, <1>3 DEF QuestionOK, Parameters
<1>5. From(t) = From(p)
  BY <1>2 DEF From
<1>6. /\ u.signal = q.signal /\ u.operation = q.operation /\ u.scope = q.scope /\ u.from = q.from /\ u.to = q.to
      /\ u.env = q.env /\ u.trace = q.trace /\ u.search = q.search /\ u.attributes = q.attributes
      /\ u.services = q.services /\ u.severities = q.severities /\ u.statuses = q.statuses
      /\ u.minDuration = q.minDuration
  BY <1>2, <1>5 DEF Parse
<1>7. \A row, fake : Selected(row, u, fake) <=> Selected(row, q, fake)
  <2> HIDE DEF u, q
  <2>1. ServerOnly(u) <=> ServerOnly(q)
    BY <1>6 DEF ServerOnly
  <2>2. \A row : Fits(row, u) <=> Fits(row, q)
    BY <1>6, <2>1 DEF Fits
  <2> QED BY <1>6, <2>2 DEF Selected
<1>8. \A S, fake : Wants(S, u, fake) = Wants(S, q, fake)
  <2> HIDE DEF u, q
  <2> QED BY <1>7 DEF Wants
<1>9. OrderBy(u) = OrderBy(q) /\ ByTime(u) = ByTime(q)
  <2> HIDE DEF u, q
  <2> QED BY <1>6 DEF OrderBy, ByTime
<1> QED BY <1>2, <1>4, <1>5, <1>8, <1>9

(* What the statements read from a snapshot, when pages or buckets are     *)
(* asked for.                                                              *)
LEMMA PagesRead ==
  ASSUME NEW p, QuestionOK(p), Accepted(p, Scope), NEW S \in SUBSET Rows, NEW q, q = Parse(p, Scope), Paged(q),
         NEW place
  PROVE  /\ Len(Compile(q)) = 1 /\ Run(Compile(q)[1], S, Logs(q), place) = PageOf(S, q, FALSE, place)
         /\ MockExecute(q, S, place) = <<PageOf(S, q, TRUE, place)>>
<1> DEFINE r == Discovering(q)
           logs == Logs(q)
           page(fake) == Yield(Wants(S, q, fake), q, q.operation, q.limit + 1, q.offset, logs, Sorting(q, fake), place)
<1>1. r = q /\ q.operation \in {"records", "detail"} /\ RequestOK(r)
  <2>1. q.operation \in {"records", "detail"}
    BY DEF Paged
  <2>2. r = q
    BY <2>1, AcceptedIs
  <2> QED BY <2>1, <2>2, RequestIs
<1>2. MockExecute(q, S, place) = <<page(TRUE)>>
  <2>1. MockGives(MockExecute(q, S, place), Wants(S, r, TRUE), r, logs, ByTime(r), place)
    BY MockIs
  <2>2. ByTime(r) = Sorting(q, TRUE)
    BY <1>1 DEF Sorting
  <2> HIDE DEF r, logs
  <2> QED BY <1>1, <2>1, <2>2 DEF MockGives
<1>3. PICK s : Compile(q) = <<s>> /\ Asks(s, q) /\ s.select = q.operation /\ s.limit = q.limit + 1 /\ s.offset = q.offset
  <2> HIDE DEF r
  <2> QED BY <1>1, CompiledIs DEF r
<1>4. Run(s, S, logs, place) = page(FALSE)
  <2>1. RunYields(s, q, S, place)
    BY <1>1, <1>3, RunIs
  <2>2. OrderBy(q) = Sorting(q, FALSE)
    BY DEF Sorting
  <2> HIDE DEF r, logs
  <2> QED BY <1>3, <2>1, <2>2 DEF RunYields
<1>5. \A fake : page(fake) = PageOf(S, q, fake, place)
  BY <1>1 DEF Yield, PageOf, Listing
<1>6. Len(<<s>>) = 1 /\ <<s>>[1] = s
  OBVIOUS
<1> HIDE DEF page
<1> QED BY <1>2, <1>3, <1>4, <1>5, <1>6 DEF logs

(* The same for the buckets of a chart and its summary.                    *)
LEMMA BucketsRead ==
  ASSUME NEW p, QuestionOK(p), Accepted(p, Scope), NEW S \in SUBSET Rows, NEW q, q = Parse(p, Scope),
         q.operation = "metrics", NEW place
  PROVE  /\ Len(Compile(q)) \in {1, 2}
         /\ Run(Compile(q)[1], S, Logs(q), place) = Grouped(Wants(S, q, FALSE), Logs(q))
         /\ Len(Compile(q)) = 2 => Run(Compile(q)[2], S, Logs(q), place) = Count(Wants(S, q, FALSE))
         /\ MockExecute(q, S, place) = IF Len(Compile(q)) = 2
                                       THEN <<Grouped(Wants(S, q, TRUE), Logs(q)), Count(Wants(S, q, TRUE))>>
                                       ELSE <<Grouped(Wants(S, q, TRUE), Logs(q))>>
<1> DEFINE r == Discovering(q)
           logs == Logs(q)
           order == ByTime(r)
           found == Wants(S, q, TRUE)
           chosen == Wants(S, q, FALSE)
<1>1. r = q /\ RequestOK(r)
  <2>1. r = q
    BY AcceptedIs
  <2> QED BY <2>1, RequestIs
<1>2. \A W, l, o, by : /\ Yield(W, q, "metrics", l, o, logs, by, place) = Grouped(W, logs)
                       /\ Yield(W, q, "summary", l, o, logs, by, place) = Count(W)
  BY DEF Yield
<1>3. MockExecute(q, S, place) = IF q.signal = "traces" THEN <<Grouped(found, logs), Count(found)>>
                                 ELSE <<Grouped(found, logs)>>
  <2>1. MockGives(MockExecute(q, S, place), Wants(S, r, TRUE), r, logs, order, place)
    BY MockIs
  <2> HIDE DEF r, logs, order, found
  <2>2. MockGives(MockExecute(q, S, place), found, q, logs, order, place)
    BY <1>1, <2>1 DEF found
  <2>3. MockExecute(q, S, place) = IF q.signal = "traces"
                                   THEN <<Yield(found, q, "metrics", 0, 0, logs, order, place),
                                          Yield(found, q, "summary", 0, 0, logs, order, place)>>
                                   ELSE <<Yield(found, q, "metrics", 0, 0, logs, order, place)>>
    BY <2>2 DEF MockGives
  <2>4. /\ Yield(found, q, "metrics", 0, 0, logs, order, place) = Grouped(found, logs)
        /\ Yield(found, q, "summary", 0, 0, logs, order, place) = Count(found)
    BY <1>2
  <2> QED BY <2>3, <2>4
<1>4. \A s : Asks(s, q) => Run(s, S, logs, place) = Yield(chosen, q, s.select, s.limit, s.offset, logs, OrderBy(q), place)
  <2> SUFFICES ASSUME NEW s, Asks(s, q)
               PROVE  Run(s, S, logs, place) = Yield(chosen, q, s.select, s.limit, s.offset, logs, OrderBy(q), place)
    OBVIOUS
  <2>1. RunYields(s, q, S, place)
    BY <1>1, RunIs
  <2> HIDE DEF r, logs
  <2> QED BY <2>1 DEF RunYields
<1> HIDE DEF found, chosen, logs, order
<1>5. CASE q.signal # "traces"
  <2>1. PICK s : Compile(q) = <<s>> /\ Asks(s, q) /\ s.select = "metrics"
    <3> HIDE DEF r
    <3> QED BY <1>1, <1>5, CompiledIs DEF r
  <2>2. Run(s, S, logs, place) = Grouped(chosen, logs)
    BY <1>2, <1>4, <2>1
  <2>3. Len(<<s>>) = 1 /\ <<s>>[1] = s
    OBVIOUS
  <2>4. Len(Compile(q)) = 1 /\ Compile(q)[1] = s /\ 1 # 2
    BY <2>1, <2>3
  <2>5. MockExecute(q, S, place) = <<Grouped(found, logs)>>
    BY <1>3, <1>5
  <2> QED BY <2>2, <2>4, <2>5 DEF found, chosen, logs
<1>6. CASE q.signal = "traces"
  <2>1. PICK s, u : Compile(q) = <<s, u>> /\ Asks(s, q) /\ s.select = "metrics" /\ Asks(u, q) /\ u.select = "summary"
    <3> HIDE DEF r
    <3> QED BY <1>1, <1>6, CompiledIs DEF r
  <2>2. Run(s, S, logs, place) = Grouped(chosen, logs)
    BY <1>2, <1>4, <2>1
  <2>3. Run(u, S, logs, place) = Count(chosen)
    BY <1>2, <1>4, <2>1
  <2>4. Len(<<s, u>>) = 2 /\ <<s, u>>[1] = s /\ <<s, u>>[2] = u
    OBVIOUS
  <2>5. Len(Compile(q)) = 2 /\ Compile(q)[1] = s /\ Compile(q)[2] = u
    BY <2>1, <2>4
  <2>6. MockExecute(q, S, place) = <<Grouped(found, logs), Count(found)>>
    BY <1>3, <1>6
  <2> QED BY <2>2, <2>3, <2>5, <2>6 DEF found, chosen, logs
<1> QED BY <1>5, <1>6

-----------------------------------------------------------------------------
(* The service, step by step: types, and agreement of the stores.          *)

(* Types, and that a question being answered was accepted.                 *)
Typed ==
  /\ mock \in BOOLEAN /\ stored \in SUBSET Rows /\ first \in SUBSET stored
  /\ phase \in {"idle", "refused", "executing", "answered"}
  /\ phase # "executing" => result = <<>>
  /\ phase \in {"executing", "answered"} => QuestionOK(ask) /\ Accepted(ask, Scope)
  /\ phase = "answered" => answer.next \in Nat

(* A snapshot that was read is one the table had since the question came,  *)
(* and what a page from it does not show has its place behind the page, if *)
(* it has one place only.                                                  *)
Paging ==
  /\ phase = "executing" /\ Paged(Request) =>
       \/ result = <<>> /\ Unseen(stored, Request, first, given, Request.offset, mock)
       \/ \E S \in SUBSET stored, place \in Layouts(mock) :
            /\ first \subseteq S /\ result = <<PageOf(S, Request, mock, place)>>
            /\ Unseen(S, Request, first, given, Request.offset, mock)
  /\ phase = "answered" /\ Paged(Request) =>
       IF answer.truncated
       THEN /\ answer.next \in {0, Request.offset + Request.limit}
            /\ Unseen(stored, Request, first, given, Request.offset + Request.limit, mock)
       ELSE answer.next = 0 /\ Settled(stored, Request, first, given, mock)

(* What the answer says of the next page.                                  *)
LEMMA ResponseIs ==
  ASSUME NEW r, NEW data, NEW summary, NEW a, a = Response(r, data, summary)
  PROVE  /\ Paged(r) => /\ a.truncated <=> Len(data) > r.limit
                        /\ a.data = IF Len(data) > r.limit THEN SubSeq(data, 1, r.limit) ELSE data
                        /\ a.next \in {0, r.offset + r.limit}
                        /\ ~a.truncated => a.next = 0
         /\ ~Paged(r) => a.next = 0
<1>1. Paged(r) => Listed(r) /\ r.operation \notin {"attributes", "metrics"}
  BY DEF Paged, Listed
<1>2. ~Paged(r) => ~Listed(r) \/ r.operation = "attributes"
  BY DEF Paged, Listed
<1> QED BY <1>1, <1>2 DEF Response

(* Every step keeps the types.                                             *)
LEMMA TypedStep ==
  ASSUME Typed, [Next]_vars
  PROVE  Typed'
<1> USE DEF Typed
<1>1. CASE UNCHANGED vars
  BY <1>1 DEF vars, walk
<1>2. ASSUME NEW row \in Rows, Insert(row) PROVE Typed'
  BY <1>2 DEF Insert, walk
<1>3. ASSUME NEW p \in Questions, Ask(p) PROVE Typed'
  BY <1>3, ServiceAssumption DEF Ask
<1>4. CASE Execute
  BY <1>4 DEF Execute, walk
<1>5. CASE ExecuteMock
  BY <1>5 DEF ExecuteMock, walk
<1>6. CASE Respond
  <2> DEFINE data == result[1]
  <2>1. phase = "executing" /\ answer' = Response(Request, data, Tail(result))
    BY <1>6 DEF Respond
  <2>2. answer'.next \in Nat
    <3>1. Paged(Request) => Request.limit \in Nat /\ Request.offset \in Nat
      BY <2>1, AcceptedIs DEF Request, Paged
    <3>2. answer'.next = 0 \/ (Paged(Request) /\ answer'.next = Request.offset + Request.limit)
      BY <2>1, ResponseIs
    <3> QED BY <3>1, <3>2
  <2> QED BY <1>6, <2>1, <2>2 DEF Respond
<1>7. CASE Follow
  <2>1. /\ phase = "answered" /\ ask' = [ask EXCEPT !.offset = answer.next]
        /\ phase' = IF Accepted(ask', Scope) THEN "executing" ELSE "refused"
        /\ UNCHANGED <<mock, stored, result, first, given>>
    BY <1>7 DEF Follow, walk
  <2>2. QuestionOK(ask')
    BY <2>1, NextQuestion
  <2> QED BY <2>1, <2>2
<1>8. CASE Leave
  BY <1>8 DEF Leave
<1> QED BY <1>1, <1>2, <1>3, <1>4, <1>5, <1>6, <1>7, <1>8 DEF Next

(* They hold at first.                                                     *)
LEMMA TypedFirst == Init => Typed
BY DEF Init, Typed

(* So they hold in every state.                                            *)
LEMMA AlwaysTyped == Spec => []Typed
BY TypedFirst, TypedStep, PTL DEF Spec

(* Then what is being answered is the same from both stores.               *)
LEMMA Agrees == Typed => MockAgreesWithDatabase
<1> SUFFICES ASSUME Typed, phase = "executing", GeneratedInOrder,
                    \A row \in stored, c \in ToSet(Request.attributes) : Readable(row, c)
             PROVE  SameAnswer
  BY DEF MockAgreesWithDatabase
<1> DEFINE q == Request
           r == Discovering(q)
           found == Wants(stored, r, TRUE)
<1>1. QuestionOK(ask) /\ Accepted(ask, Scope) /\ stored \in SUBSET Rows /\ q = Parse(ask, Scope)
  BY DEF Typed, Request
<1>2. found = Wants(stored, r, FALSE)
  <2> HIDE DEF q
  <2> QED BY <1>1, SameRows DEF q
<1>3. Ordered(found, OrderBy(r), Generated) = Ordered(found, ByTime(r), Generated)
  <2>1. \A a, b \in stored : a.time = b.time /\ KeyLess(a, b, OrderBy(q).columns) => Generated[a] < Generated[b]
    BY DEF GeneratedInOrder
  <2> HIDE DEF q
  <2> QED BY <1>1, <2>1, SameLists
<1>4. AgreeOn(q, stored, Generated)
  <2> HIDE DEF q
  <2> QED BY <1>1, <1>2, <1>3, Agreement
<1> QED BY <1>4 DEF AgreeOn, SameAnswer, Statements

(***************************************************************************)
(* Whatever is asked and stored, the statements the backend builds for     *)
(* ClickHouse yield what its mock store answers over the same rows         *)
(* (demos with MOCK and the tests rely on it), provided that both stores   *)
(* read the documents of the rows alike, which strconv.Atoi and the digit  *)
(* test of jsonPath do not always, and that rows of one time were generated*)
(* in the order of the statement: every placeholder is bound to the        *)
(* argument that was meant for it, and each clause says the same in SQL    *)
(* and in Go.                                                              *)
(***************************************************************************)
THEOREM MockAgreement == Spec => []MockAgreesWithDatabase
BY AlwaysTyped, Agrees, PTL
-----------------------------------------------------------------------------
(* A page is read from the rows stored at that moment, whoever answers.    *)
LEMMA PageIsRead ==
  ASSUME Typed, Paging, Paged(Request), Execute \/ ExecuteMock
  PROVE  result = <<>> /\ \E place \in Layouts(mock) : result' = <<PageOf(stored, Request, mock, place)>>
<1>1. phase = "executing" /\ QuestionOK(ask) /\ Accepted(ask, Scope) /\ stored \in SUBSET Rows
  BY DEF Typed, Execute, ExecuteMock
<1>2. \A place :
        /\ Len(Statements) = 1
        /\ Run(Statements[1], stored, Logs(Request), place) = PageOf(stored, Request, FALSE, place)
        /\ MockExecute(Request, stored, place) = <<PageOf(stored, Request, TRUE, place)>>
  BY <1>1, PagesRead DEF Statements, Request
<1>3. CASE Execute
  <2>1. PICK place \in Places :
          result' = Append(result, Run(Statements[Len(result) + 1], stored, Logs(Request), place))
    BY <1>3 DEF Execute
  <2>2. mock = FALSE /\ Len(result) < 1 /\ place \in Layouts(mock)
    BY <1>2, <1>3 DEF Execute, Layouts, Typed
  <2>3. result = <<>> \/ \E data : result = <<data>>
    BY <1>1 DEF Paging
  <2>4. \A data : ~(Len(<<data>>) < 1)
    OBVIOUS
  <2>5. result = <<>> /\ Len(<<>>) + 1 = 1 /\ \A x : Append(<<>>, x) = <<x>>
    BY <2>2, <2>3, <2>4
  <2>6. result' = <<Run(Statements[1], stored, Logs(Request), place)>>
    BY <2>1, <2>5
  <2>7. result' = <<PageOf(stored, Request, mock, place)>>
    BY <1>2, <2>2, <2>6
  <2> QED BY <2>2, <2>5, <2>7
<1>4. CASE ExecuteMock
  <2>1. mock = TRUE /\ result = <<>> /\ result' = MockExecute(Request, stored, Generated) /\ Generated \in Layouts(mock)
    BY <1>4 DEF ExecuteMock, Layouts, Typed
  <2>2. result' = <<PageOf(stored, Request, mock, Generated)>>
    BY <1>2, <2>1
  <2> QED BY <2>1, <2>2
<1> QED BY <1>3, <1>4

-----------------------------------------------------------------------------
(* Pages that are followed.                                                *)

(* A page that is asked for is not empty and begins at a row.              *)
LEMMA PagedIs ==
  ASSUME Typed, phase \in {"executing", "answered"}, Paged(Request)
  PROVE  Request.limit \in Nat \ {0} /\ Request.offset \in Nat
<1>1. QuestionOK(ask) /\ Accepted(ask, Scope) /\ Request.operation \in {"records", "detail"}
  BY DEF Typed, Paged
<1>2. Discovering(Request) = Request
  BY <1>1, AcceptedIs DEF Request
<1> QED BY <1>1, <1>2, AcceptedIs DEF Request

(* What an answer to a page shows.                                         *)
LEMMA PageIsShown ==
  ASSUME Typed, Paging, Paged(Request), Respond
  PROVE  \E S \in SUBSET stored :
           /\ ToSet(answer'.data) \in SUBSET Wants(S, Request, mock) /\ given' = given \cup ToSet(answer'.data)
           /\ answer'.next \in {0, Request.offset + Request.limit}
           /\ IF answer'.truncated
              THEN Unseen(S, Request, first, given', Request.offset + Request.limit, mock)
              ELSE answer'.next = 0 /\ Settled(S, Request, first, given', mock)
<1>1. /\ phase = "executing" /\ Len(result) = Len(Statements)
      /\ answer' = Response(Request, result[1], Tail(result))
      /\ given' = given \cup ToSet(answer'.data)
  BY DEF Respond
<1>2. QuestionOK(ask) /\ Accepted(ask, Scope) /\ stored \in SUBSET Rows
  BY <1>1 DEF Typed
<1>3. Len(Statements) = 1 /\ mock \in BOOLEAN
  BY <1>2, PagesRead DEF Statements, Request, Typed
<1>4. result # <<>>
  BY <1>1, <1>3
<1>5. PICK S \in SUBSET stored, place \in Layouts(mock) :
        /\ first \subseteq S /\ result = <<PageOf(S, Request, mock, place)>>
        /\ Unseen(S, Request, first, given, Request.offset, mock)
  BY <1>1, <1>4 DEF Paging
<1>6. result[1] = PageOf(S, Request, mock, place)
  BY <1>5
<1>7. Request.limit \in Nat \ {0} /\ Request.offset \in Nat
  BY <1>1, PagedIs
<1> SUFFICES ASSUME NEW q, q = Request, NEW data, data = result[1],
                    NEW a, a = answer', NEW shown, shown = a.data
             PROVE  /\ ToSet(shown) \in SUBSET Wants(S, q, mock)
                    /\ a.next \in {0, q.offset + q.limit}
                    /\ IF a.truncated
                       THEN Unseen(S, q, first, given \cup ToSet(shown), q.offset + q.limit, mock)
                       ELSE a.next = 0 /\ Settled(S, q, first, given \cup ToSet(shown), mock)
  BY <1>1
<1>8. /\ a.truncated <=> Len(data) > q.limit
      /\ shown = IF Len(data) > q.limit THEN SubSeq(data, 1, q.limit) ELSE data
      /\ a.next \in {0, q.offset + q.limit} /\ (~a.truncated => a.next = 0)
  BY <1>1, ResponseIs
<1>9. /\ Len(data) \in Nat /\ ToSet(shown) \in SUBSET Wants(S, q, mock)
      /\ Len(data) > q.limit => Unseen(S, q, first, given \cup ToSet(shown), q.offset + q.limit, mock)
      /\ Len(data) <= q.limit => Settled(S, q, first, given \cup ToSet(shown), mock)
  <2>1. S \in SUBSET Rows /\ first \in SUBSET S
    BY <1>2, <1>5
  <2>2. /\ q.limit \in Nat \ {0} /\ q.offset \in Nat /\ Unseen(S, q, first, given, q.offset, mock)
        /\ data = PageOf(S, q, mock, place)
    BY <1>5, <1>6, <1>7
  <2>3. Shows(S, q, mock, place, first, given, shown)
    BY <1>3, <1>8, <2>1, <2>2, PageShows
  <2> QED BY <2>2, <2>3 DEF Shows
<1>10. Len(data) > q.limit \/ Len(data) <= q.limit
  BY <1>7, <1>9
<1> QED BY <1>8, <1>9, <1>10

(* MOCK is read once.                                                      *)
LEMMA MockKept ==
  ASSUME [Next]_vars
  PROVE  mock' = mock
BY DEF Next, vars, Insert, Ask, Execute, ExecuteMock, Respond, Follow, Leave

(* Every step keeps what pages leave unseen behind them.                   *)
LEMMA PagingStep ==
  ASSUME Typed, Typed', Paging, [Next]_vars
  PROVE  Paging'
<1>0. /\ stored \in SUBSET Rows /\ first \in SUBSET stored /\ first \in SUBSET Rows
      /\ mock \in BOOLEAN /\ mock' = mock
  BY MockKept DEF Typed
<1>1. CASE UNCHANGED vars
  BY <1>1 DEF vars, walk, Paging, Request
<1>2. ASSUME NEW row \in Rows, Insert(row) PROVE Paging'
  <2>1. /\ stored' \in SUBSET Rows /\ stored \in SUBSET stored' /\ Request' = Request
        /\ UNCHANGED <<phase, ask, result, answer, first, given>>
    BY <1>0, <1>2 DEF Insert, walk, Request
  <2>2. \A n \in Nat : Unseen(stored, Request, first, given, n, mock) => Unseen(stored', Request, first, given, n, mock)
    BY <1>0, <2>1, UnseenGrows
  <2>s. Settled(stored, Request, first, given, mock) => Settled(stored', Request, first, given, mock)
    BY <2>1, SettledGrows
  <2>3. phase \in {"executing", "answered"} /\ Paged(Request) =>
          Request.offset \in Nat /\ Request.offset + Request.limit \in Nat
    BY PagedIs
  <2>4. ASSUME phase' = "executing", Paged(Request')
        PROVE  \/ result' = <<>> /\ Unseen(stored', Request', first', given', Request'.offset, mock')
               \/ \E S \in SUBSET stored', place \in Layouts(mock') :
                    /\ first' \subseteq S /\ result' = <<PageOf(S, Request', mock', place)>>
                    /\ Unseen(S, Request', first', given', Request'.offset, mock')
    <3>1. phase = "executing" /\ Paged(Request)
      BY <2>1, <2>4
    <3>2. CASE result = <<>> /\ Unseen(stored, Request, first, given, Request.offset, mock)
      BY <1>0, <2>1, <2>2, <2>3, <3>1, <3>2
    <3>3. CASE \E S \in SUBSET stored, place \in Layouts(mock) :
                 /\ first \subseteq S /\ result = <<PageOf(S, Request, mock, place)>>
                 /\ Unseen(S, Request, first, given, Request.offset, mock)
      BY <1>0, <2>1, <3>3
    <3> QED BY <3>1, <3>2, <3>3 DEF Paging
  <2>5. ASSUME phase' = "answered", Paged(Request')
        PROVE  IF answer'.truncated
               THEN /\ answer'.next \in {0, Request'.offset + Request'.limit}
                    /\ Unseen(stored', Request', first', given', Request'.offset + Request'.limit, mock')
               ELSE answer'.next = 0 /\ Settled(stored', Request', first', given', mock')
    BY <1>0, <2>1, <2>2, <2>s, <2>3, <2>5 DEF Paging
  <2> QED BY <2>4, <2>5 DEF Paging
<1>3. ASSUME NEW p \in Questions, Ask(p) PROVE Paging'
  <2>1. /\ ask' = p /\ result' = result /\ result = <<>> /\ given' = {} /\ stored' = stored
        /\ phase' \in {"executing", "refused"} /\ first' = IF p.offset = 0 THEN stored ELSE {}
    BY <1>3 DEF Ask, Typed
  <2>2. ASSUME phase' = "executing", Paged(Request')
        PROVE  Unseen(stored', Request', first', given', Request'.offset, mock')
    <3>1. QuestionOK(p) /\ Accepted(p, Scope) /\ Request' = Parse(p, Scope) /\ Request'.operation \in {"records", "detail"}
      BY <2>1, <2>2 DEF Typed, Request, Paged
    <3>2. Discovering(Request') = Request' /\ Request'.offset = p.offset /\ p.offset \in Nat
      BY <3>1, AcceptedIs
    <3> DEFINE q == Request'
    <3> SUFFICES ASSUME NEW a \in Wants(first', q, mock'), NEW place \in Layouts(mock')
                 PROVE  Place(a, stored', q, mock', place) >= q.offset
      BY DEF Unseen
    <3>3. p.offset = 0 /\ a \in Rows
      <4>1. first' # {}
        BY DEF Wants
      <4>2. p.offset = 0 /\ first' = stored
        BY <2>1, <4>1
      <4> QED BY <1>0, <4>2 DEF Wants
    <3>4. Place(a, stored', q, mock', place) \in Nat
      <4> HIDE DEF q
      <4>1. Arranged(stored', q, mock', place)
        BY <1>0, <2>1, ListingIs
      <4> QED BY <3>3, <4>1 DEF Arranged
    <3> QED BY <3>2, <3>3, <3>4
  <2> QED BY <2>1, <2>2 DEF Paging
<1>4. CASE Execute \/ ExecuteMock
  <2>1. UNCHANGED <<stored, phase, ask, first, given>> /\ phase = "executing" /\ Request' = Request
    BY <1>4 DEF Execute, ExecuteMock, walk, Request
  <2>2. ASSUME Paged(Request)
        PROVE  \E place \in Layouts(mock) :
                 /\ first \subseteq stored /\ result' = <<PageOf(stored, Request, mock, place)>>
                 /\ Unseen(stored, Request, first, given, Request.offset, mock)
    <3>1. result = <<>> /\ \E place \in Layouts(mock) : result' = <<PageOf(stored, Request, mock, place)>>
      BY <1>4, <2>2, PageIsRead
    <3>2. \A data : <<data>> # <<>>
      OBVIOUS
    <3>3. Unseen(stored, Request, first, given, Request.offset, mock)
      BY <2>1, <2>2, <3>1, <3>2 DEF Paging
    <3> QED BY <1>0, <3>1, <3>3
  <2> QED BY <1>0, <2>1, <2>2 DEF Paging
<1>5. CASE Respond
  <2>1. /\ UNCHANGED <<stored, ask, first>> /\ phase' = "answered" /\ phase = "executing" /\ Request' = Request
    BY <1>5 DEF Respond, Request
  <2>2. ASSUME Paged(Request)
        PROVE  IF answer'.truncated
               THEN /\ answer'.next \in {0, Request.offset + Request.limit}
                    /\ Unseen(stored, Request, first, given', Request.offset + Request.limit, mock)
               ELSE answer'.next = 0 /\ Settled(stored, Request, first, given', mock)
    <3>1. PICK S \in SUBSET stored :
            /\ answer'.next \in {0, Request.offset + Request.limit}
            /\ IF answer'.truncated
               THEN Unseen(S, Request, first, given', Request.offset + Request.limit, mock)
               ELSE answer'.next = 0 /\ Settled(S, Request, first, given', mock)
      BY <1>5, <2>2, PageIsShown
    <3>2. Request.offset + Request.limit \in Nat
      BY <2>1, <2>2, PagedIs
    <3>3. /\ Unseen(S, Request, first, given', Request.offset + Request.limit, mock)
               => Unseen(stored, Request, first, given', Request.offset + Request.limit, mock)
          /\ Settled(S, Request, first, given', mock) => Settled(stored, Request, first, given', mock)
      BY <1>0, <3>2, UnseenGrows, SettledGrows
    <3> QED BY <3>1, <3>3
  <2> QED BY <1>0, <2>1, <2>2 DEF Paging
<1>6. CASE Follow
  <2>1. /\ phase = "answered" /\ ask' = [ask EXCEPT !.offset = answer.next] /\ answer.next > 0
        /\ phase' \in {"executing", "refused"}
        /\ UNCHANGED <<stored, result, first, given>> /\ result = <<>> /\ answer.next \in Nat
    BY <1>6 DEF Follow, walk, Typed
  <2>2. ASSUME phase' = "executing", Paged(Request')
        PROVE  Unseen(stored, Request', first, given, Request'.offset, mock)
    <3>1. QuestionOK(ask) /\ Accepted(ask, Scope) /\ QuestionOK(ask') /\ Accepted(ask', Scope)
      BY <2>1, <2>2 DEF Typed
    <3>2. /\ ask'.offset = answer.next /\ ask'.limit = ask.limit /\ ask'.operation = ask.operation
          /\ \A S, fake : Wants(S, Request', fake) = Wants(S, Request, fake)
          /\ OrderBy(Request') = OrderBy(Request) /\ ByTime(Request') = ByTime(Request)
      BY <2>1, <3>1, NextQuestion DEF Request
    <3>3. Request'.operation = ask'.operation /\ Request.operation = ask.operation
      BY <3>1, AcceptedIs DEF Request
    <3>4. Paged(Request) /\ Request'.operation = Request.operation
      BY <2>2, <3>2, <3>3 DEF Paged
    <3>5. Discovering(Request') = Request' /\ Discovering(Request) = Request
      BY <2>2, <3>1, <3>4, AcceptedIs DEF Request, Paged
    <3>6. Request'.offset = answer.next
      BY <2>2, <3>1, <3>2, <3>5, AcceptedIs DEF Request, Paged
    <3>7. /\ answer.truncated /\ answer.next = Request.offset + Request.limit
          /\ Unseen(stored, Request, first, given, answer.next, mock)
      <4>1. IF answer.truncated
            THEN /\ answer.next \in {0, Request.offset + Request.limit}
                 /\ Unseen(stored, Request, first, given, Request.offset + Request.limit, mock)
            ELSE answer.next = 0 /\ Settled(stored, Request, first, given, mock)
        BY <2>1, <3>4 DEF Paging
      <4> QED BY <2>1, <4>1
    <3>8. \A row, place : Place(row, stored, Request', mock, place) = Place(row, stored, Request, mock, place)
      BY <3>2 DEF Place, Sorting
    <3>9. \A row : Alone(row, stored, Request', mock) <=> Alone(row, stored, Request, mock)
      BY <3>2 DEF Alone
    <3> QED BY <3>2, <3>6, <3>7, <3>8, <3>9 DEF Unseen
  <2> QED BY <1>0, <2>1, <2>2 DEF Paging
<1>7. CASE Leave
  BY <1>7 DEF Leave, Paging
<1> QED BY <1>1, <1>2, <1>3, <1>4, <1>5, <1>6, <1>7 DEF Next

(* Nothing has been asked for at first.                                    *)
LEMMA PagingFirst == Init => Paging
BY DEF Init, Paging

(* At the end what was not shown is tied with another matching row.        *)
LEMMA PagingEnds == Typed /\ Paging => PagesMissNothing
<1> SUFFICES ASSUME Typed, Paging, phase = "answered", Paged(Request), ~answer.truncated,
                    NEW row \in Matching(first), row \notin given
             PROVE  ~mock /\ \E twin \in Matching(stored) : Tied(row, twin, OrderBy(Request))
  BY DEF PagesMissNothing
<1>1. \A S : Matching(S) = Wants(S, Request, mock)
  BY DEF Matching, Wants
<1>2. Settled(stored, Request, first, given, mock)
  BY DEF Paging
<1>3. ~Alone(row, stored, Request, mock)
  BY <1>1, <1>2 DEF Settled
<1> QED BY <1>1, <1>3 DEF Alone

(***************************************************************************)
(* A reader who follows the pages to the end is shown every matching row   *)
(* that was stored when he began, however many rows arrive in between      *)
(* (limit + 1 rows are read, and the offset of the next page is this one's *)
(* plus the limit) and however ClickHouse orders tied rows each time; only *)
(* a row that is itself tied with another matching one, in the columns of  *)
(* ORDER BY, may be missed, and none from the mock store.                  *)
(***************************************************************************)
THEOREM PagesComplete == Spec => []PagesMissNothing
<1>1. Typed /\ Typed' /\ Paging /\ [Next]_vars => Paging'
  BY PagingStep
<1> QED BY <1>1, AlwaysTyped, PagingFirst, PagingEnds, PTL DEF Spec

(* What pages leave unseen is behind them in every state.                  *)
LEMMA AlwaysPaging == Spec => []Paging
<1>1. Typed /\ Typed' /\ Paging /\ [Next]_vars => Paging'
  BY PagingStep
<1> QED BY <1>1, AlwaysTyped, PagingFirst, PTL DEF Spec

(* Every step leaves the rows that were given within the caller's scope.   *)
LEMMA ScopeStep ==
  ASSUME Typed, Paging, AnswersStayInScope, [Next]_vars
  PROVE  AnswersStayInScope'
<1> USE DEF AnswersStayInScope
<1>1. CASE UNCHANGED vars
  BY <1>1 DEF vars, walk
<1>2. ASSUME NEW row \in Rows, Insert(row) PROVE AnswersStayInScope'
  BY <1>2 DEF Insert, walk
<1>3. ASSUME NEW p \in Questions, Ask(p) PROVE AnswersStayInScope'
  BY <1>3 DEF Ask
<1>4. CASE Execute \/ ExecuteMock
  BY <1>4 DEF Execute, ExecuteMock, walk
<1>5. CASE Respond
  <2>1. phase = "executing" /\ ask' = ask
    BY <1>5 DEF Respond
  <2>2. CASE ~Paged(Request)
    BY <1>5, <2>2 DEF Respond
  <2>3. CASE Paged(Request)
    <3>1. PICK S \in SUBSET stored :
            ToSet(answer'.data) \in SUBSET Wants(S, Request, mock) /\ given' = given \cup ToSet(answer'.data)
      BY <1>5, <2>3, PageIsShown
    <3>2. ASSUME NEW row \in Wants(S, Request, mock)
          PROVE  row.scope = Scope /\ row.time \in From(ask) .. ask.to - 1
      <4>1. row \in Rows /\ row.scope = Request.scope /\ row.time >= Request.from /\ row.time < Request.to
        BY DEF Wants, Selected, Fits, Typed
      <4>2. Request.scope = Scope /\ Request.from = From(ask) /\ Request.to = ask.to
        BY DEF Request, Parse
      <4>3. row.time \in Int
        BY <4>1, ServiceAssumption DEF RowOK
      <4>4. From(ask) \in Int /\ ask.to \in Int
        BY <2>1, QueryAssumption DEF Typed, QuestionOK, From
      <4> QED BY <4>1, <4>2, <4>3, <4>4
    <3> QED BY <2>1, <3>1, <3>2
  <2> QED BY <2>2, <2>3
<1>6. CASE Follow
  <2>1. phase = "answered" /\ ask' = [ask EXCEPT !.offset = answer.next] /\ given' = given /\ answer.next \in Nat
    BY <1>6 DEF Follow, walk, Typed
  <2>2. From(ask') = From(ask) /\ ask'.to = ask.to
    BY <2>1, NextQuestion DEF Typed
  <2> QED BY <2>1, <2>2
<1>7. CASE Leave
  BY <1>7 DEF Leave
<1> QED BY <1>1, <1>2, <1>3, <1>4, <1>5, <1>6, <1>7 DEF Next

(***************************************************************************)
(* No row leaves the service but those of the caller's own scope and of    *)
(* the window that was asked for, from either store, on any page.          *)
(***************************************************************************)
THEOREM ScopeKept == Spec => []AnswersStayInScope
<1>1. Init => AnswersStayInScope
  BY DEF Init, AnswersStayInScope
<1>2. Typed /\ Paging /\ AnswersStayInScope /\ [Next]_vars => AnswersStayInScope'
  BY ScopeStep
<1> QED BY <1>1, <1>2, AlwaysTyped, AlwaysPaging, PTL DEF Spec

-----------------------------------------------------------------------------
(* Charts.                                                                 *)

(* A minute begins at a multiple of its length, not after the time in it.  *)
LEMMA FloorIsBucket ==
  ASSUME NEW a \in Int, NEW unit \in Nat \ {0}
  PROVE  Floor(a, unit) \in Int /\ Floor(a, unit) <= a /\ Floor(a, unit) % unit = 0
<1>1. a - (a % unit) \in Int /\ a - (a % unit) <= a /\ (a - (a % unit)) % unit = 0
  OBVIOUS
<1> QED BY <1>1 DEF Floor

(* The cells of a partition: as many in each class as it has members.      *)
Fiber(W, key, k) == {w \in W : key[w] = k}
Cells(W, K, key) == UNION {{k} \X (1 .. Cardinality(Fiber(W, key, k))) : k \in K}

(* Counted class by class, a finite set has as many members as it has.     *)
LEMMA PartitionCount ==
  ASSUME NEW W, IsFiniteSet(W), NEW K, NEW key \in [W -> K]
  PROVE  Cardinality(Cells(W, K, key)) = Cardinality(W)
<1> DEFINE n(k) == Cardinality(Fiber(W, key, k))
           cells == Cells(W, K, key)
           b(k) == CHOOSE f : f \in Bijection(1 .. n(k), Fiber(W, key, k))
           g == [c \in cells |-> b(c[1])[c[2]]]
<1>1. ASSUME NEW k \in K
      PROVE  n(k) \in Nat /\ b(k) \in Bijection(1 .. n(k), Fiber(W, key, k))
  <2>1. IsFiniteSet(Fiber(W, key, k))
    BY FS_Subset DEF Fiber
  <2>2. n(k) \in Nat /\ ExistsBijection(1 .. n(k), Fiber(W, key, k))
    BY <2>1, FS_CardinalityType
  <2>3. \E f : f \in Bijection(1 .. n(k), Fiber(W, key, k))
    BY <2>2 DEF ExistsBijection
  <2> HIDE DEF n
  <2> QED BY <2>2, <2>3
<1>2. \A c \in cells : \E k \in K : \E i \in 1 .. n(k) : c = <<k, i>>
  BY DEF Cells
<1>3. \A k \in K : \A i \in 1 .. n(k) : <<k, i>> \in cells
  BY DEF Cells
<1> HIDE DEF n, b, cells
<1>4. \A k \in K : \A i \in 1 .. n(k) : g[<<k, i>>] = b(k)[i]
  BY <1>3
<1>5. \A k \in K : \A i \in 1 .. n(k) : b(k)[i] \in W /\ key[b(k)[i]] = k
  <2> SUFFICES ASSUME NEW k \in K, NEW i \in 1 .. n(k) PROVE b(k)[i] \in Fiber(W, key, k)
    BY DEF Fiber
  <2>1. b(k) \in [1 .. n(k) -> Fiber(W, key, k)]
    BY <1>1 DEF Bijection, Injection
  <2> QED BY <2>1
<1>6. \A k \in K : \A i, j \in 1 .. n(k) : b(k)[i] = b(k)[j] => i = j
  <2> SUFFICES ASSUME NEW k \in K, NEW i \in 1 .. n(k), NEW j \in 1 .. n(k), b(k)[i] = b(k)[j] PROVE i = j
    OBVIOUS
  <2> QED BY <1>1, Fun_BijectionProperties
<1>7. \A w \in W : \E i \in 1 .. n(key[w]) : b(key[w])[i] = w
  <2> SUFFICES ASSUME NEW w \in W PROVE \E i \in 1 .. n(key[w]) : b(key[w])[i] = w
    OBVIOUS
  <2> DEFINE k == key[w]
  <2>1. k \in K /\ w \in Fiber(W, key, k)
    BY DEF Fiber
  <2> HIDE DEF k
  <2>2. b(k) \in Surjection(1 .. n(k), Fiber(W, key, k))
    BY <1>1, <2>1 DEF Bijection
  <2>3. \E i \in 1 .. n(k) : b(k)[i] = w
    BY <2>1, <2>2 DEF Surjection
  <2> QED BY <2>3 DEF k
<1>8. g \in [cells -> W]
  <2>1. \A c \in cells : b(c[1])[c[2]] \in W
    BY <1>2, <1>5
  <2> QED BY <2>1
<1>9. ASSUME NEW c \in cells, NEW d \in cells, g[c] = g[d] PROVE c = d
  <2>1. PICK k \in K : \E i \in 1 .. n(k) : c = <<k, i>>
    BY <1>2
  <2>1a. PICK i \in 1 .. n(k) : c = <<k, i>>
    BY <2>1
  <2>2. PICK l \in K : \E j \in 1 .. n(l) : d = <<l, j>>
    BY <1>2
  <2>2a. PICK j \in 1 .. n(l) : d = <<l, j>>
    BY <2>2
  <2> HIDE DEF g
  <2>3. b(k)[i] = b(l)[j]
    BY <1>4, <1>9, <2>1a, <2>2a
  <2>4. k = l
    BY <1>5, <2>3
  <2>5. i = j
    BY <1>6, <2>3, <2>4
  <2> QED BY <2>1a, <2>2a, <2>4, <2>5
<1>10. ASSUME NEW w \in W PROVE \E c \in cells : g[c] = w
  <2>1. PICK i \in 1 .. n(key[w]) : b(key[w])[i] = w
    BY <1>7
  <2>2. key[w] \in K
    OBVIOUS
  <2> HIDE DEF g
  <2> QED BY <1>3, <1>4, <2>1, <2>2
<1> HIDE DEF g
<1>11. g \in Bijection(cells, W)
  <2>1. \A c, d \in cells : g[c] = g[d] => c = d
    BY <1>9
  <2>2. \A w \in W : \E c \in cells : g[c] = w
    BY <1>10
  <2> QED BY <1>8, <2>1, <2>2, Fun_IsBij
<1>12. ExistsBijection(W, cells)
  <2>1. ExistsBijection(cells, W)
    BY <1>11 DEF ExistsBijection
  <2> QED BY <2>1, Fun_ExistsBijSymmetric
<1>13. Cardinality(cells) = Cardinality(W)
  BY <1>12, FS_Bijection
<1> QED BY <1>13 DEF cells

(* The minute and band of a row.                                           *)
KeyOf(row, logs) ==
  [bucket |-> Floor(row.time, Minute), severity |-> IF logs THEN Band(row.severity) ELSE Unset]

(* GROUP BY, row by row.                                                   *)
LEMMA GroupsAre ==
  ASSUME NEW logs
  PROVE  /\ \A W : Group(W, logs) = {KeyOf(row, logs) : row \in W}
         /\ \A W, k : InGroup(W, k, logs) = {row \in W : KeyOf(row, logs) = k}
<1>1. \A W : Group(W, logs) = {KeyOf(row, logs) : row \in W}
  BY DEF Group, KeyOf
<1>2. \A row, k : Group({row}, logs) = {k} <=> KeyOf(row, logs) = k
  <2> SUFFICES ASSUME NEW row, NEW k PROVE Group({row}, logs) = {k} <=> KeyOf(row, logs) = k
    OBVIOUS
  <2>1. Group({row}, logs) = {KeyOf(row, logs)}
    BY <1>1
  <2> QED BY <2>1
<1>3. \A W, k : InGroup(W, k, logs) = {row \in W : KeyOf(row, logs) = k}
  BY <1>2 DEF InGroup
<1> QED BY <1>1, <1>3

(* Every severity number has a band.                                       *)
LEMMA BandIs ==
  ASSUME NEW n \in 0 .. 24
  PROVE  Band(n) \in ToSet(Bands)
<1>1. DOMAIN Bands = 1 .. 7 /\ Bands[1] = "unspecified" /\ Bands[7] = "fatal"
  BY DEF Bands
<1>2. \A i \in 1 .. 7 : Bands[i] \in ToSet(Bands)
  BY <1>1 DEF ToSet
<1>3. CASE n < 1
  BY <1>1, <1>2, <1>3 DEF Band
<1>4. CASE n >= 21
  BY <1>1, <1>2, <1>4 DEF Band
<1>5. CASE n >= 1 /\ n < 21
  <2>1. (n + 7) \div 4 \in 1 .. 7
    BY <1>5
  <2> QED BY <1>2, <1>5, <2>1 DEF Band
<1> QED BY <1>3, <1>4, <1>5

(* Every matching row falls in a minute and a band of the chart.           *)
LEMMA RowsHaveBuckets ==
  ASSUME NEW p, QuestionOK(p), Accepted(p, Scope), NEW q, q = Parse(p, Scope),
         NEW S \in SUBSET Rows, NEW fake, NEW row \in Wants(S, q, fake), NEW logs, logs = Logs(q)
  PROVE  KeyOf(row, logs) \in [bucket : Buckets(q), severity : BandsOf(q)]
<1>1. row \in Rows /\ RowOK(row) /\ row.time >= q.from /\ row.time < q.to
  BY ServiceAssumption DEF Wants, Selected, Fits
<1>2. q.from = From(p) /\ q.to = p.to
  BY DEF Parse
<1>3. q.from \in Int /\ q.to \in Int /\ row.time \in Int /\ row.severity \in 0 .. 24
  BY <1>1, <1>2, QueryAssumption DEF QuestionOK, From, RowOK
<1>4. Minute \in Nat \ {0}
  BY QueryAssumption
<1>5. Floor(row.time, Minute) \in Buckets(q)
  <2>1. /\ Floor(q.from, Minute) <= Floor(row.time, Minute) /\ Floor(q.from, Minute) \in Int
    BY <1>1, <1>3, <1>4, FloorMonotone
  <2>2. Floor(row.time, Minute) \in Int /\ Floor(row.time, Minute) <= row.time /\ Floor(row.time, Minute) % Minute = 0
    BY <1>3, <1>4, FloorIsBucket
  <2>3. Floor(row.time, Minute) \in Floor(q.from, Minute) .. q.to - 1
    BY <1>1, <1>3, <2>1, <2>2
  <2> QED BY <2>2, <2>3 DEF Buckets
<1>6. (IF logs THEN Band(row.severity) ELSE Unset) \in BandsOf(q)
  BY <1>3, BandIs DEF BandsOf
<1> QED BY <1>5, <1>6 DEF KeyOf

(* The counts of a filled chart sum to the number of matching rows.        *)
LEMMA BucketsAccount ==
  ASSUME NEW p, QuestionOK(p), Accepted(p, Scope), NEW q, q = Parse(p, Scope),
         NEW S \in SUBSET Rows, NEW fake, NEW logs, logs = Logs(q)
  PROVE  Counted(FillBuckets(Grouped(Wants(S, q, fake), logs), q)) = Cardinality(Wants(S, q, fake))
<1> DEFINE W == Wants(S, q, fake)
           K == [bucket : Buckets(q), severity : BandsOf(q)]
           groups == Grouped(W, logs)
           data == FillBuckets(groups, q)
           key == [row \in W |-> KeyOf(row, logs)]
           size(k) == Cardinality(InGroup(W, k, logs))
<1>1. IsFiniteSet(W)
  BY FoundFinite
<1>2. key \in [W -> K]
  <2>1. \A row \in W : KeyOf(row, logs) \in K
    BY RowsHaveBuckets
  <2> HIDE DEF W, K
  <2> QED BY <2>1
<1>3. \A k : InGroup(W, k, logs) = Fiber(W, key, k)
  <2>1. \A k : InGroup(W, k, logs) = {row \in W : KeyOf(row, logs) = k}
    BY GroupsAre
  <2> HIDE DEF W
  <2> QED BY <2>1 DEF Fiber
<1>4. DOMAIN data = K
  BY DEF FillBuckets
<1>5. ASSUME NEW k \in K PROVE data[k].count.requests = size(k)
  <2> DEFINE there == \E d \in groups : d.key = k
             chosen == CHOOSE d \in groups : d.key = k
  <2>1. data[k].count = IF there THEN chosen.count ELSE [requests |-> 0, errors |-> 0]
    BY DEF FillBuckets
  <2>2. groups = {[key |-> h, count |-> Count(InGroup(W, h, logs))] : h \in Group(W, logs)}
    BY DEF Grouped
  <2> HIDE DEF W, K, data, groups, key
  <2>3. CASE there
    <3>1. chosen \in groups /\ chosen.key = k
      BY <2>3
    <3> HIDE DEF chosen
    <3>2. chosen.count = Count(InGroup(W, k, logs))
      BY <2>2, <3>1
    <3>3. Count(InGroup(W, k, logs)).requests = size(k)
      BY DEF Count
    <3> HIDE DEF size, there
    <3> QED BY <2>1, <2>3, <3>2, <3>3
  <2>4. CASE ~there
    <3>1. ASSUME k \in Group(W, logs) PROVE FALSE
      <4> DEFINE d == [key |-> k, count |-> Count(InGroup(W, k, logs))]
      <4>1. d \in groups /\ d.key = k
        BY <2>2, <3>1
      <4> QED BY <2>4, <4>1
    <3>2. Group(W, logs) = {KeyOf(row, logs) : row \in W} /\ InGroup(W, k, logs) = {row \in W : KeyOf(row, logs) = k}
      BY GroupsAre
    <3>3. InGroup(W, k, logs) = {}
      BY <3>1, <3>2
    <3>4. size(k) = 0
      BY <3>3, FS_EmptySet
    <3> HIDE DEF size, there
    <3> QED BY <2>1, <2>4, <3>4
  <2> QED BY <2>3, <2>4
<1>6. Counted(data) = Cardinality(Cells(W, K, key))
  <2>1. Counted(data) = Cardinality(UNION {{k} \X (1 .. data[k].count.requests) : k \in K})
    <3> HIDE DEF data, K
    <3> QED BY <1>4 DEF Counted
  <2>2. \A k \in K : {k} \X (1 .. data[k].count.requests) = {k} \X (1 .. Cardinality(Fiber(W, key, k)))
    <3> HIDE DEF data, K, W, key
    <3> QED BY <1>3, <1>5
  <2> HIDE DEF data, K, W, key
  <2>3. {{k} \X (1 .. data[k].count.requests) : k \in K} = {{k} \X (1 .. Cardinality(Fiber(W, key, k))) : k \in K}
    BY <2>2, Zenon
  <2> QED BY <2>1, <2>3 DEF Cells
<1>7. Cardinality(Cells(W, K, key)) = Cardinality(W)
  <2> HIDE DEF W, K, key
  <2> QED BY <1>1, <1>2, PartitionCount
<1> HIDE DEF key, K
<1> QED BY <1>6, <1>7

(* What a chart is drawn from: a snapshot with all that was stored when it *)
(* was asked for, and for the summary a later one.                         *)
ChartOf(S, q, fake) == Grouped(Wants(S, q, fake), Logs(q))
Summed(S, q, fake) == Count(Wants(S, q, fake))
Charts ==
  /\ phase = "executing" /\ Request.operation = "metrics" =>
       \/ result = <<>>
       \/ \E S \in SUBSET stored : first \subseteq S /\ result = <<ChartOf(S, Request, mock)>>
       \/ \E S, U \in SUBSET stored :
            first \subseteq S /\ S \subseteq U /\ result = <<ChartOf(S, Request, mock), Summed(U, Request, mock)>>
  /\ phase = "answered" /\ Request.operation = "metrics" =>
       \E S \in SUBSET stored :
         /\ first \subseteq S /\ answer.data = FillBuckets(ChartOf(S, Request, mock), Request)
         /\ \/ answer.summary = <<>>
            \/ \E U \in SUBSET stored : S \subseteq U /\ answer.summary = <<Summed(U, Request, mock)>>

(* What is read for a chart, statement by statement or from the mock       *)
(* store.                                                                  *)
LEMMA ChartIsRead ==
  ASSUME Typed, Charts, Request.operation = "metrics", Execute \/ ExecuteMock
  PROVE  \/ \E S \in SUBSET stored : first \subseteq S /\ result' = <<ChartOf(S, Request, mock)>>
         \/ \E S, U \in SUBSET stored :
              first \subseteq S /\ S \subseteq U /\ result' = <<ChartOf(S, Request, mock), Summed(U, Request, mock)>>
<1>1. /\ phase = "executing" /\ QuestionOK(ask) /\ Accepted(ask, Scope)
      /\ stored \in SUBSET Rows /\ first \subseteq stored
  BY DEF Typed, Execute, ExecuteMock
<1>2. \A place :
        /\ Len(Statements) \in {1, 2}
        /\ Run(Statements[1], stored, Logs(Request), place) = ChartOf(stored, Request, FALSE)
        /\ Len(Statements) = 2 => Run(Statements[2], stored, Logs(Request), place) = Summed(stored, Request, FALSE)
        /\ MockExecute(Request, stored, place) = IF Len(Statements) = 2
                                                 THEN <<ChartOf(stored, Request, TRUE), Summed(stored, Request, TRUE)>>
                                                 ELSE <<ChartOf(stored, Request, TRUE)>>
  BY <1>1, BucketsRead DEF Statements, Request, ChartOf, Summed
<1>3. CASE ExecuteMock
  <2>1. result' = MockExecute(Request, stored, Generated) /\ mock = TRUE
    BY <1>3 DEF ExecuteMock, Typed
  <2>2. stored \in SUBSET stored
    OBVIOUS
  <2>3. \/ result' = <<ChartOf(stored, Request, mock), Summed(stored, Request, mock)>>
        \/ result' = <<ChartOf(stored, Request, mock)>>
    BY <1>2, <2>1
  <2> QED BY <1>1, <2>2, <2>3
<1>4. CASE Execute
  <2>1. PICK place \in Places :
          result' = Append(result, Run(Statements[Len(result) + 1], stored, Logs(Request), place))
    BY <1>4 DEF Execute
  <2>0. Len(result) < Len(Statements) /\ mock = FALSE
    BY <1>4 DEF Execute, Typed
  <2>5. /\ Len(Statements) \in {1, 2} /\ Run(Statements[1], stored, Logs(Request), place) = ChartOf(stored, Request, mock)
        /\ Len(Statements) = 2 => Run(Statements[2], stored, Logs(Request), place) = Summed(stored, Request, mock)
    BY <1>2, <2>0
  <2>2. CASE result = <<>>
    <3>1. Len(<<>>) + 1 = 1 /\ \A x : Append(<<>>, x) = <<x>>
      OBVIOUS
    <3>2. result' = <<ChartOf(stored, Request, mock)>>
      BY <2>1, <2>2, <2>5, <3>1
    <3> QED BY <1>1, <3>2
  <2>3. CASE \E S \in SUBSET stored : first \subseteq S /\ result = <<ChartOf(S, Request, mock)>>
    <3>1. PICK S \in SUBSET stored : first \subseteq S /\ result = <<ChartOf(S, Request, mock)>>
      BY <2>3
    <3>2. \A x, y : Len(<<x>>) = 1 /\ Len(<<x>>) + 1 = 2 /\ Append(<<x>>, y) = <<x, y>>
      <4>1. \A x : Len(<<x>>) = 1 /\ Len(<<x>>) + 1 = 2
        OBVIOUS
      <4> QED BY <4>1, Pairing
    <3>3. Len(result) = 1 /\ Len(result) + 1 = 2
      BY <3>1, <3>2
    <3>4. Len(Statements) = 2
      BY <2>0, <2>5, <3>3
    <3>5. result' = <<ChartOf(S, Request, mock), Summed(stored, Request, mock)>>
      BY <2>1, <2>5, <3>1, <3>2, <3>3, <3>4
    <3> QED BY <1>1, <3>1, <3>5
  <2>4. CASE \E S, U \in SUBSET stored :
               first \subseteq S /\ S \subseteq U /\ result = <<ChartOf(S, Request, mock), Summed(U, Request, mock)>>
    <3>1. \A x, y : Len(<<x, y>>) = 2
      OBVIOUS
    <3>2. Len(result) = 2
      BY <2>4, <3>1
    <3> DEFINE n == Len(Statements)
    <3>3. 2 < n /\ n \in {1, 2}
      BY <2>0, <2>5, <3>2
    <3> HIDE DEF n
    <3>4. FALSE
      BY <3>3
    <3> QED BY <3>4
  <2> QED BY <1>1, <2>2, <2>3, <2>4 DEF Charts
<1> QED BY <1>3, <1>4

(* A chart is answered with all its buckets, and the summary as it was     *)
(* read.                                                                   *)
LEMMA ChartResponse ==
  ASSUME NEW r, NEW data, NEW summary, r.operation = "metrics"
  PROVE  Response(r, data, summary).data = FillBuckets(data, r) /\ Response(r, data, summary).summary = summary
<1>1. ~Listed(r)
  BY DEF Listed
<1> QED BY <1>1 DEF Response

(* An answered chart was drawn from snapshots taken while it was asked     *)
(* for.                                                                    *)
LEMMA ChartIsAnswered ==
  ASSUME Typed, Charts, Request.operation = "metrics", Respond
  PROVE  \E S \in SUBSET stored :
           /\ first \subseteq S /\ answer'.data = FillBuckets(ChartOf(S, Request, mock), Request)
           /\ \/ answer'.summary = <<>>
              \/ \E U \in SUBSET stored : S \subseteq U /\ answer'.summary = <<Summed(U, Request, mock)>>
<1>1. /\ phase = "executing" /\ Len(result) = Len(Statements)
      /\ answer' = Response(Request, result[1], Tail(result))
  BY DEF Respond
<1>2. QuestionOK(ask) /\ Accepted(ask, Scope) /\ stored \in SUBSET Rows
  BY <1>1 DEF Typed
<1>3. Len(Statements) \in {1, 2}
  BY <1>2, BucketsRead DEF Statements, Request
<1>4. result # <<>>
  BY <1>1, <1>3
<1>5. answer'.data = FillBuckets(result[1], Request) /\ answer'.summary = Tail(result)
  BY <1>1, ChartResponse
<1>6. CASE \E S \in SUBSET stored : first \subseteq S /\ result = <<ChartOf(S, Request, mock)>>
  <2>1. PICK S \in SUBSET stored : first \subseteq S /\ result = <<ChartOf(S, Request, mock)>>
    BY <1>6
  <2>2. \A x : <<x>>[1] = x /\ Tail(<<x>>) = <<>>
    OBVIOUS
  <2>3. result[1] = ChartOf(S, Request, mock) /\ Tail(result) = <<>>
    BY <2>1, <2>2
  <2> QED BY <1>5, <2>1, <2>3
<1>7. CASE \E S, U \in SUBSET stored :
             first \subseteq S /\ S \subseteq U /\ result = <<ChartOf(S, Request, mock), Summed(U, Request, mock)>>
  <2>1. PICK S \in SUBSET stored, U \in SUBSET stored :
          first \subseteq S /\ S \subseteq U /\ result = <<ChartOf(S, Request, mock), Summed(U, Request, mock)>>
    BY <1>7
  <2>2. \A x, y : <<x, y>>[1] = x /\ Tail(<<x, y>>) = <<y>>
    OBVIOUS
  <2>3. result[1] = ChartOf(S, Request, mock) /\ Tail(result) = <<Summed(U, Request, mock)>>
    BY <2>1, <2>2
  <2> QED BY <1>5, <2>1, <2>3
<1> QED BY <1>1, <1>4, <1>6, <1>7 DEF Charts

(* Every step keeps what charts are drawn from.                            *)
LEMMA ChartsStep ==
  ASSUME Typed, Charts, [Next]_vars
  PROVE  Charts'
<1>0. mock' = mock
  BY MockKept
<1>1. CASE UNCHANGED vars
  BY <1>1 DEF vars, walk, Charts, Request
<1>2. ASSUME NEW row \in Rows, Insert(row) PROVE Charts'
  <2>1. stored \subseteq stored' /\ Request' = Request /\ UNCHANGED <<phase, result, answer, first>>
    BY <1>2 DEF Insert, walk, Request
  <2>2. SUBSET stored \subseteq SUBSET stored'
    BY <2>1
  <2> QED BY <1>0, <2>1, <2>2 DEF Charts
<1>3. ASSUME NEW p \in Questions, Ask(p) PROVE Charts'
  BY <1>3 DEF Ask, Charts, Typed
<1>4. CASE Execute \/ ExecuteMock
  <2>1. UNCHANGED <<stored, phase, ask, first>> /\ phase = "executing" /\ Request' = Request
    BY <1>4 DEF Execute, ExecuteMock, walk, Request
  <2>2. Request.operation = "metrics" =>
           \/ \E S \in SUBSET stored : first \subseteq S /\ result' = <<ChartOf(S, Request, mock)>>
           \/ \E S, U \in SUBSET stored :
                first \subseteq S /\ S \subseteq U /\ result' = <<ChartOf(S, Request, mock), Summed(U, Request, mock)>>
    BY <1>4, ChartIsRead
  <2> QED BY <1>0, <2>1, <2>2 DEF Charts
<1>5. CASE Respond
  <2>1. UNCHANGED <<stored, ask, first>> /\ phase' = "answered" /\ Request' = Request
    BY <1>5 DEF Respond, Request
  <2>2. Request.operation = "metrics" =>
          \E S \in SUBSET stored :
            /\ first \subseteq S /\ answer'.data = FillBuckets(ChartOf(S, Request, mock), Request)
            /\ \/ answer'.summary = <<>>
               \/ \E U \in SUBSET stored : S \subseteq U /\ answer'.summary = <<Summed(U, Request, mock)>>
    BY <1>5, ChartIsAnswered
  <2> QED BY <1>0, <2>1, <2>2 DEF Charts
<1>6. CASE Follow
  <2>1. phase' \in {"executing", "refused"} /\ result' = <<>>
    BY <1>6 DEF Follow, Typed
  <2> QED BY <2>1 DEF Charts
<1>7. CASE Leave
  BY <1>7 DEF Leave, Charts
<1> QED BY <1>1, <1>2, <1>3, <1>4, <1>5, <1>6, <1>7 DEF Next

(* Drawn so, a chart counts every row, once.                               *)
LEMMA ChartsAccount ==
  ASSUME Typed, Charts
  PROVE  CountsComplete
<1> SUFFICES ASSUME phase = "answered", Request.operation = "metrics"
             PROVE  /\ Counted(answer.data) >= Cardinality(Matching(first))
                    /\ Counted(answer.data) <= Cardinality(Matching(stored))
                    /\ answer.summary # <<>> => answer.summary[1].requests >= Counted(answer.data)
  BY DEF CountsComplete
<1>1. QuestionOK(ask) /\ Accepted(ask, Scope) /\ stored \in SUBSET Rows
  BY DEF Typed
<1>2. PICK S \in SUBSET stored :
         /\ first \subseteq S /\ answer.data = FillBuckets(ChartOf(S, Request, mock), Request)
         /\ \/ answer.summary = <<>>
            \/ \E U \in SUBSET stored : S \subseteq U /\ answer.summary = <<Summed(U, Request, mock)>>
  BY DEF Charts
<1>3. Counted(answer.data) = Cardinality(Wants(S, Request, mock))
  BY <1>1, <1>2, BucketsAccount DEF Request, ChartOf
<1>4. \A T : Matching(T) = Wants(T, Request, mock)
  BY DEF Matching, Wants
<1>5. ASSUME NEW T \in SUBSET Rows, NEW V \in SUBSET T
      PROVE  Cardinality(Wants(V, Request, mock)) <= Cardinality(Wants(T, Request, mock))
  <2>1. Wants(V, Request, mock) \in SUBSET Wants(T, Request, mock)
    BY DEF Wants
  <2>2. IsFiniteSet(Wants(T, Request, mock))
    BY FoundFinite
  <2> QED BY <2>1, <2>2, FS_Subset
<1>6. \A T \in SUBSET Rows : Cardinality(Wants(T, Request, mock)) \in Nat
  BY FoundFinite
<1>7. first \in SUBSET S /\ S \in SUBSET Rows /\ first \in SUBSET Rows
  BY <1>1, <1>2
<1>8. Cardinality(Wants(S, Request, mock)) >= Cardinality(Wants(first, Request, mock))
  BY <1>5, <1>6, <1>7
<1>9. Cardinality(Wants(S, Request, mock)) <= Cardinality(Wants(stored, Request, mock))
  BY <1>1, <1>2, <1>5
<1>10. ASSUME answer.summary # <<>>
       PROVE  answer.summary[1].requests >= Cardinality(Wants(S, Request, mock))
  <2>1. PICK U \in SUBSET stored : S \subseteq U /\ answer.summary = <<Summed(U, Request, mock)>>
    BY <1>2, <1>10
  <2>2. answer.summary[1] = Summed(U, Request, mock)
    BY <2>1
  <2>3. Summed(U, Request, mock).requests = Cardinality(Wants(U, Request, mock))
    BY DEF Summed, Count
  <2>4. U \in SUBSET Rows /\ S \in SUBSET U
    BY <1>1, <2>1
  <2>5. Cardinality(Wants(S, Request, mock)) <= Cardinality(Wants(U, Request, mock))
    BY <1>5, <2>4
  <2> QED BY <1>6, <1>7, <2>2, <2>3, <2>4, <2>5
<1> QED BY <1>3, <1>4, <1>8, <1>9, <1>10

(***************************************************************************)
(* The buckets of a chart count every matching row that was stored when it *)
(* was asked for, and none twice; the summary, read by a second statement, *)
(* counts no less.                                                         *)
(***************************************************************************)
THEOREM ChartsComplete == Spec => []CountsComplete
<1>1. Init => Charts
  BY DEF Init, Charts
<1>2. Typed /\ Charts /\ [Next]_vars => Charts'
  BY ChartsStep
<1>3. Typed /\ Charts => CountsComplete
  BY ChartsAccount
<1> QED BY <1>1, <1>2, <1>3, AlwaysTyped, PTL DEF Spec
=============================================================================
