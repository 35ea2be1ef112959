------------------------ MODULE CollisionParserProofs ------------------------
(***************************************************************************)
(* For every line, whatever its characters are: parseline cuts it where    *)
(* Split does, so that every field is given the text that is for it.       *)
(***************************************************************************)
EXTENDS CollisionParser, SequenceTheorems, FiniteSetTheorems, TLAPS

(* Induction over a range of numbers, without a predicate: a set of numbers *)
(* has a least element, because the strict subset order of 0 .. n is well   *)
(* founded.                                                                 *)
LEMMA LeastElement ==
    ASSUME NEW n \in Nat, NEW D \in SUBSET (0 .. n), D # {}
    PROVE  Min(D) \in D /\ \A e \in D : Min(D) <= e
<1> DEFINE Below(d) == {i \in 0 .. n : i < d}
           T == {Below(d) : d \in D}
           R == StrictSubsetOrdering(0 .. n)
<1>1. IsFiniteSet(0 .. n)
  BY FS_Interval
<1>2. IsWellFoundedOn(R, SUBSET (0 .. n))
  BY <1>1, FS_StrictSubsetOrderingWellFounded, FS_FiniteSubsetsOfFinite
<1>3. T \subseteq SUBSET (0 .. n) /\ T # {}
  OBVIOUS
<1>4. PICK x \in T : \A y \in T : ~(<<y, x>> \in R)
  <2> HIDE DEF T, R
  <2> QED BY <1>2, <1>3, WFMin
<1>5. PICK d \in D : x = Below(d)
  OBVIOUS
<1>6. ASSUME NEW e \in D, e < d PROVE FALSE
  <2>1. Below(e) \in T /\ Below(e) \subseteq Below(d) /\ e \in Below(d) \ Below(e)
    BY <1>6
  <2>2. <<Below(e), x>> \in R
    <3>1. Below(e) \in SUBSET (0 .. n) /\ x \in SUBSET (0 .. n) /\ Below(e) \subseteq x /\ Below(e) # x
      BY <1>5, <2>1
    <3> HIDE DEF Below
    <3> QED BY <3>1 DEF StrictSubsetOrdering
  <2> QED BY <1>4, <2>1, <2>2
<1>7. d \in D /\ \A e \in D : d <= e
  BY <1>6
<1> QED BY <1>7 DEF Min

-----------------------------------------------------------------------------
(* Numbers *)

\* How many digits a text begins with.
DigitsAhead(text) == SelectInSeq(Append(text, Blank), LAMBDA c : ~Contains(Digits, c)) - 1

LEMMA DigitsRead ==
    ASSUME NEW text \in Seq(Characters)
    PROVE  /\ DigitsAhead(text) \in 0 .. Len(text)
           /\ \A i \in 1 .. DigitsAhead(text) : Contains(Digits, text[i])
           /\ text = <<>> \/ text[1] = Blank => DigitsAhead(text) = 0
<1> DEFINE n == Len(text) + 1
           ended == Append(text, Blank)
           I == {i \in 1 .. n : ~Contains(Digits, ended[i])}
<1>1. /\ Len(ended) = n /\ n \in Nat \ {0} /\ ended[n] = Blank
      /\ \A i \in 1 .. Len(text) : ended[i] = text[i]
  OBVIOUS
<1>2. ~Contains(Digits, Blank)
  <2>1. Len(Digits) = 10
    BY DEF Digits
  <2>2. \A i \in 1 .. 10 : Digits[i] # Blank
    BY DEF Digits, Blank
  <2> QED BY <2>1, <2>2 DEF Contains
<1>3. DigitsAhead(text) = IF I # {} THEN Min(I) - 1 ELSE 0 - 1
  BY <1>1 DEF DigitsAhead, SelectInSeq
<1> HIDE DEF ended
<1>4. n \in I /\ I \in SUBSET (0 .. n)
  BY <1>1, <1>2
<1>5. Min(I) \in I /\ \A e \in I : Min(I) <= e
  BY <1>1, <1>4, LeastElement
<1>6. PICK m : m = Min(I)
  OBVIOUS
<1>7. m \in 1 .. n /\ \A i \in 1 .. m - 1 : Contains(Digits, ended[i])
  <2>1. m \in 1 .. n /\ \A e \in I : m <= e
    BY <1>4, <1>5, <1>6
  <2>2. ASSUME NEW i \in 1 .. m - 1 PROVE Contains(Digits, ended[i])
    <3>1. i \in 1 .. n /\ ~(m <= i)
      BY <1>1, <2>1
    <3> QED BY <2>1, <3>1
  <2> QED BY <2>1, <2>2
<1>8. ASSUME text = <<>> \/ text[1] = Blank PROVE m = 1
  <2>1. ended[1] = Blank
    BY <1>1, <1>8
  <2>2. 1 \in I
    BY <1>1, <1>2, <2>1
  <2> QED BY <1>5, <1>6, <1>7, <2>2
<1>9. DigitsAhead(text) = m - 1
  BY <1>3, <1>4, <1>6
<1>10. \A i \in 1 .. m - 1 : i \in 1 .. Len(text) /\ Contains(Digits, text[i])
  BY <1>1, <1>7
<1> QED BY <1>1, <1>7, <1>8, <1>9, <1>10

LEMMA NumberIsRead ==
    ASSUME NEW text \in Seq(Characters)
    PROVE  /\ from_chars(text) \in Nat \cup {NoValue}
           /\ text = <<>> \/ text[1] = Blank => from_chars(text) = NoValue
<1> DEFINE Digit(i) == SelectInSeq(Digits, LAMBDA d : d = text[i]) - 1
           size == DigitsAhead(text)
           Step(f, i) == IF i = 0 THEN 0 ELSE 10 * f[i - 1] + Digit(i)
           number == CHOOSE f : f = [i \in 0 .. size |-> Step(f, i)]
<1>1. from_chars(text) = IF size = 0 THEN NoValue ELSE number[size]
  BY DEF from_chars, DigitsAhead
<1>2. size \in Nat
  BY DigitsRead
<1>3. ASSUME NEW i \in 1 .. size PROVE Digit(i) \in Nat
  <2> DEFINE I == {k \in 1 .. Len(Digits) : Digits[k] = text[i]}
  <2>1. I # {} /\ I \in SUBSET (0 .. 10)
    <3>1. Len(Digits) = 10
      BY DEF Digits
    <3>2. Contains(Digits, text[i])
      BY DigitsRead
    <3> QED BY <3>1, <3>2 DEF Contains
  <2>2. Min(I) \in I
    <3> HIDE DEF I
    <3> QED BY <2>1, LeastElement
  <2>3. Digit(i) = Min(I) - 1
    BY <2>1 DEF SelectInSeq
  <2> QED BY <2>2, <2>3
<1> HIDE DEF Digit, size
<1>4. \A m \in 0 .. size : \E f \in [0 .. m -> Nat] : f = [i \in 0 .. m |-> Step(f, i)]
  <2> DEFINE Fits(m) == \E f \in [0 .. m -> Nat] : f = [i \in 0 .. m |-> Step(f, i)]
             D == {m \in 0 .. size : ~Fits(m)}
  <2> SUFFICES ASSUME D # {} PROVE FALSE
    OBVIOUS
  <2>1. PICK m \in D : \A e \in D : m <= e
    BY <1>2, LeastElement
  <2>2. CASE m = 0
    <3> DEFINE f == [i \in 0 .. 0 |-> 0]
    <3>1. f \in [0 .. 0 -> Nat] /\ f = [i \in 0 .. 0 |-> Step(f, i)]
      OBVIOUS
    <3> QED BY <2>1, <2>2, <3>1
  <2>3. CASE m # 0
    <3> HIDE DEF Fits
    <3>1. m \in 1 .. size /\ m - 1 \in 0 .. size /\ m - 1 \notin D
      BY <1>2, <2>1, <2>3
    <3> USE DEF Fits
    <3>2. PICK f \in [0 .. m - 1 -> Nat] : f = [i \in 0 .. m - 1 |-> Step(f, i)]
      BY <3>1
    <3> DEFINE g == [i \in 0 .. m |-> IF i = m THEN 10 * f[m - 1] + Digit(m) ELSE f[i]]
    <3>3. g \in [0 .. m -> Nat]
      <4>1. 10 * f[m - 1] + Digit(m) \in Nat
        <5>1. Digit(m) \in Nat
          BY <1>3, <3>1
        <5>2. f[m - 1] \in Nat
          BY <3>1, <3>2
        <5> QED BY <5>1, <5>2
      <4>2. \A i \in 0 .. m : i # m => f[i] \in Nat
        BY <3>1, <3>2
      <4> QED BY <4>1, <4>2
    <3>4. ASSUME NEW i \in 0 .. m PROVE g[i] = Step(g, i)
      <4>1. CASE i = m
        <5>1. m - 1 \in 0 .. m /\ m - 1 # m /\ m \in 0 .. m /\ m # 0
          BY <3>1
        <5>2. g[m - 1] = f[m - 1] /\ g[m] = 10 * f[m - 1] + Digit(m)
          BY <5>1
        <5> HIDE DEF g
        <5> QED BY <4>1, <5>1, <5>2
      <4>2. CASE i # m
        <5>1. i \in 0 .. m - 1 /\ g[i] = f[i] /\ f[i] = Step(f, i)
          <6>1. i \in 0 .. m - 1 /\ g[i] = f[i]
            BY <3>1, <4>2
          <6> HIDE DEF g
          <6>2. f[i] = [k \in 0 .. m - 1 |-> Step(f, k)][i]
            BY <3>2
          <6> QED BY <6>1, <6>2
        <5>2. i # 0 => i - 1 \in 0 .. m - 1 /\ g[i - 1] = f[i - 1]
          BY <3>1, <4>2
        <5> QED BY <5>1, <5>2
      <4> QED BY <4>1, <4>2
    <3>5. g = [i \in 0 .. m |-> Step(g, i)]
      BY <3>4
    <3> HIDE DEF g
    <3> QED BY <2>1, <3>3, <3>5
  <2> QED BY <2>2, <2>3
<1>5. PICK f \in [0 .. size -> Nat] : f = [i \in 0 .. size |-> Step(f, i)]
  <2>1. size \in 0 .. size
    BY <1>2
  <2> QED BY <1>4, <2>1
<1>6. number = [i \in 0 .. size |-> Step(number, i)]
  BY <1>5
<1>7. \A i \in 0 .. size : number[i] = f[i]
  <2> DEFINE D == {i \in 0 .. size : number[i] # f[i]}
  <2> SUFFICES ASSUME D # {} PROVE FALSE
    OBVIOUS
  <2>1. PICK d \in D : \A e \in D : d <= e
    BY <1>2, LeastElement
  <2>2. number[d] = Step(number, d) /\ f[d] = Step(f, d)
    <3> HIDE DEF number
    <3> QED BY <1>5, <1>6
  <2>3. d # 0 => d - 1 \in 0 .. size /\ d - 1 \notin D
    BY <1>2, <2>1
  <2> HIDE DEF number
  <2> QED BY <2>1, <2>2, <2>3
<1>8. size # 0 => number[size] \in Nat
  <2> HIDE DEF number
  <2> QED BY <1>2, <1>5, <1>7
<1> HIDE DEF number
<1> QED BY <1>1, <1>8, DigitsRead DEF size
-----------------------------------------------------------------------------
(* Positions in order *)

LEMMA RangeIsFinite ==
    ASSUME NEW n \in Nat
    PROVE  /\ IsFiniteSet(0 .. n - 1) /\ Cardinality(0 .. n - 1) = n
           /\ IsFiniteSet(1 .. n) /\ Cardinality(1 .. n) = n
<1>1. /\ IsFiniteSet(0 .. n - 1) /\ Cardinality(0 .. n - 1) = IF 0 > n - 1 THEN 0 ELSE (n - 1) - 0 + 1
      /\ IsFiniteSet(1 .. n) /\ Cardinality(1 .. n) = IF 1 > n THEN 0 ELSE n - 1 + 1
  BY FS_Interval
<1> QED BY <1>1

\* InOrder(S) lists the elements of S, each once and in order: counting those up
\* to each of them gives every number once.
LEMMA InOrderLists ==
    ASSUME NEW S \in SUBSET Int, IsFiniteSet(S)
    PROVE  /\ Cardinality(S) \in Nat
           /\ DOMAIN InOrder(S) = 1 .. Cardinality(S)
           /\ \A k \in 1 .. Cardinality(S) : InOrder(S)[k] \in S
           /\ \A i \in S : \E k \in 1 .. Cardinality(S) : InOrder(S)[k] = i
           /\ \A k, l \in 1 .. Cardinality(S) : k < l => InOrder(S)[k] < InOrder(S)[l]
<1> DEFINE n == Cardinality(S)
           UpTo(i) == {j \in S : j <= i}
           f == [i \in S |-> Cardinality(UpTo(i))]
<1>1. n \in Nat /\ IsFiniteSet(1 .. n) /\ Cardinality(1 .. n) = n
  BY FS_CardinalityType, RangeIsFinite
<1>2. \A i \in S : IsFiniteSet(UpTo(i)) /\ Cardinality(UpTo(i)) \in 1 .. n
  <2> SUFFICES ASSUME NEW i \in S PROVE IsFiniteSet(UpTo(i)) /\ Cardinality(UpTo(i)) \in 1 .. n
    OBVIOUS
  <2>1. UpTo(i) \in SUBSET S /\ UpTo(i) # {}
    OBVIOUS
  <2> HIDE DEF UpTo
  <2>2. IsFiniteSet(UpTo(i)) /\ Cardinality(UpTo(i)) <= n
    BY <2>1, FS_Subset
  <2>3. Cardinality(UpTo(i)) \in Nat /\ Cardinality(UpTo(i)) # 0
    BY <2>1, <2>2, FS_CardinalityType, FS_EmptySet
  <2> QED BY <1>1, <2>2, <2>3
<1>3. ASSUME NEW i \in S, NEW j \in S, i < j PROVE Cardinality(UpTo(i)) < Cardinality(UpTo(j))
  <2>1. UpTo(i) \in SUBSET UpTo(j) /\ j \in UpTo(j) /\ j \notin UpTo(i)
    <3>1. i \in Int /\ j \in Int /\ \A k \in S : k \in Int
      OBVIOUS
    <3>2. (\A k \in S : k <= i => k <= j) /\ j <= j /\ ~(j <= i)
      BY <1>3, <3>1
    <3> QED BY <3>2
  <2> HIDE DEF UpTo
  <2>2. Cardinality(UpTo(i)) # Cardinality(UpTo(j)) /\ Cardinality(UpTo(i)) <= Cardinality(UpTo(j))
    BY <1>2, <2>1, FS_Subset
  <2> QED BY <1>2, <2>2
<1>4. f \in Injection(S, 1 .. n)
  <2>1. f \in [S -> 1 .. n]
    BY <1>2
  <2>2. ASSUME NEW i \in S, NEW j \in S, f[i] = f[j] PROVE i = j
    <3>1. f[i] = Cardinality(UpTo(i)) /\ f[j] = Cardinality(UpTo(j))
      OBVIOUS
    <3>2. i \in Int /\ j \in Int
      OBVIOUS
    <3> HIDE DEF f, UpTo
    <3>3. PICK a \in 1 .. n, b \in 1 .. n : a = Cardinality(UpTo(i)) /\ b = Cardinality(UpTo(j))
      BY <1>2
    <3>4. a = b
      BY <2>2, <3>1, <3>3
    <3>5. (i < j => a < b) /\ (j < i => b < a)
      BY <1>3, <3>3
    <3>6. a \in Int /\ b \in Int
      BY <1>1
    <3>7. ~(i < j) /\ ~(j < i)
      BY <3>4, <3>5, <3>6
    <3> QED BY <3>2, <3>7
  <2> HIDE DEF f
  <2> QED BY <2>1, <2>2 DEF Injection, IsInjective
<1>5. f \in Surjection(S, 1 .. n)
  <2> HIDE DEF f
  <2> QED BY <1>1, <1>4, FS_Injection
<1>6. \A k \in 1 .. n : \E i \in S : Cardinality(UpTo(i)) = k
  <2>1. \A k \in 1 .. n : \E i \in S : f[i] = k
    <3> HIDE DEF f
    <3> QED BY <1>5 DEF Surjection
  <2> QED BY <2>1
<1>7. \A k \in 1 .. n : InOrder(S)[k] = CHOOSE i \in S : Cardinality(UpTo(i)) = k
  BY DEF InOrder
<1>8. DOMAIN InOrder(S) = 1 .. n
  BY DEF InOrder
<1> HIDE DEF UpTo
<1>9. \A k \in 1 .. n : InOrder(S)[k] \in S /\ Cardinality(UpTo(InOrder(S)[k])) = k
  BY <1>6, <1>7
<1>10. \A i \in S : \E k \in 1 .. n : InOrder(S)[k] = i
  <2> SUFFICES ASSUME NEW i \in S PROVE \E k \in 1 .. n : InOrder(S)[k] = i
    OBVIOUS
  <2>1. PICK k \in 1 .. n : k = Cardinality(UpTo(i))
    BY <1>2
  <2>2. PICK j \in S : j = InOrder(S)[k] /\ Cardinality(UpTo(j)) = k
    BY <1>9
  <2>3. ~(i < j) /\ ~(j < i)
    BY <1>1, <1>3, <2>1, <2>2
  <2> QED BY <2>2, <2>3
<1>11. ASSUME NEW k \in 1 .. n, NEW l \in 1 .. n, k < l PROVE InOrder(S)[k] < InOrder(S)[l]
  <2>1. PICK i \in S, j \in S : /\ i = InOrder(S)[k] /\ Cardinality(UpTo(i)) = k
                                /\ j = InOrder(S)[l] /\ Cardinality(UpTo(j)) = l
    BY <1>9
  <2>2. ~(j < i) /\ i # j
    BY <1>1, <1>3, <1>11, <2>1
  <2> QED BY <2>1, <2>2
<1> QED BY <1>1, <1>8, <1>9, <1>10, <1>11

-----------------------------------------------------------------------------
(* Where a line is cut *)

\* There is an odd number of quotes up to position n.
Inside(line, n) == Cardinality({j \in 1 .. n : line[j] = Quote}) % 2 # 0

CommasOf(line) == {i \in DOMAIN line : line[i] = Comma /\ ~Inside(line, i)}

\* The positions between which the texts are: the commas, and one on either side.
IsCut(line, K, cuts) ==
    /\ K \in Nat /\ cuts \in [1 .. K + 2 -> 0 .. Len(line) + 1]
    /\ cuts[1] = 0 /\ cuts[K + 2] = Len(line) + 1
    /\ \A j, k \in 1 .. K + 2 : j < k => cuts[j] < cuts[k]
    /\ \A k \in 2 .. K + 1 : cuts[k] \in CommasOf(line)
    /\ \A i \in CommasOf(line) : \E k \in 2 .. K + 1 : cuts[k] = i
    /\ Split(line) = [k \in 1 .. K + 1 |-> SubSeq(line, cuts[k] + 1, cuts[k + 1] - 1)]

LEMMA LineIsCut ==
    ASSUME NEW line \in Seq(Characters)
    PROVE  \E K, cuts : IsCut(line, K, cuts)
<1> DEFINE S == CommasOf(line)
           K == Cardinality(S)
           o == InOrder(S)
<1>1. Len(line) \in Nat /\ DOMAIN line = 1 .. Len(line)
  OBVIOUS
<1>2. S \in SUBSET (1 .. Len(line)) /\ S \in SUBSET Int
  BY <1>1 DEF CommasOf
<1>3. IsFiniteSet(S)
  <2>1. IsFiniteSet(1 .. Len(line))
    BY <1>1, FS_Interval
  <2> HIDE DEF S
  <2> QED BY <1>2, <2>1, FS_Subset
<1>4. /\ K \in Nat /\ DOMAIN o = 1 .. K /\ \A k \in 1 .. K : o[k] \in S
      /\ \A i \in S : \E k \in 1 .. K : o[k] = i
      /\ \A k, l \in 1 .. K : k < l => o[k] < o[l]
  <2> HIDE DEF S
  <2> QED BY <1>2, <1>3, InOrderLists
<1>5. o = [k \in 1 .. K |-> o[k]] /\ o \in Seq(Int)
  <2>1. o = [k \in DOMAIN o |-> o[k]]
    <3> DEFINE c(k) == CHOOSE i \in S : Cardinality({j \in S : j <= i}) = k
    <3>1. o = [k \in 1 .. K |-> c(k)]
      BY DEF InOrder
    <3> HIDE DEF c, o, K
    <3> QED BY <3>1
  <2> HIDE DEF o, K, S
  <2> QED BY <1>2, <1>4, <2>1
<1>6. PICK cuts : cuts = <<0>> \o o \o <<Len(line) + 1>>
  OBVIOUS
<1>7. Split(line) = [k \in 1 .. Len(cuts) - 1 |-> SubSeq(line, cuts[k] + 1, cuts[k + 1] - 1)]
  <2>1. S = {i \in DOMAIN line :
                line[i] = Comma /\ Cardinality({j \in 1 .. i : line[j] = Quote}) % 2 = 0}
    BY DEF CommasOf, Inside
  <2> HIDE DEF S
  <2> QED BY <1>6, <2>1 DEF Split
<1> HIDE DEF o, K, S
<1>8. Len(o) = K
  BY <1>4, <1>5
<1>9. /\ Len(cuts) = K + 2 /\ cuts[1] = 0 /\ cuts[K + 2] = Len(line) + 1
      /\ \A k \in 2 .. K + 1 : cuts[k] = o[k - 1]
      /\ DOMAIN cuts = 1 .. K + 2 /\ cuts \in Seq(Int)
  <2> DEFINE c == <<0>> \o o
  <2>1. /\ c \in Seq(Int) /\ Len(c) = K + 1 /\ c[1] = 0
        /\ \A k \in 2 .. K + 1 : c[k] = o[k - 1]
    BY <1>4, <1>5, <1>8
  <2>2. cuts = c \o <<Len(line) + 1>> /\ <<Len(line) + 1>> \in Seq(Int)
    BY <1>1, <1>6
  <2> HIDE DEF c
  <2>3. /\ cuts \in Seq(Int) /\ Len(cuts) = K + 1 + 1
        /\ \A i \in 1 .. K + 1 + 1 : cuts[i] = IF i <= K + 1 THEN c[i] ELSE <<Len(line) + 1>>[i - (K + 1)]
    BY <1>4, <2>1, <2>2, ConcatProperties
  <2>4. cuts[1] = 0 /\ cuts[K + 2] = Len(line) + 1 /\ \A k \in 2 .. K + 1 : cuts[k] = o[k - 1]
    BY <1>4, <2>1, <2>3
  <2> QED BY <1>4, <2>3, <2>4
<1>10. \A k \in 2 .. K + 1 : k - 1 \in 1 .. K /\ cuts[k] \in S /\ cuts[k] \in 1 .. Len(line)
  BY <1>2, <1>4, <1>9
<1>11. ASSUME NEW k \in 1 .. K + 2 PROVE cuts[k] \in 0 .. Len(line) + 1
  <2>1. CASE k = 1 \/ k = K + 2
    BY <1>1, <1>9, <2>1
  <2>2. CASE k \in 2 .. K + 1
    BY <1>1, <1>10, <2>2
  <2> QED BY <1>4, <2>1, <2>2
<1>12. ASSUME NEW j \in 1 .. K + 2, NEW k \in 1 .. K + 2, j < k PROVE cuts[j] < cuts[k]
  <2>1. CASE j = 1
    BY <1>1, <1>4, <1>9, <1>10, <1>12, <2>1
  <2>2. CASE k = K + 2 /\ j # 1
    <3>1. j \in 2 .. K + 1
      BY <1>4, <1>12, <2>2
    <3> QED BY <1>1, <1>9, <1>10, <2>2, <3>1
  <2>3. CASE j # 1 /\ k # K + 2
    <3>1. j \in 2 .. K + 1 /\ k \in 2 .. K + 1 /\ j - 1 < k - 1
      BY <1>4, <1>12, <2>3
    <3> QED BY <1>4, <1>9, <1>10, <3>1
  <2> QED BY <2>1, <2>2, <2>3
<1>13. ASSUME NEW i \in S PROVE \E k \in 2 .. K + 1 : cuts[k] = i
  <2>1. PICK l \in 1 .. K : o[l] = i
    BY <1>4
  <2>2. l + 1 \in 2 .. K + 1 /\ cuts[l + 1] = o[(l + 1) - 1] /\ (l + 1) - 1 = l
    BY <1>4, <1>9
  <2> QED BY <2>1, <2>2
<1>14. cuts \in [1 .. K + 2 -> 0 .. Len(line) + 1]
  <2>1. cuts = [k \in 1 .. K + 2 |-> cuts[k]]
    BY <1>4, <1>9
  <2> QED BY <1>11, <2>1
<1>15. Split(line) = [k \in 1 .. K + 1 |-> SubSeq(line, cuts[k] + 1, cuts[k + 1] - 1)]
  <2>1. Len(cuts) - 1 = K + 1
    BY <1>4, <1>9
  <2> QED BY <1>7, <2>1
<1>16. IsCut(line, K, cuts)
  BY <1>4, <1>9, <1>10, <1>12, <1>13, <1>14, <1>15 DEF IsCut, S
<1> QED BY <1>16

\* A quote begins or ends the text it stands in; nothing else does.
LEMMA QuotesCounted ==
    ASSUME NEW line, NEW n \in Nat
    PROVE  Inside(line, n + 1) <=> IF line[n + 1] = Quote THEN ~Inside(line, n) ELSE Inside(line, n)
<1> DEFINE S == {j \in 1 .. n : line[j] = Quote}
           T == {j \in 1 .. n + 1 : line[j] = Quote}
<1>1. IsFiniteSet(S) /\ n + 1 \notin S
  <2>1. IsFiniteSet(1 .. n) /\ S \in SUBSET (1 .. n)
    BY FS_Interval
  <2>2. IsFiniteSet(S)
    <3> HIDE DEF S
    <3> QED BY <2>1, FS_Subset
  <2> QED BY <2>2
<1>2. T = IF line[n + 1] = Quote THEN S \cup {n + 1} ELSE S
  <2>1. \A j : j \in 1 .. n + 1 <=> j \in 1 .. n \/ j = n + 1
    OBVIOUS
  <2> QED BY <2>1
<1>3. PICK k \in Nat : k = Cardinality(S)
  <2> HIDE DEF S
  <2> QED BY <1>1, FS_CardinalityType
<1>4. Cardinality(T) = IF line[n + 1] = Quote THEN k + 1 ELSE k
  <2> HIDE DEF S, T
  <2> QED BY <1>1, <1>2, <1>3, FS_AddElement
<1>5. (k + 1) % 2 # 0 <=> ~(k % 2 # 0)
  OBVIOUS
<1>6. Inside(line, n) <=> k % 2 # 0
  BY <1>3 DEF Inside
<1>7. Inside(line, n + 1) <=> Cardinality(T) % 2 # 0
  BY DEF Inside
<1> HIDE DEF T
<1> QED BY <1>4, <1>5, <1>6, <1>7
-----------------------------------------------------------------------------
(* What is stored *)

LEMMA ColumnTypes ==
    /\ Len(Columns) = 4 /\ Fields = {Columns[1], Columns[2], Columns[3], Columns[4]}
    /\ \A j, k \in 1 .. 4 : Columns[j] = Columns[k] => j = k
    /\ \A k \in 1 .. 4 : Columns[k] \in Fields
    /\ field_to_value_type[Columns[1]] = "DATE"
    /\ field_to_value_type[Columns[2]] = "UINT8_T"
    /\ field_to_value_type[Columns[3]] = "FIXED_STRING"
    /\ field_to_value_type[Columns[4]] = "FIXED_STRING"
<1>1. /\ Len(Columns) = 4 /\ Columns[1] = "crash_date" /\ Columns[2] = "number_of_persons_injured"
      /\ Columns[3] = "borough" /\ Columns[4] = "vehicle_type_code_5"
  BY DEF Columns
<1>2. 1 .. 4 = {1, 2, 3, 4}
  OBVIOUS
<1>3. Fields = {Columns[1], Columns[2], Columns[3], Columns[4]}
  BY <1>1, <1>2 DEF Fields
<1> QED BY <1>1, <1>2, <1>3 DEF field_to_value_type

LEMMA NumbersFit ==
    /\ \A x \in Nat : UInt8(x) \in 0 .. 2^Width - 1
    /\ \A x \in 0 .. 2^Width - 1 : UInt8(x) = x
<1>1. 2^Width \in Nat \ {0}
  BY FieldsAssumption
<1>2. PICK w \in Nat \ {0} : w = 2^Width
  BY <1>1
<1>3. (\A x \in Nat : x % w \in 0 .. w - 1) /\ (\A x \in 0 .. w - 1 : x % w = x)
  OBVIOUS
<1> QED BY <1>2, <1>3 DEF UInt8

\* The value of a text in a field, the last one included.
Kept(name, text) ==
    IF ~contains_non_whitespace(text) THEN NoValue
    ELSE CASE field_to_value_type[name] = "DATE" -> IF Len(text) = 1 THEN NoValue ELSE from_chars(text)
           [] field_to_value_type[name] = "UINT8_T" -> convert_number(text)
           [] field_to_value_type[name] = "FIXED_STRING" -> CollisionString(text)

LEMMA KeptIsValue ==
    ASSUME NEW name \in Fields, NEW text \in Seq(Characters)
    PROVE  /\ Kept(name, text) \in Values
           /\ Kept(name, text) = Thrown => Len(text) > StringLength
           /\ field_to_value_type[name] = "UINT8_T" =>
                 Kept(name, text) \in 0 .. 2^Width - 1 \cup {NoValue}
           /\ field_to_value_type[name] = "FIXED_STRING" =>
                 Kept(name, text) \in {NoValue, Thrown} \/ Len(Kept(name, text)) \in 0 .. StringLength
<1>1. field_to_value_type[name] \in {"DATE", "UINT8_T", "FIXED_STRING"}
  BY ColumnTypes
<1>2. from_chars(text) \in Nat \cup {NoValue}
  BY NumberIsRead
<1>3. convert_number(text) \in 0 .. 2^Width - 1 \cup {NoValue}
  BY <1>2, NumbersFit DEF convert_number
<1>4. PICK w \in Nat : w = 2^Width
  BY FieldsAssumption
<1>5. convert_number(text) \in Nat \cup {NoValue}
  BY <1>3, <1>4
<1>6. Thrown \notin Nat \cup {NoValue} \cup Seq(Characters) /\ StringLength \in Nat
  BY FieldsAssumption
<1>7. Len(text) \in Nat
  OBVIOUS
<1>8. CASE ~contains_non_whitespace(text)
  <2>1. Kept(name, text) = NoValue
    BY <1>8 DEF Kept
  <2> QED BY <1>6, <2>1 DEF Values
<1>9. CASE contains_non_whitespace(text) /\ field_to_value_type[name] = "DATE"
  <2>1. Kept(name, text) = IF Len(text) = 1 THEN NoValue ELSE from_chars(text)
    BY <1>9 DEF Kept
  <2> QED BY <1>2, <1>6, <1>9, <2>1 DEF Values
<1>10. CASE contains_non_whitespace(text) /\ field_to_value_type[name] = "UINT8_T"
  <2>1. Kept(name, text) = convert_number(text)
    BY <1>10 DEF Kept
  <2> QED BY <1>3, <1>5, <1>6, <1>10, <2>1, <1>4 DEF Values
<1>11. CASE contains_non_whitespace(text) /\ field_to_value_type[name] = "FIXED_STRING"
  <2>1. Kept(name, text) = IF Len(text) > StringLength THEN Thrown ELSE text
    BY <1>11 DEF Kept, CollisionString
  <2> QED BY <1>6, <1>7, <1>11, <2>1 DEF Values
<1> QED BY <1>1, <1>8, <1>9, <1>10, <1>11

\* The first field is short of its last character, which the date needs.
LEMMA DateIsKept ==
    ASSUME NEW line \in Seq(Characters), NEW n \in 0 .. Len(line)
    PROVE  Kept(Columns[1], SubSeq(line, 1, n)) =
               IF n > 1 /\ contains_non_whitespace(SubSeq(line, 1, n - 1))
               THEN convert_year_month_day_date(SubSeq(line, 1, n - 1), line[n])
               ELSE NoValue
<1> DEFINE field == SubSeq(line, 1, n - 1)
           text == SubSeq(line, 1, n)
<1>1. /\ text \in Seq(Characters) /\ Len(text) = n /\ DOMAIN text = 1 .. n
      /\ \A i \in 1 .. n : text[i] = line[i]
  <2>1. \A i \in 1 .. n : line[i] \in Characters
    OBVIOUS
  <2>2. /\ text \in Seq(Characters) /\ Len(text) = IF 1 <= n THEN n - 1 + 1 ELSE 0
        /\ \A i \in 1 .. n - 1 + 1 : text[i] = line[1 + i - 1]
    BY <2>1, SubSeqProperties
  <2> QED BY <2>2
<1>2. Kept(Columns[1], text) =
          IF ~contains_non_whitespace(text) \/ n = 1 THEN NoValue ELSE from_chars(text)
  <2> HIDE DEF text
  <2> QED BY <1>1, ColumnTypes DEF Kept
<1>3. CASE n <= 1
  <2>1. n = 0 => ~contains_non_whitespace(text)
    BY <1>1 DEF contains_non_whitespace
  <2> QED BY <1>2, <1>3, <2>1
<1>4. CASE n > 1
  <2>1. /\ field \in Seq(Characters) /\ Len(field) = n - 1 /\ DOMAIN field = 1 .. n - 1
        /\ \A i \in 1 .. n - 1 : field[i] = line[i]
    <3>1. \A i \in 1 .. n - 1 : line[i] \in Characters
      OBVIOUS
    <3>2. /\ field \in Seq(Characters) /\ Len(field) = IF 1 <= n - 1 THEN n - 1 - 1 + 1 ELSE 0
          /\ \A i \in 1 .. n - 1 - 1 + 1 : field[i] = line[1 + i - 1]
      BY <3>1, SubSeqProperties
    <3> QED BY <1>4, <3>2
  <2>2. Append(field, line[n]) = text
    <3> HIDE DEF field, text
    <3>1. /\ Append(field, line[n]) \in Seq(Characters) /\ Len(Append(field, line[n])) = n
          /\ \A i \in 1 .. n : Append(field, line[n])[i] = line[i]
      BY <1>4, <2>1
    <3> QED BY <1>1, <3>1, SeqEqual
  <2>3. convert_year_month_day_date(field, line[n]) = from_chars(text)
    BY <2>2 DEF convert_year_month_day_date
  <2> HIDE DEF field, text
  <2>4. contains_non_whitespace(field) => contains_non_whitespace(text)
    BY <1>1, <1>4, <2>1 DEF contains_non_whitespace
  <2>5. ~contains_non_whitespace(field) => from_chars(text) = NoValue
    <3>1. ~contains_non_whitespace(field) => text[1] = Blank
      BY <1>1, <1>4, <2>1 DEF contains_non_whitespace
    <3> QED BY <1>1, <3>1, NumberIsRead
  <2> QED BY <1>2, <1>4, <2>3, <2>4, <2>5 DEF field, text
<1> QED BY <1>3, <1>4

-----------------------------------------------------------------------------
(* The pass *)

\* How far parseline has come after n characters: it has passed the cuts up to
\* there, and has stored the texts between them.
AtOK(line, K, cuts, at, n) ==
    /\ at \in [is_inside_quote : BOOLEAN, last_comma : Nat, field_index : Nat,
              collision : [Fields -> Values]]
    /\ at.is_inside_quote <=> Inside(line, n)
    /\ at.field_index <= K
    /\ cuts[at.field_index + 1] <= n /\ n < cuts[at.field_index + 2]
    /\ at.last_comma = IF at.field_index = 0 THEN 0 ELSE cuts[at.field_index + 1] - 1
    /\ \A k \in 1 .. 4 :
          at.collision[Columns[k]] =
              IF k <= at.field_index THEN Kept(Columns[k], Split(line)[k]) ELSE NoValue

LEMMA TextFacts ==
    ASSUME NEW line \in Seq(Characters), NEW K, NEW cuts, IsCut(line, K, cuts),
           NEW k \in 1 .. K + 1
    PROVE  /\ Split(line)[k] = SubSeq(line, cuts[k] + 1, cuts[k + 1] - 1)
           /\ Split(line)[k] \in Seq(Characters)
           /\ cuts[k] \in 0 .. Len(line) /\ cuts[k + 1] \in 1 .. Len(line) + 1
<1>1. K \in Nat /\ k \in 1 .. K + 2 /\ k + 1 \in 1 .. K + 2 /\ k < k + 1
  BY DEF IsCut
<1>2. /\ cuts[k] \in 0 .. Len(line) + 1 /\ cuts[k + 1] \in 0 .. Len(line) + 1 /\ cuts[k] < cuts[k + 1]
      /\ cuts[k] \in 0 .. Len(line) /\ cuts[k + 1] \in 1 .. Len(line) + 1
  <2>1. PICK a, b : a = cuts[k] /\ b = cuts[k + 1]
    OBVIOUS
  <2>2. a \in 0 .. Len(line) + 1 /\ b \in 0 .. Len(line) + 1 /\ a < b
    BY <1>1, <2>1 DEF IsCut
  <2>3. a \in 0 .. Len(line) /\ b \in 1 .. Len(line) + 1
    BY <2>2
  <2> QED BY <2>1, <2>2, <2>3
<1>3. Split(line)[k] = SubSeq(line, cuts[k] + 1, cuts[k + 1] - 1)
  BY DEF IsCut
<1>4. SubSeq(line, cuts[k] + 1, cuts[k + 1] - 1) \in Seq(Characters)
  <2>1. PICK a, b : a = cuts[k] + 1 /\ b = cuts[k + 1] - 1
    OBVIOUS
  <2>2. a \in Int /\ b \in Int /\ 1 <= a /\ b <= Len(line)
    BY <1>2, <2>1
  <2>3. \A i \in a .. b : line[i] \in Characters
    BY <2>2
  <2> QED BY <2>1, <2>2, <2>3, SubSeqProperties
<1> QED BY <1>2, <1>3, <1>4

\* At a comma the text before it is stored, the first three and the last alike.
LEMMA StoreKeeps ==
    ASSUME NEW line \in Seq(Characters), NEW K, NEW cuts, IsCut(line, K, cuts),
           NEW n \in 0 .. Len(line), NEW at, AtOK(line, K, cuts, at, n),
           NEW m \in 0 .. K - 1, at.field_index = m, cuts[m + 2] = n + 1
    PROVE  Store(line, at, n) =
               IF m < 4
               THEN [at.collision EXCEPT ![Columns[m + 1]] = Kept(Columns[m + 1], Split(line)[m + 1])]
               ELSE at.collision
<1> DEFINE name == Columns[m + 1]
           text == Split(line)[m + 1]
           first == at.last_comma + (IF m > 0 THEN 1 ELSE 0)
           end == first + n - at.last_comma - 1
           field == SubSeq(line, first + 1, end)
<1>1. /\ K \in Nat /\ m + 1 \in 1 .. K + 1 /\ (m + 1) + 1 = m + 2
      /\ cuts[m + 1] \in Nat /\ cuts[m + 1] <= n
      /\ text = SubSeq(line, cuts[m + 1] + 1, (n + 1) - 1) /\ (n + 1) - 1 = n
      /\ text \in Seq(Characters)
  <2>1. K \in Nat /\ m + 1 \in 1 .. K + 1 /\ (m + 1) + 1 = m + 2
    BY DEF IsCut
  <2>2. /\ text = SubSeq(line, cuts[m + 1] + 1, cuts[(m + 1) + 1] - 1)
        /\ text \in Seq(Characters) /\ cuts[m + 1] \in Nat
    <3>1. cuts[m + 1] \in 0 .. Len(line)
      BY <2>1, TextFacts
    <3> QED BY <2>1, <3>1, TextFacts
  <2>3. cuts[m + 1] <= n
    BY DEF AtOK
  <2>4. cuts[(m + 1) + 1] = n + 1 /\ (n + 1) - 1 = n
    BY <2>1
  <2> HIDE DEF text
  <2> QED BY <2>1, <2>2, <2>3, <2>4
<1>2. at.collision \in [Fields -> Values] /\ at.last_comma \in Nat
  BY DEF AtOK
<1>3. at.last_comma = IF m = 0 THEN 0 ELSE cuts[m + 1] - 1
  BY DEF AtOK
<1>4. Store(line, at, n) =
          IF n - at.last_comma > 1 /\ contains_non_whitespace(field) /\ m < 4
          THEN [at.collision EXCEPT ![name] = Convert(name, field, line[end + 1])]
          ELSE at.collision
  BY ColumnTypes DEF Store
<1>5. CASE ~(m < 4)
  BY <1>4, <1>5
<1>6. CASE m < 4
  <2>1. m + 1 \in 1 .. 4 /\ name \in Fields /\ at.collision[name] = NoValue
    <3>1. m + 1 \in 1 .. 4 /\ ~(m + 1 <= m)
      BY <1>6
    <3> QED BY <3>1, ColumnTypes DEF AtOK
  <2>2. SUFFICES Kept(name, text) = IF n - at.last_comma > 1 /\ contains_non_whitespace(field)
                                    THEN Convert(name, field, line[end + 1]) ELSE NoValue
    <3> HIDE DEF name, text, field, end
    <3>1. at.collision = [at.collision EXCEPT ![name] = NoValue]
      BY <1>2, <2>1
    <3> QED BY <1>4, <1>6, <2>2, <3>1 DEF name, text
  <2>3. CASE m = 0
    <3>1. name = Columns[1] /\ first = 0 /\ end = n - 1 /\ end + 1 = n /\ first + 1 = 1
      BY <1>3, <2>3
    <3>2. text = SubSeq(line, 1, n) /\ field = SubSeq(line, 1, n - 1)
      <4>1. cuts[1] = 0
        BY DEF IsCut
      <4> QED BY <1>1, <2>3, <3>1, <4>1
    <3>3. Convert(name, field, line[end + 1]) = convert_year_month_day_date(field, line[n])
      <4> HIDE DEF field, end
      <4> QED BY <3>1, ColumnTypes DEF Convert
    <3>4. n - at.last_comma = n
      BY <1>3, <2>3
    <3> HIDE DEF name, text, field, end
    <3> QED BY <3>1, <3>2, <3>3, <3>4, DateIsKept
  <2>4. CASE m # 0
    <3>1. at.last_comma = cuts[m + 1] - 1 /\ first = cuts[m + 1] /\ end = n
      <4>1. PICK l \in Nat : l = cuts[m + 1]
        BY <1>1
      <4>2. at.last_comma = l - 1 /\ m > 0
        BY <1>1, <1>3, <2>4, <4>1
      <4>3. first = l /\ l + n - (l - 1) - 1 = n
        <5>1. l - 1 + 1 = l /\ l + n - (l - 1) - 1 = n
          BY <4>1
        <5> QED BY <4>2, <5>1
      <4> HIDE DEF first
      <4> QED BY <4>1, <4>2, <4>3
    <3>2. field = text
      <4> HIDE DEF first, end, text
      <4> QED BY <1>1, <3>1
    <3>3. n - at.last_comma > 1 <=> cuts[m + 1] < n
      <4> HIDE DEF first, end, text
      <4>1. PICK l \in Nat : l = cuts[m + 1]
        BY <1>1
      <4>2. n - (l - 1) > 1 <=> l < n
        BY <1>1
      <4> QED BY <3>1, <4>1, <4>2
    <3>4. ~(cuts[m + 1] < n) => ~contains_non_whitespace(text)
      <4> SUFFICES ASSUME ~(cuts[m + 1] < n) PROVE text = <<>>
        BY DEF contains_non_whitespace
      <4>1. cuts[m + 1] + 1 \in Int /\ n < cuts[m + 1] + 1
        BY <1>1
      <4> HIDE DEF text
      <4> QED BY <1>1, <4>1, SubSeqEmpty
    <3>5. contains_non_whitespace(text) => Kept(name, text) = Convert(name, text, line[end + 1])
      <4> HIDE DEF text, end
      <4>1. m + 1 \in {2, 3, 4} /\ field_to_value_type[name] \in {"UINT8_T", "FIXED_STRING"}
        BY <1>6, <2>4, ColumnTypes
      <4> HIDE DEF name
      <4> QED BY <4>1 DEF Kept, Convert
    <3>6. ~contains_non_whitespace(text) => Kept(name, text) = NoValue
      BY DEF Kept
    <3> HIDE DEF name, text, field, end
    <3> QED BY <3>2, <3>3, <3>4, <3>5, <3>6
  <2> QED BY <2>3, <2>4
<1> QED BY <1>5, <1>6

\* Every character keeps what the pass has come to.
LEMMA CharacterIsRead ==
    ASSUME NEW line \in Seq(Characters), NEW K, NEW cuts, IsCut(line, K, cuts),
           NEW n \in 0 .. Len(line) - 1, NEW at, AtOK(line, K, cuts, at, n)
    PROVE  AtOK(line, K, cuts, ReadCharacter(line, at, n + 1), n + 1)
<1> DEFINE c == line[n + 1]
           next == ReadCharacter(line, at, n + 1)
<1>1. PICK m \in 0 .. K : m = at.field_index
  BY DEF AtOK, IsCut
<1>2. /\ K \in Nat /\ m + 1 \in 1 .. K + 2 /\ m + 2 \in 1 .. K + 2
      /\ cuts[m + 1] \in Int /\ cuts[m + 2] \in Int
      /\ cuts[m + 1] <= n /\ n < cuts[m + 2] /\ Len(line) \in Nat /\ n \in Nat
  <2>1. K \in Nat /\ m + 1 \in 1 .. K + 2 /\ m + 2 \in 1 .. K + 2 /\ Len(line) \in Nat
    BY DEF IsCut
  <2>2. cuts[m + 1] \in 0 .. Len(line) + 1 /\ cuts[m + 2] \in 0 .. Len(line) + 1
    BY <2>1 DEF IsCut
  <2>3. cuts[m + 1] <= n /\ n < cuts[m + 2]
    BY <1>1 DEF AtOK
  <2>4. n \in Nat
    OBVIOUS
  <2> QED BY <2>1, <2>2, <2>3, <2>4
<1>3. Comma # Quote
  BY DEF Comma, Quote
<1>4. Inside(line, n + 1) <=> IF c = Quote THEN ~Inside(line, n) ELSE Inside(line, n)
  BY <1>2, QuotesCounted
<1>5. n + 1 \in DOMAIN line
  BY <1>2
<1>6. at.is_inside_quote \in BOOLEAN /\ (at.is_inside_quote <=> Inside(line, n))
  BY DEF AtOK
<1>7. ASSUME n + 1 \notin CommasOf(line) PROVE n + 1 < cuts[m + 2]
  <2>1. CASE m = K
    BY <1>2, <2>1 DEF IsCut
  <2>2. CASE m # K
    <3>1. m + 2 \in 2 .. K + 1
      BY <1>2, <2>2
    <3>2. cuts[m + 2] # n + 1
      BY <1>7, <3>1 DEF IsCut
    <3> QED BY <1>2, <3>2
  <2> QED BY <2>1, <2>2
<1>8. CASE c = Quote
  <2>1. n + 1 < cuts[m + 2]
    BY <1>3, <1>7, <1>8 DEF CommasOf
  <2>2. next = [at EXCEPT !.is_inside_quote = ~@]
    BY <1>8 DEF ReadCharacter
  <2>3. /\ next \in [is_inside_quote : BOOLEAN, last_comma : Nat, field_index : Nat,
                      collision : [Fields -> Values]]
        /\ next.field_index = m /\ next.last_comma = at.last_comma
        /\ next.collision = at.collision /\ next.is_inside_quote = ~at.is_inside_quote
    <3> HIDE DEF next
    <3> QED BY <1>1, <1>6, <2>2 DEF AtOK
  <2>4. next.is_inside_quote <=> Inside(line, n + 1)
    <3> HIDE DEF next, c
    <3> QED BY <1>4, <1>6, <1>8, <2>3
  <2>5. cuts[m + 1] <= n + 1
    BY <1>2
  <2> HIDE DEF next, c
  <2> QED BY <1>1, <2>1, <2>3, <2>4, <2>5 DEF AtOK, next
<1>9. CASE c = Comma /\ ~at.is_inside_quote
  <2>1. n + 1 \in CommasOf(line) /\ ~Inside(line, n + 1)
    BY <1>3, <1>4, <1>5, <1>6, <1>9 DEF CommasOf
  <2>2. m < K /\ cuts[m + 2] = n + 1
    <3>1. PICK k \in 2 .. K + 1 : cuts[k] = n + 1
      BY <2>1 DEF IsCut
    <3>2. \A j, l \in 1 .. K + 2 : j < l => cuts[j] < cuts[l]
      BY DEF IsCut
    <3>3. k \in 1 .. K + 2 /\ cuts[k] \in Int
      BY <1>2, <3>1
    <3>4. ~(k < m + 1) /\ k # m + 1
      BY <1>2, <3>1, <3>2, <3>3
    <3>5. ~(m + 2 < k)
      BY <1>2, <3>1, <3>2, <3>3
    <3>6. k = m + 2
      BY <3>3, <3>4, <3>5
    <3> QED BY <1>2, <3>1, <3>6
  <2>3. m + 3 \in 1 .. K + 2 /\ (m + 1) + 2 = m + 3 /\ (m + 1) + 1 = m + 2
    BY <1>2, <2>2
  <2>4. n + 1 < cuts[m + 3]
    <3>1. cuts[m + 2] < cuts[m + 3]
      BY <1>2, <2>3 DEF IsCut
    <3> QED BY <2>2, <3>1
  <2>5. next = [at EXCEPT !.collision = Store(line, at, (n + 1) - 1),
                          !.last_comma = (n + 1) - 1, !.field_index = @ + 1]
    BY <1>3, <1>9 DEF ReadCharacter, Cut
  <2>6. (n + 1) - 1 = n /\ n \in 0 .. Len(line) /\ m \in 0 .. K - 1
    BY <1>2, <2>2
  <2>7. Store(line, at, n) =
            IF m < 4
            THEN [at.collision EXCEPT ![Columns[m + 1]] = Kept(Columns[m + 1], Split(line)[m + 1])]
            ELSE at.collision
    BY <1>1, <2>2, <2>6, StoreKeeps
  <2>8. at.collision \in [Fields -> Values]
    BY DEF AtOK
  <2>9. m < 4 => Columns[m + 1] \in Fields /\ Kept(Columns[m + 1], Split(line)[m + 1]) \in Values
    <3> SUFFICES ASSUME m < 4 PROVE /\ Columns[m + 1] \in Fields
                                    /\ Kept(Columns[m + 1], Split(line)[m + 1]) \in Values
      OBVIOUS
    <3>1. m + 1 \in 1 .. 4 /\ m + 1 \in 1 .. K + 1
      BY <1>2, <2>2
    <3>2. Columns[m + 1] \in Fields /\ Split(line)[m + 1] \in Seq(Characters)
      BY <3>1, ColumnTypes, TextFacts
    <3> QED BY <3>2, KeptIsValue
  <2>10. Store(line, at, n) \in [Fields -> Values]
    BY <2>7, <2>8, <2>9
  <2>11. /\ next \in [is_inside_quote : BOOLEAN, last_comma : Nat, field_index : Nat,
                       collision : [Fields -> Values]]
         /\ next.field_index = m + 1 /\ next.last_comma = n
         /\ next.collision = Store(line, at, n) /\ next.is_inside_quote = at.is_inside_quote
    <3> HIDE DEF next
    <3>1. at \in [is_inside_quote : BOOLEAN, last_comma : Nat, field_index : Nat,
                  collision : [Fields -> Values]]
      BY DEF AtOK
    <3>2. at.field_index + 1 = m + 1 /\ m + 1 \in Nat /\ n \in Nat
      BY <1>1, <1>2
    <3>3. PICK store \in [Fields -> Values] : store = Store(line, at, n)
      BY <2>10
    <3>4. next = [at EXCEPT !.collision = store, !.last_comma = n, !.field_index = m + 1]
      BY <2>5, <2>6, <3>2, <3>3
    <3> QED BY <3>1, <3>2, <3>3, <3>4
  <2>12. \A k \in 1 .. 4 :
            Store(line, at, n)[Columns[k]] =
                IF k <= m + 1 THEN Kept(Columns[k], Split(line)[k]) ELSE NoValue
    <3> SUFFICES ASSUME NEW k \in 1 .. 4
                 PROVE  Store(line, at, n)[Columns[k]] =
                            IF k <= m + 1 THEN Kept(Columns[k], Split(line)[k]) ELSE NoValue
      OBVIOUS
    <3>1. at.collision[Columns[k]] = IF k <= m THEN Kept(Columns[k], Split(line)[k]) ELSE NoValue
      BY <1>1 DEF AtOK
    <3>2. CASE k = m + 1
      <4>1. m < 4 /\ Columns[k] \in Fields
        BY <1>2, <3>2, ColumnTypes
      <4> QED BY <2>7, <2>8, <3>2, <4>1
    <3>3. CASE k # m + 1
      <4>1. Store(line, at, n)[Columns[k]] = at.collision[Columns[k]]
        <5>1. m < 4 => m + 1 \in 1 .. 4 /\ Columns[k] # Columns[m + 1]
          BY <1>2, <3>3, ColumnTypes
        <5>2. Columns[k] \in Fields
          BY ColumnTypes
        <5> QED BY <2>7, <2>8, <5>1, <5>2
      <4>2. k <= m + 1 <=> k <= m
        BY <1>2, <3>3
      <4> QED BY <3>1, <4>1, <4>2
    <3> QED BY <3>2, <3>3
  <2>13. next.is_inside_quote <=> Inside(line, n + 1)
    <3> HIDE DEF next, c
    <3> QED BY <1>6, <1>9, <2>1, <2>11
  <2>14. m + 1 # 0 /\ n = cuts[m + 2] - 1 /\ cuts[m + 2] <= n + 1 /\ m + 1 <= K
    BY <1>2, <2>2
  <2> HIDE DEF next, c
  <2> QED BY <2>3, <2>4, <2>11, <2>12, <2>13, <2>14 DEF AtOK, next
<1>10. CASE c # Quote /\ ~(c = Comma /\ ~at.is_inside_quote)
  <2>1. next = at
    BY <1>10 DEF ReadCharacter
  <2>2. Inside(line, n + 1) <=> Inside(line, n)
    BY <1>4, <1>10
  <2>3. n + 1 < cuts[m + 2]
    BY <1>6, <1>7, <1>10, <2>2 DEF CommasOf
  <2>4. cuts[m + 1] <= n + 1
    BY <1>2
  <2> HIDE DEF next, c
  <2> QED BY <1>1, <2>1, <2>2, <2>3, <2>4 DEF AtOK, next
<1> QED BY <1>8, <1>9, <1>10

LEMMA PassBegins ==
    ASSUME NEW line \in Seq(Characters), NEW K, NEW cuts, IsCut(line, K, cuts)
    PROVE  AtOK(line, K, cuts, Begun, 0)
<1>1. K \in Nat /\ 1 \in 1 .. K + 2 /\ 2 \in 1 .. K + 2 /\ cuts[1] = 0 /\ 0 < cuts[2]
  <2>1. K \in Nat /\ 1 \in 1 .. K + 2 /\ 2 \in 1 .. K + 2
    BY DEF IsCut
  <2>2. cuts[1] = 0 /\ cuts[1] < cuts[2]
    BY <2>1 DEF IsCut
  <2> QED BY <2>1, <2>2
<1>2. ~Inside(line, 0)
  <2>1. {j \in 1 .. 0 : line[j] = Quote} = {}
    OBVIOUS
  <2>2. Cardinality({j \in 1 .. 0 : line[j] = Quote}) = 0
    BY <2>1, FS_EmptySet
  <2> QED BY <2>2 DEF Inside
<1>3. NoCollision \in [Fields -> Values] /\ \A k \in 1 .. 4 : NoCollision[Columns[k]] = NoValue
  BY ColumnTypes DEF NoCollision, Values
<1>4. /\ Begun \in [is_inside_quote : BOOLEAN, last_comma : Nat, field_index : Nat,
                     collision : [Fields -> Values]]
      /\ Begun.is_inside_quote = FALSE /\ Begun.last_comma = 0 /\ Begun.field_index = 0
      /\ Begun.collision = NoCollision
  BY <1>3 DEF Begun
<1> QED BY <1>1, <1>2, <1>3, <1>4 DEF AtOK

LEMMA LineIsRead ==
    ASSUME NEW line \in Seq(Characters), NEW K, NEW cuts, IsCut(line, K, cuts)
    PROVE  AtOK(line, K, cuts, Parsed(line), Len(line))
<1> DEFINE N == Len(line)
           Step(f, n) == IF n = 0 THEN Begun ELSE ReadCharacter(line, f[n - 1], n)
           IsPass(f, m) == f = [n \in 0 .. m |-> Step(f, n)]
           at == CHOOSE f : f = [n \in 0 .. N |-> Step(f, n)]
<1>1. Parsed(line) = at[N] /\ N \in Nat
  BY DEF Parsed
<1>2. \A m \in 0 .. N : \E f : IsPass(f, m)
  <2> DEFINE D == {m \in 0 .. N : ~\E f : IsPass(f, m)}
  <2> SUFFICES ASSUME D # {} PROVE FALSE
    OBVIOUS
  <2>1. PICK m \in D : \A e \in D : m <= e
    <3> HIDE DEF D
    <3>1. D \in SUBSET (0 .. N)
      BY DEF D
    <3> QED BY <1>1, <3>1, LeastElement
  <2>2. CASE m = 0
    <3> DEFINE f == [n \in 0 .. 0 |-> Begun]
    <3>1. IsPass(f, 0)
      OBVIOUS
    <3> QED BY <2>1, <2>2, <3>1
  <2>3. CASE m # 0
    <3>1. m - 1 \in 0 .. N /\ m \in 1 .. N /\ \E f : IsPass(f, m - 1)
      <4> HIDE DEF IsPass
      <4> QED BY <1>1, <2>1, <2>3
    <3>2. PICK f : f = [n \in 0 .. m - 1 |-> Step(f, n)]
      BY <3>1
    <3> DEFINE g == [n \in 0 .. m |-> IF n = m THEN ReadCharacter(line, f[m - 1], m) ELSE f[n]]
    <3>3. ASSUME NEW n \in 0 .. m PROVE g[n] = Step(g, n)
      <4>1. CASE n = m
        BY <3>1, <4>1
      <4>2. CASE n # m
        <5>1. n \in 0 .. m - 1 /\ g[n] = f[n] /\ f[n] = Step(f, n)
          BY <3>1, <3>2, <4>2
        <5>2. n # 0 => n - 1 \in 0 .. m - 1 /\ g[n - 1] = f[n - 1]
          BY <3>1, <4>2
        <5> QED BY <5>1, <5>2
      <4> QED BY <4>1, <4>2
    <3>4. g = [n \in 0 .. m |-> Step(g, n)]
      BY <3>3
    <3> HIDE DEF g
    <3> QED BY <2>1, <3>4
  <2> QED BY <2>2, <2>3
<1>3. at = [n \in 0 .. N |-> Step(at, n)]
  <2>1. N \in 0 .. N
    BY <1>1
  <2>2. \E f : f = [n \in 0 .. N |-> Step(f, n)]
    BY <1>2, <2>1
  <2> QED BY <2>2
<1> HIDE DEF at
<1>4. \A n \in 0 .. N : at[n] = Step(at, n)
  BY <1>3
<1>5. \A n \in 0 .. N : AtOK(line, K, cuts, at[n], n)
  <2> DEFINE D == {n \in 0 .. N : ~AtOK(line, K, cuts, at[n], n)}
  <2> SUFFICES ASSUME D # {} PROVE FALSE
    OBVIOUS
  <2>1. PICK d \in D : \A e \in D : d <= e
    <3> HIDE DEF D
    <3>1. D \in SUBSET (0 .. N)
      BY DEF D
    <3> QED BY <1>1, <3>1, LeastElement
  <2>2. CASE d = 0
    BY <1>4, <2>1, <2>2, PassBegins
  <2>3. CASE d # 0
    <3>1. d - 1 \in 0 .. N - 1 /\ d - 1 \in 0 .. N /\ d \in 0 .. N /\ d - 1 \notin D /\ (d - 1) + 1 = d
      BY <1>1, <2>1, <2>3
    <3>2. AtOK(line, K, cuts, at[d - 1], d - 1)
      BY <3>1
    <3>3. AtOK(line, K, cuts, ReadCharacter(line, at[d - 1], (d - 1) + 1), (d - 1) + 1)
      BY <3>1, <3>2, CharacterIsRead
    <3> QED BY <1>4, <2>1, <2>3, <3>1, <3>3
  <2> QED BY <2>2, <2>3
<1> QED BY <1>1, <1>5

\* What the pass has found at the end of the line.
LEMMA TextsAreStored ==
    ASSUME NEW line \in Seq(Characters)
    PROVE  /\ Parsed(line).collision \in [Fields -> Values]
           /\ Len(Split(line)) = Parsed(line).field_index + 1 /\ Parsed(line).field_index \in Nat
           /\ DOMAIN Split(line) = 1 .. Len(Split(line))
           /\ \A k \in DOMAIN Split(line) : Split(line)[k] \in Seq(Characters)
           /\ \A k \in 1 .. 4 :
                 Parsed(line).collision[Columns[k]] =
                     IF k < Len(Split(line)) THEN Kept(Columns[k], Split(line)[k]) ELSE NoValue
<1>1. PICK K, cuts : IsCut(line, K, cuts)
  BY LineIsCut
<1>2. PICK at : at = Parsed(line) /\ AtOK(line, K, cuts, at, Len(line))
  BY <1>1, LineIsRead
<1>3. /\ K \in Nat /\ at.field_index \in 0 .. K /\ Len(line) \in Nat
      /\ Len(line) < cuts[at.field_index + 2]
  BY <1>1, <1>2 DEF IsCut, AtOK
<1>4. at.field_index = K
  <2> SUFFICES ASSUME at.field_index # K PROVE FALSE
    OBVIOUS
  <2>1. at.field_index + 2 \in 2 .. K + 1
    BY <1>3
  <2>2. cuts[at.field_index + 2] \in 1 .. Len(line)
    <3>1. cuts[at.field_index + 2] \in CommasOf(line)
      BY <1>1, <2>1 DEF IsCut
    <3>2. CommasOf(line) \subseteq 1 .. Len(line)
      BY DEF CommasOf
    <3> QED BY <3>1, <3>2
  <2> QED BY <1>3, <2>2
<1>5. Len(Split(line)) = K + 1 /\ DOMAIN Split(line) = 1 .. K + 1
  <2>1. Split(line) = [k \in 1 .. K + 1 |-> SubSeq(line, cuts[k] + 1, cuts[k + 1] - 1)]
    BY <1>1 DEF IsCut
  <2> QED BY <1>3, <2>1
<1>6. \A k \in 1 .. K + 1 : Split(line)[k] \in Seq(Characters)
  BY <1>1, TextFacts
<1>7. at.collision \in [Fields -> Values]
  BY <1>2 DEF AtOK
<1>8. \A k \in 1 .. 4 :
         at.collision[Columns[k]] = IF k <= K THEN Kept(Columns[k], Split(line)[k]) ELSE NoValue
  BY <1>2, <1>4 DEF AtOK
<1>9. \A k \in 1 .. 4 : k <= K <=> k < K + 1
  BY <1>3
<1> QED BY <1>2, <1>3, <1>4, <1>5, <1>6, <1>7, <1>8, <1>9

-----------------------------------------------------------------------------
(* The theorems *)

\* Whatever is on a line: if it has a text for every field it becomes the record
\* that the texts make, and otherwise none.
THEOREM EveryLineIsSplit == \A line \in Seq(Characters) : ParsedAsSplit(line)
<1> SUFFICES ASSUME NEW line \in Seq(Characters) PROVE ParsedAsSplit(line)
  OBVIOUS
<1> DEFINE texts == Split(line)
           Text(f) == texts[SelectInSeq(Columns, LAMBDA c : c = f)]
           said == [f \in Fields |-> Says(f, Text(f))]
<1>1. PICK at : at = Parsed(line)
  OBVIOUS
<1>2. /\ at.collision \in [Fields -> Values]
      /\ Len(texts) = at.field_index + 1 /\ at.field_index \in Nat
      /\ \A k \in 1 .. 4 : at.collision[Columns[k]] =
                              IF k < Len(texts) THEN Kept(Columns[k], texts[k]) ELSE NoValue
  BY <1>1, TextsAreStored
<1>3. parseline(line) = IF \E f \in Fields : at.collision[f] = Thrown THEN Thrown
                        ELSE IF at.field_index # 3 THEN Dropped ELSE at.collision
  BY <1>1, ColumnTypes DEF parseline
<1>4. CASE Len(texts) # 4
  <2>1. parseline(line) \in {Dropped, Thrown}
    BY <1>2, <1>3, <1>4
  <2> QED BY <1>4, <2>1, ColumnTypes DEF ParsedAsSplit
<1>5. CASE Len(texts) = 4
  <2>1. \A k \in 1 .. 4 : Text(Columns[k]) = texts[k]
    <3> SUFFICES ASSUME NEW k \in 1 .. 4 PROVE SelectInSeq(Columns, LAMBDA c : c = Columns[k]) = k
      OBVIOUS
    <3> DEFINE I == {j \in 1 .. 4 : Columns[j] = Columns[k]}
    <3>1. I = {k}
      BY ColumnTypes
    <3>2. Min(I) = k
      BY <3>1 DEF Min
    <3>3. SelectInSeq(Columns, LAMBDA c : c = Columns[k]) = IF I # {} THEN Min(I) ELSE 0
      BY ColumnTypes DEF SelectInSeq
    <3> HIDE DEF I
    <3> QED BY <3>1, <3>2, <3>3
  <2>2. ASSUME NEW k \in 1 .. 4 PROVE Says(Columns[k], Text(Columns[k])) = at.collision[Columns[k]]
    <3>1. Text(Columns[k]) = texts[k]
      BY <2>1
    <3> HIDE DEF Text, texts
    <3>2. CASE k = 4
      <4>1. Says(Columns[4], texts[4]) = NoValue
        BY ColumnTypes DEF Says
      <4> QED BY <1>2, <1>5, <3>1, <3>2, <4>1
    <3>3. CASE k # 4
      <4>1. Columns[k] # Columns[4] /\ k < 4
        BY <3>3, ColumnTypes
      <4>2. Says(Columns[k], texts[k]) = Kept(Columns[k], texts[k])
        BY <4>1, ColumnTypes DEF Says, Kept
      <4> QED BY <1>2, <1>5, <3>1, <4>1, <4>2
    <3> QED BY <3>2, <3>3
  <2>3. \A f \in Fields : \E k \in 1 .. 4 : f = Columns[k]
    BY ColumnTypes
  <2>4. \A f \in Fields : said[f] = at.collision[f]
    <3> HIDE DEF Text
    <3> QED BY <2>2, <2>3
  <2>5. said = at.collision
    <3>1. said = [f \in Fields |-> said[f]]
      OBVIOUS
    <3> HIDE DEF said
    <3> QED BY <1>2, <2>4, <3>1
  <2>6. parseline(line) = IF \E f \in Fields : said[f] = Thrown THEN Thrown ELSE said
    <3>1. at.field_index = 3
      <4> HIDE DEF said, Text
      <4>1. PICK i \in Nat : i = at.field_index /\ 4 = i + 1
        BY <1>2, <1>5
      <4> QED BY <4>1
    <3> HIDE DEF said, texts
    <3> QED BY <1>3, <2>5, <3>1
  <2>7. ParsedAsSplit(line) <=>
            parseline(line) = IF \E f \in Fields : said[f] = Thrown THEN Thrown ELSE said
    BY <1>5, ColumnTypes DEF ParsedAsSplit
  <2> QED BY <2>6, <2>7
<1> QED BY <1>4, <1>5

\* What a record has room for in its fields.
IsRecord(r) ==
    /\ r = [f \in Fields |-> r[f]]
    /\ r["number_of_persons_injured"] \in 0 .. 2^Width - 1 \cup {NoValue}
    /\ \A f \in Fields :
          field_to_value_type[f] = "FIXED_STRING" => r[f] = NoValue \/ Len(r[f]) \in 0 .. StringLength

\* Whatever is on a line: it becomes an exception, because a text is too long,
\* or nothing, or a record whose fields have room for what it stores.
THEOREM EveryLineIsTyped ==
    \A line \in Seq(Characters) :
        LET r == parseline(line)
        IN  IF r = Thrown
            THEN \E k \in DOMAIN Split(line) : Len(Split(line)[k]) > StringLength
            ELSE r = Dropped \/ IsRecord(r)
<1> SUFFICES ASSUME NEW line \in Seq(Characters)
             PROVE  IF parseline(line) = Thrown
                    THEN \E k \in DOMAIN Split(line) : Len(Split(line)[k]) > StringLength
                    ELSE parseline(line) = Dropped \/ IsRecord(parseline(line))
  OBVIOUS
<1>1. PICK r : r = Parsed(line).collision
  OBVIOUS
<1>2. /\ r \in [Fields -> Values] /\ Len(Split(line)) \in Nat
      /\ DOMAIN Split(line) = 1 .. Len(Split(line))
      /\ \A k \in DOMAIN Split(line) : Split(line)[k] \in Seq(Characters)
      /\ \A k \in 1 .. 4 : r[Columns[k]] =
             IF k < Len(Split(line)) THEN Kept(Columns[k], Split(line)[k]) ELSE NoValue
  BY <1>1, TextsAreStored
<1>3. IF \E f \in Fields : r[f] = Thrown
      THEN parseline(line) = Thrown
      ELSE parseline(line) = Dropped \/ parseline(line) = r
  <2>1. parseline(line) = IF \E f \in Fields : r[f] = Thrown THEN Thrown
                          ELSE IF Parsed(line).field_index # Len(Columns) - 1 THEN Dropped ELSE r
    BY <1>1 DEF parseline
  <2> QED BY <2>1
<1>4. r # Thrown /\ Dropped # Thrown /\ NoValue # Thrown
  <2>1. <<>> \in Seq(Characters)
    OBVIOUS
  <2> QED BY <1>2, <2>1, FieldsAssumption DEF Dropped
<1>5. \A f \in Fields : \E k \in 1 .. 4 : f = Columns[k]
  BY ColumnTypes
<1>6. ASSUME NEW k \in 1 .. 4
      PROVE  /\ r[Columns[k]] = Thrown =>
                    \E j \in DOMAIN Split(line) : Len(Split(line)[j]) > StringLength
             /\ field_to_value_type[Columns[k]] = "UINT8_T" =>
                    r[Columns[k]] \in 0 .. 2^Width - 1 \cup {NoValue}
             /\ field_to_value_type[Columns[k]] = "FIXED_STRING" =>
                    r[Columns[k]] \in {NoValue, Thrown} \/ Len(r[Columns[k]]) \in 0 .. StringLength
  <2>1. CASE k < Len(Split(line))
    <3>1. k \in DOMAIN Split(line) /\ r[Columns[k]] = Kept(Columns[k], Split(line)[k])
      BY <1>2, <2>1
    <3> QED BY <1>2, <3>1, ColumnTypes, KeptIsValue
  <2>2. CASE ~(k < Len(Split(line)))
    BY <1>2, <1>4, <2>2
  <2> QED BY <2>1, <2>2
<1>7. CASE parseline(line) = Thrown
  BY <1>3, <1>4, <1>5, <1>6, <1>7
<1>8. CASE parseline(line) # Thrown
  <2>1. \A f \in Fields : r[f] # Thrown
    BY <1>3, <1>8
  <2>2. r = [f \in Fields |-> r[f]]
    BY <1>2
  <2>3. r["number_of_persons_injured"] \in 0 .. 2^Width - 1 \cup {NoValue}
    <3>1. Columns[2] = "number_of_persons_injured"
      BY DEF Columns
    <3> QED BY <1>6, <3>1, ColumnTypes
  <2>4. \A f \in Fields :
          field_to_value_type[f] = "FIXED_STRING" => r[f] = NoValue \/ Len(r[f]) \in 0 .. StringLength
    BY <1>5, <1>6, <2>1
  <2>5. IsRecord(r)
    BY <2>2, <2>3, <2>4 DEF IsRecord
  <2> QED BY <1>3, <1>8, <2>5
<1> QED BY <1>7, <1>8
=============================================================================
