----------------------- MODULE CaptureSubmodulesProofs -----------------------
(***************************************************************************)
(* Theorems about the small components of the capture stream.  The mobile  *)
(* echo canceller: its ring buffer is the tape it promises to be, its      *)
(* framing keeps in step, its wrapper starts with the delay reported and   *)
(* changes it only when it should, its channel does not adapt to silence.  *)
(* The analog gain controller: it stays in its range and out of the user's *)
(* way.                                                                    *)
(***************************************************************************)
EXTENDS CaptureSubmodules, FiniteSetTheorems, SequenceTheorems,
        WellFoundedInduction, TLAPS

(***************************************************************************)
(* Induction over numbers, for sets of them.                               *)
(***************************************************************************)
(* There is a least of some natural numbers.                               *)
LEMMA LeastNatural ==
    ASSUME NEW S \in SUBSET Nat, S # {}
    PROVE  \E n \in S : \A m \in S : n <= m
<1> DEFINE R == OpToRel(<, Nat)
<1>1. IsWellFoundedOn(R, Nat)
  BY NatLessThanWellFounded
<1> HIDE DEF R
<1>2. PICK n \in S : \A m \in S : ~(<<m, n>> \in R)
  BY <1>1, WFMin
<1>3. \A m \in S : ~(m < n)
  BY <1>2 DEF R, OpToRel
<1> QED
  BY <1>3, SMT

(* A set with 0, and with n + 1 for each n in it, has them all.            *)
LEMMA Induction ==
    ASSUME NEW S \in SUBSET Nat, 0 \in S, \A n \in S : n + 1 \in S
    PROVE  S = Nat
<1> SUFFICES ASSUME Nat \ S # {} PROVE FALSE
  OBVIOUS
<1>1. PICK n \in Nat \ S : \A m \in Nat \ S : n <= m
  BY LeastNatural
<1>2. n # 0 /\ n - 1 \in Nat
  BY SMT
<1>3. n - 1 \in S
  BY <1>1, <1>2, SMT
<1> QED
  BY <1>3, SMT

(***************************************************************************)
(* The sum that a fold computes.  The fold takes the elements in an order  *)
(* that is chosen; the sum does not depend on it.                          *)
(***************************************************************************)
AnyOf(s) == CHOOSE x \in s : TRUE

\* g gives for every part of f the sum of its values.
SumsUp(g, f) ==
    g = [s \in SUBSET DOMAIN f |-> IF s = {} THEN 0 ELSE f[AnyOf(s)] + g[s \ {AnyOf(s)}]]

PartSums(f) == CHOOSE g : SumsUp(g, f)

Total(f) == FoldFunction(+, 0, f)

LEMMA FoldIsSum == ASSUME NEW f PROVE Total(f) = PartSums(f)[DOMAIN f]
BY DEF Total, FoldFunction, FoldFunctionOnSet, MapThenFoldSet, PartSums, SumsUp, AnyOf

LEMMA AnyOfIn == ASSUME NEW s, s # {} PROVE AnyOf(s) \in s
BY DEF AnyOf

LEMMA SmallerPart ==
    ASSUME NEW s, IsFiniteSet(s), NEW x \in s
    PROVE  /\ Cardinality(s \ {x}) = Cardinality(s) - 1
           /\ Cardinality(s) \in Nat \ {0} /\ IsFiniteSet(s \ {x})
           /\ Cardinality(s \ {x}) \in Nat
<1>1. Cardinality(s \ {x}) = Cardinality(s) - 1
  BY FS_RemoveElement
<1>2. IsFiniteSet(s \ {x})
  BY FS_RemoveElement
<1>3. Cardinality(s) \in Nat /\ Cardinality(s \ {x}) \in Nat
  BY <1>2, FS_CardinalityType
<1> QED
  BY <1>1, <1>2, <1>3, SMT

\* SumsUp exist: those of parts of n elements give those of parts of n + 1.
LEMMA SumsExist ==
    ASSUME NEW D, IsFiniteSet(D), NEW f \in [D -> Nat]
    PROVE  SumsUp(PartSums(f), f) /\ PartSums(f) \in [SUBSET D -> Nat]
<1> DEFINE Value(g, s) == IF s = {} THEN 0 ELSE f[AnyOf(s)] + g[s \ {AnyOf(s)}]
           Upto(g, n) == \A s \in SUBSET D : Cardinality(s) <= n => g[s] = Value(g, s)
           N == {n \in Nat : \E g \in [SUBSET D -> Nat] : Upto(g, n)}
<1>1. \A s \in SUBSET D : IsFiniteSet(s) /\ Cardinality(s) \in Nat
  BY FS_Subset, FS_CardinalityType
<1>2. ASSUME NEW g \in [SUBSET D -> Nat], NEW s \in SUBSET D
      PROVE  Value(g, s) \in Nat
  <2>1. s # {} => AnyOf(s) \in D /\ s \ {AnyOf(s)} \in SUBSET D
    BY AnyOfIn
  <2>2. s # {} => f[AnyOf(s)] \in Nat /\ g[s \ {AnyOf(s)}] \in Nat
    BY <2>1
  <2> QED
    BY <2>2, SMT
<1>3. 0 \in N
  <2> DEFINE g == [s \in SUBSET D |-> 0]
  <2>1. ASSUME NEW s \in SUBSET D, Cardinality(s) <= 0 PROVE g[s] = Value(g, s)
    <3>1. s = {}
      <4>1. Cardinality(s) = 0
        BY <1>1, <2>1, SMT
      <4> QED
        BY <1>1, <4>1, FS_EmptySet
    <3> QED
      BY <3>1
  <2>2. g \in [SUBSET D -> Nat]
    OBVIOUS
  <2> HIDE DEF g, Value
  <2> QED
    BY <2>1, <2>2
<1>4. ASSUME NEW n \in N PROVE n + 1 \in N
  <2>1. PICK g \in [SUBSET D -> Nat] : Upto(g, n)
    BY <1>4
  <2> DEFINE h == [s \in SUBSET D |-> Value(g, s)]
  <2>2. h \in [SUBSET D -> Nat]
    BY <1>2
  <2>3. ASSUME NEW s \in SUBSET D, Cardinality(s) <= n + 1
        PROVE  h[s] = Value(h, s)
    <3>1. CASE s = {}
      BY <3>1
    <3>2. CASE s # {}
      <4> DEFINE t == s \ {AnyOf(s)}
      <4>1. t \in SUBSET D /\ Cardinality(t) <= n
        <5>1. AnyOf(s) \in s
          BY <3>2, AnyOfIn
        <5>2. /\ Cardinality(t) = Cardinality(s) - 1 /\ Cardinality(s) \in Nat \ {0}
              /\ n \in Nat
          BY <1>1, <5>1, SmallerPart
        <5> QED
          BY <2>3, <5>2, SMT
      <4>2. g[t] = Value(g, t)
        BY <2>1, <4>1
      <4>3. h[t] = Value(g, t) /\ h[s] = Value(g, s)
        BY <4>1
      <4>4. Value(g, s) = f[AnyOf(s)] + g[t] /\ Value(h, s) = f[AnyOf(s)] + h[t]
        BY <3>2
      <4> HIDE DEF Value, h
      <4> QED
        BY <4>2, <4>3, <4>4
    <3> QED
      BY <3>1, <3>2
  <2>4. Upto(h, n + 1)
    BY <2>3
  <2> HIDE DEF Upto, h
  <2> QED
    BY <2>2, <2>4
<1>5. N = Nat
  <2>1. N \in SUBSET Nat
    OBVIOUS
  <2> HIDE DEF N
  <2> QED
    BY <1>3, <1>4, <2>1, Induction
<1>6. Cardinality(D) \in N
  BY <1>5, FS_CardinalityType
<1>7. PICK g \in [SUBSET D -> Nat] : Upto(g, Cardinality(D))
  BY <1>6
<1>8. \A s \in SUBSET D : Cardinality(s) <= Cardinality(D)
  BY FS_Subset
<1>9. \A s \in SUBSET D : g[s] = Value(g, s)
  BY <1>7, <1>8
<1>10. DOMAIN f = D
  OBVIOUS
<1>11. SumsUp(g, f)
  <2>1. g = [s \in SUBSET D |-> Value(g, s)]
    <3> HIDE DEF Value
    <3> QED
      BY <1>9
  <2> QED
    BY <1>10, <2>1 DEF SumsUp
<1>12. SumsUp(PartSums(f), f)
  BY <1>11 DEF PartSums
<1> DEFINE z == PartSums(f)
<1>13. z = [s \in SUBSET D |-> Value(z, s)]
  BY <1>10, <1>12 DEF SumsUp
<1>14. PartSums(f) \in [SUBSET D -> Nat]
  <2> DEFINE M == {n \in Nat : \A s \in SUBSET D : Cardinality(s) <= n => z[s] \in Nat}
  <2> HIDE DEF z
  <2>1. 0 \in M
    <3>1. ASSUME NEW s \in SUBSET D, Cardinality(s) <= 0 PROVE z[s] \in Nat
      <4>1. Cardinality(s) = 0
        BY <1>1, <3>1, SMT
      <4>2. s = {}
        BY <1>1, <4>1, FS_EmptySet
      <4>3. z[s] = 0
        BY <1>13, <4>2
      <4> QED
        BY <4>3
    <3> QED
      BY <3>1
  <2>2. ASSUME NEW n \in M PROVE n + 1 \in M
    <3>1. ASSUME NEW s \in SUBSET D, Cardinality(s) <= n + 1 PROVE z[s] \in Nat
      <4>1. CASE s = {}
        BY <1>13, <4>1
      <4>2. CASE s # {}
        <5>1. AnyOf(s) \in s /\ z[s] = f[AnyOf(s)] + z[s \ {AnyOf(s)}]
          BY <1>13, <4>2, AnyOfIn
        <5>2. /\ Cardinality(s \ {AnyOf(s)}) = Cardinality(s) - 1
              /\ Cardinality(s) \in Nat \ {0} /\ n \in Nat
          BY <1>1, <5>1, SmallerPart
        <5>3. Cardinality(s \ {AnyOf(s)}) <= n
          BY <3>1, <5>2, SMT
        <5>4. z[s \ {AnyOf(s)}] \in Nat /\ f[AnyOf(s)] \in Nat
          BY <2>2, <5>1, <5>3
        <5> QED
          BY <5>1, <5>4, SMT
      <4> QED
        BY <4>1, <4>2
    <3> QED
      BY <3>1, SMT
  <2>3. M = Nat
    <3>1. M \in SUBSET Nat
      OBVIOUS
    <3> HIDE DEF M
    <3> QED
      BY <2>1, <2>2, <3>1, Induction
  <2>4. \A s \in SUBSET D : z[s] \in Nat
    BY <1>1, <1>8, <2>3
  <2>5. z \in [SUBSET D -> Nat]
    BY <1>13, <2>4
  <2> QED
    BY <2>5 DEF z
<1> QED
  BY <1>12, <1>14

\* The sum does not depend on the order of the parts.
LEMMA SumSplits ==
    ASSUME NEW D, IsFiniteSet(D), NEW f \in [D -> Nat],
           NEW T \in SUBSET D, NEW a \in T
    PROVE  PartSums(f)[T] = f[a] + PartSums(f)[T \ {a}]
<1> DEFINE z == PartSums(f)
           N == {n \in Nat : \A s \in SUBSET D : Cardinality(s) <= n =>
                                 \A x \in s : z[s] = f[x] + z[s \ {x}]}
<1>1. z \in [SUBSET D -> Nat]
  BY SumsExist
<1>2. \A s \in SUBSET D : s # {} => z[s] = f[AnyOf(s)] + z[s \ {AnyOf(s)}]
  <2>1. z = [s \in SUBSET DOMAIN f |-> IF s = {} THEN 0
                                       ELSE f[AnyOf(s)] + z[s \ {AnyOf(s)}]]
    BY SumsExist DEF SumsUp
  <2> HIDE DEF z
  <2>2. DOMAIN f = D
    OBVIOUS
  <2> QED
    BY <2>1, <2>2
<1> HIDE DEF z
<1>3. \A s \in SUBSET D : IsFiniteSet(s) /\ Cardinality(s) \in Nat
  BY FS_Subset, FS_CardinalityType
<1>4. 0 \in N
  <2>1. ASSUME NEW s \in SUBSET D, Cardinality(s) <= 0 PROVE s = {}
    <3>1. Cardinality(s) = 0
      BY <1>3, <2>1, SMT
    <3> QED
      BY <1>3, <3>1, FS_EmptySet
  <2> QED
    BY <2>1
<1>5. ASSUME NEW n \in N PROVE n + 1 \in N
  <2>1. ASSUME NEW s \in SUBSET D, Cardinality(s) <= n + 1, NEW x \in s
        PROVE  z[s] = f[x] + z[s \ {x}]
    <3> DEFINE y == AnyOf(s)
    <3>1. y \in s /\ z[s] = f[y] + z[s \ {y}]
      BY <1>2, AnyOfIn
    <3>2. CASE x = y
      BY <3>1, <3>2
    <3>3. CASE x # y
      <4>1. /\ Cardinality(s \ {x}) = Cardinality(s) - 1
            /\ Cardinality(s \ {y}) = Cardinality(s) - 1
            /\ Cardinality(s) \in Nat \ {0} /\ n \in Nat
        BY <1>3, <3>1, SmallerPart
      <4>2. Cardinality(s \ {x}) <= n /\ Cardinality(s \ {y}) <= n
        BY <2>1, <4>1, SMT
      <4>3. z[s \ {y}] = f[x] + z[(s \ {y}) \ {x}]
        BY <1>5, <3>1, <3>3, <4>2
      <4>4. z[s \ {x}] = f[y] + z[(s \ {x}) \ {y}]
        BY <1>5, <3>1, <3>3, <4>2
      <4>5. (s \ {x}) \ {y} = (s \ {y}) \ {x}
        OBVIOUS
      <4>6. f[x] \in Nat /\ f[y] \in Nat /\ z[(s \ {y}) \ {x}] \in Nat
        BY <1>1, <3>1
      <4> DEFINE rest == z[(s \ {y}) \ {x}]
      <4>7. /\ z[s] = f[y] + (f[x] + rest) /\ z[s \ {x}] = f[y] + rest
            /\ f[x] \in Nat /\ f[y] \in Nat /\ rest \in Nat
        BY <3>1, <4>3, <4>4, <4>5, <4>6
      <4> HIDE DEF y, rest
      <4> QED
        BY <4>7, SMT
    <3> QED
      BY <3>2, <3>3
  <2>2. n + 1 \in Nat
    BY SMT
  <2> QED
    BY <2>1, <2>2
<1>6. N = Nat
  <2>1. N \in SUBSET Nat
    OBVIOUS
  <2> HIDE DEF N
  <2> QED
    BY <1>4, <1>5, <2>1, Induction
<1>7. Cardinality(T) \in N
  BY <1>3, <1>6
<1>8. Cardinality(T) <= Cardinality(T)
  BY <1>3, SMT
<1> QED
  BY <1>7, <1>8 DEF z

\* Nor on values outside.
LEMMA SumsAgree ==
    ASSUME NEW D, IsFiniteSet(D), NEW f \in [D -> Nat],
           NEW E, IsFiniteSet(E), NEW g \in [E -> Nat],
           NEW T \in SUBSET D, T \subseteq E, \A x \in T : f[x] = g[x]
    PROVE  PartSums(f)[T] = PartSums(g)[T]
<1> DEFINE y == PartSums(f)
           z == PartSums(g)
           N == {n \in Nat : \A s \in SUBSET T : Cardinality(s) <= n => y[s] = z[s]}
<1>1. /\ \A s \in SUBSET D : y[s] = IF s = {} THEN 0 ELSE f[AnyOf(s)] + y[s \ {AnyOf(s)}]
      /\ \A s \in SUBSET E : z[s] = IF s = {} THEN 0 ELSE g[AnyOf(s)] + z[s \ {AnyOf(s)}]
  <2>1. y = [s \in SUBSET DOMAIN f |-> IF s = {} THEN 0
                                       ELSE f[AnyOf(s)] + y[s \ {AnyOf(s)}]]
    BY SumsExist DEF SumsUp
  <2>2. z = [s \in SUBSET DOMAIN g |-> IF s = {} THEN 0
                                       ELSE g[AnyOf(s)] + z[s \ {AnyOf(s)}]]
    BY SumsExist DEF SumsUp
  <2> HIDE DEF y, z
  <2>3. DOMAIN f = D /\ DOMAIN g = E
    OBVIOUS
  <2> QED
    BY <2>1, <2>2, <2>3
<1> HIDE DEF y, z
<1>2. \A s \in SUBSET T : IsFiniteSet(s) /\ Cardinality(s) \in Nat
  BY FS_Subset, FS_CardinalityType
<1>3. 0 \in N
  <2>1. ASSUME NEW s \in SUBSET T, Cardinality(s) <= 0 PROVE y[s] = z[s]
    <3>1. Cardinality(s) = 0
      BY <1>2, <2>1, SMT
    <3>2. s = {}
      BY <1>2, <3>1, FS_EmptySet
    <3> QED
      BY <1>1, <3>2
  <2> QED
    BY <2>1
<1>4. ASSUME NEW n \in N PROVE n + 1 \in N
  <2>1. ASSUME NEW s \in SUBSET T, Cardinality(s) <= n + 1 PROVE y[s] = z[s]
    <3>1. CASE s = {}
      BY <1>1, <3>1
    <3>2. CASE s # {}
      <4>1. AnyOf(s) \in s
        BY <3>2, AnyOfIn
      <4>2. /\ Cardinality(s \ {AnyOf(s)}) = Cardinality(s) - 1
            /\ Cardinality(s) \in Nat \ {0} /\ n \in Nat
        BY <1>2, <4>1, SmallerPart
      <4>3. Cardinality(s \ {AnyOf(s)}) <= n
        BY <2>1, <4>2, SMT
      <4>4. y[s \ {AnyOf(s)}] = z[s \ {AnyOf(s)}] /\ f[AnyOf(s)] = g[AnyOf(s)]
        BY <1>4, <4>1, <4>3
      <4> QED
        BY <1>1, <3>2, <4>4
    <3> QED
      BY <3>1, <3>2
  <2>2. n + 1 \in Nat
    BY SMT
  <2> QED
    BY <2>1, <2>2
<1>5. N = Nat
  <2>1. N \in SUBSET Nat
    OBVIOUS
  <2> HIDE DEF N
  <2> QED
    BY <1>3, <1>4, <2>1, Induction
<1>6. Cardinality(T) \in N /\ Cardinality(T) <= Cardinality(T)
  BY <1>2, <1>5, SMT
<1> QED
  BY <1>6 DEF y, z

\* The sum of a sequence grows by what is appended.
LEMMA SumAppend ==
    ASSUME NEW s \in Seq(Nat), NEW x \in Nat
    PROVE  Total(Append(s, x)) = Total(s) + x /\ Total(s) \in Nat
<1> DEFINE t == Append(s, x)
           n == Len(s)
<1>1. /\ n \in Nat /\ s \in [1 .. n -> Nat] /\ t \in [1 .. n + 1 -> Nat]
      /\ t[n + 1] = x /\ \A i \in 1 .. n : t[i] = s[i]
  <2>1. /\ t \in Seq(Nat) /\ Len(t) = n + 1 /\ t[n + 1] = x
        /\ \A i \in 1 .. n : t[i] = s[i] /\ n \in Nat
    BY AppendProperties, LenProperties
  <2>2. s \in [1 .. n -> Nat] /\ t \in [1 .. Len(t) -> Nat]
    BY <2>1, LenProperties, ElementOfSeq
  <2> QED
    BY <2>1, <2>2
<1>2. IsFiniteSet(1 .. n) /\ IsFiniteSet(1 .. n + 1)
  BY <1>1, FS_Interval
<1>3. n + 1 \in 1 .. n + 1 /\ (1 .. n + 1) \ {n + 1} = 1 .. n /\ 1 .. n \subseteq 1 .. n + 1
  BY <1>1, SMT
<1>4. DOMAIN s = 1 .. n /\ DOMAIN t = 1 .. n + 1
  BY <1>1
<1> HIDE DEF t, n
<1>5. PartSums(t)[1 .. n + 1] = x + PartSums(t)[1 .. n]
  <2> DEFINE D == 1 .. n + 1
             a == n + 1
  <2>1. a \in D /\ D \in SUBSET D /\ D \ {a} = 1 .. n /\ t[a] = x
        /\ IsFiniteSet(D) /\ t \in [D -> Nat]
    BY <1>1, <1>2, <1>3
  <2> HIDE DEF D, a
  <2>2. PartSums(t)[D] = t[a] + PartSums(t)[D \ {a}]
    BY <2>1, SumSplits, SMTT(30)
  <2> QED
    BY <2>1, <2>2 DEF D
<1>6. PartSums(t)[1 .. n] = PartSums(s)[1 .. n]
  <2> DEFINE D == 1 .. n
             E == 1 .. n + 1
  <2>1. /\ IsFiniteSet(D) /\ s \in [D -> Nat] /\ IsFiniteSet(E) /\ t \in [E -> Nat]
        /\ D \in SUBSET D /\ D \subseteq E /\ \A i \in D : s[i] = t[i]
    BY <1>1, <1>2, <1>3
  <2> HIDE DEF D, E
  <2>2. PartSums(s)[D] = PartSums(t)[D]
    BY <2>1, SumsAgree
  <2> QED
    BY <2>2 DEF D
<1>7. PartSums(s)[1 .. n] \in Nat
  <2>1. PartSums(s) \in [SUBSET (1 .. n) -> Nat]
    BY <1>1, <1>2, SumsExist
  <2> QED
    BY <2>1
<1>8. Total(s) = PartSums(s)[1 .. n] /\ Total(t) = PartSums(t)[1 .. n + 1]
  BY <1>4, FoldIsSum
<1> QED
  BY <1>1, <1>5, <1>6, <1>7, <1>8, SMT DEF t

LEMMA SumOfOne == \A x \in Nat : Total(<<x>>) = x
<1>1. Total(<< >>) = 0
  <2>1. DOMAIN << >> = {} /\ << >> \in [{} -> Nat]
    OBVIOUS
  <2>2. SumsUp(PartSums(<< >>), << >>)
    BY <2>1, FS_EmptySet, SumsExist
  <2> DEFINE z == PartSums(<< >>)
  <2>3. z = [s \in SUBSET {} |-> IF s = {} THEN 0 ELSE << >>[AnyOf(s)] + z[s \ {AnyOf(s)}]]
    BY <2>1, <2>2 DEF SumsUp
  <2> HIDE DEF z
  <2>4. z[{}] = 0
    BY <2>3
  <2> QED
    BY <2>1, <2>4, FoldIsSum DEF z
<1> SUFFICES ASSUME NEW x \in Nat PROVE Total(<<x>>) = x
  OBVIOUS
<1>2. << >> \in Seq(Nat) /\ Append(<< >>, x) = <<x>>
  OBVIOUS
<1>3. Total(Append(<< >>, x)) = Total(<< >>) + x
  BY <1>2, SumAppend
<1> QED
  BY <1>1, <1>2, <1>3, SMT

(***************************************************************************)
(* The ring buffer's positions.                                            *)
(***************************************************************************)
(* What there is to read and room to write lie within the buffer.          *)
LEMMA AvailableBounds ==
    ASSUME NEW n \in Nat, NEW b, Consistent(n, b)
    PROVE  /\ AvailableRead(n, b) \in 0..n
           /\ AvailableWrite(n, b) \in 0..n
  BY DEF Consistent, Buffers, Wraps, AvailableRead, AvailableWrite

(* A move is as long as asked for, unless it would pass the write pointer  *)
(* one way or the other.                                                   *)
LEMMA MovedBounds ==
    ASSUME NEW n \in Nat, NEW b, Consistent(n, b), NEW count \in Int
    PROVE  /\ Moved(n, b, count) \in Int
           /\ Moved(n, b, count) =< AvailableRead(n, b)
           /\ AvailableRead(n, b) - Moved(n, b, count) =< n
           /\ count \in -AvailableWrite(n, b)..AvailableRead(n, b) => Moved(n, b, count) = count
  BY AvailableBounds DEF Moved, Smaller, Larger, AvailableWrite

(* A move keeps the positions consistent, and what remains to be read is   *)
(* exactly what was moved over less, or more.                              *)
LEMMA MoveKeeps ==
    ASSUME NEW n \in Nat, NEW b, Consistent(n, b), NEW count \in Int
    PROVE  /\ Consistent(n, MoveReadPtr(n, b, count))
           /\ MoveReadPtr(n, b, count).write_pos = b.write_pos
           /\ AvailableRead(n, MoveReadPtr(n, b, count))
                = AvailableRead(n, b) - Moved(n, b, count)
  <1> DEFINE m == Moved(n, b, count)
  <1>1. /\ m \in Int
        /\ m =< AvailableRead(n, b)
        /\ AvailableRead(n, b) - m =< n
    BY MovedBounds
  <1>2. /\ b.read_pos \in 0..n /\ b.write_pos \in 0..n /\ b.rw_wrap \in Wraps
        /\ b \in Buffers(n)
        /\ IF b.rw_wrap = "SAME_WRAP" THEN b.read_pos =< b.write_pos
                                      ELSE b.write_pos =< b.read_pos
    BY DEF Consistent, Buffers
  <1>3. AvailableRead(n, b) = IF b.rw_wrap = "SAME_WRAP" THEN b.write_pos - b.read_pos
                              ELSE n - b.read_pos + b.write_pos
    BY DEF AvailableRead
  <1>4. /\ b.read_pos + m > n => MoveReadPtr(n, b, count)
              = ReadPos(b, (b.read_pos + m) - n, "SAME_WRAP")
        /\ b.read_pos + m < 0 => MoveReadPtr(n, b, count)
              = ReadPos(b, b.read_pos + m + n, "DIFF_WRAP")
        /\ b.read_pos + m \in 0..n => MoveReadPtr(n, b, count)
              = ReadPos(b, b.read_pos + m, b.rw_wrap)
    <2>1. b.read_pos + m \in Int
      BY <1>1, <1>2
    <2>2. CASE b.read_pos + m > n
      BY <2>1, <2>2 DEF MoveReadPtr
    <2>3. CASE b.read_pos + m < 0
      <3>1. ~(b.read_pos + m > n) /\ ~(b.read_pos + m \in 0..n)
        BY <2>1, <2>3
      <3> QED BY <2>1, <2>3, <3>1 DEF MoveReadPtr
    <2>4. CASE b.read_pos + m \in 0..n
      BY <2>1, <2>4 DEF MoveReadPtr
    <2> QED BY <2>1, <2>2, <2>3, <2>4
  <1> HIDE DEF m
  <1> SUFFICES ASSUME NEW r, r = MoveReadPtr(n, b, count)
               PROVE  /\ r \in Buffers(n)
                      /\ r.write_pos = b.write_pos
                      /\ IF r.rw_wrap = "SAME_WRAP" THEN r.read_pos =< r.write_pos
                                                    ELSE r.write_pos =< r.read_pos
                      /\ (IF r.rw_wrap = "SAME_WRAP" THEN r.write_pos - r.read_pos
                           ELSE n - r.read_pos + r.write_pos) = AvailableRead(n, b) - m
    BY DEF Consistent, AvailableRead, m
  <1>5. CASE b.read_pos + m > n
    <2>1. r = ReadPos(b, (b.read_pos + m) - n, "SAME_WRAP")
      BY <1>4, <1>5
    <2>2. /\ r.read_pos = (b.read_pos + m) - n /\ r.write_pos = b.write_pos
          /\ r.rw_wrap = "SAME_WRAP"
      BY <2>1, <1>2 DEF Buffers, ReadPos, WritePos
    <2>3. (b.read_pos + m) - n \in 0..n
      BY <1>1, <1>2, <1>3, <1>5
    <2>4. r \in Buffers(n)
      BY <2>1, <2>3, <1>2 DEF Buffers, Wraps, ReadPos, WritePos
    <2> QED BY <2>2, <2>4, <1>1, <1>2, <1>3, <1>5 DEF Wraps
  <1>6. CASE b.read_pos + m < 0
    <2>1. r = ReadPos(b, b.read_pos + m + n, "DIFF_WRAP")
      BY <1>4, <1>6, <1>1, <1>2
    <2>2. /\ r.read_pos = b.read_pos + m + n /\ r.write_pos = b.write_pos
          /\ r.rw_wrap = "DIFF_WRAP"
      BY <2>1, <1>2 DEF Buffers, ReadPos, WritePos
    <2>3. b.read_pos + m + n \in 0..n
      BY <1>1, <1>2, <1>3, <1>6
    <2>4. r \in Buffers(n)
      BY <2>1, <2>3, <1>2 DEF Buffers, Wraps, ReadPos, WritePos
    <2> QED BY <2>2, <2>4, <1>1, <1>2, <1>3, <1>6 DEF Wraps
  <1>7. CASE b.read_pos + m \in 0..n
    <2>1. r = ReadPos(b, b.read_pos + m, b.rw_wrap)
      BY <1>4, <1>7, <1>1, <1>2
    <2>2. /\ r.read_pos = b.read_pos + m /\ r.write_pos = b.write_pos
          /\ r.rw_wrap = b.rw_wrap
      BY <2>1, <1>2 DEF Buffers, ReadPos, WritePos
    <2>4. r \in Buffers(n)
      BY <2>1, <1>7, <1>2 DEF Buffers, Wraps, ReadPos, WritePos
    <2> QED BY <2>2, <2>4, <1>1, <1>2, <1>3, <1>7 DEF Wraps
  <1> QED BY <1>1, <1>2, <1>5, <1>6, <1>7

(* So does a read of what there is.                                        *)
LEMMA ReadKeeps ==
    ASSUME NEW n \in Nat, NEW b, Consistent(n, b), NEW count \in Nat
    PROVE  /\ Readable(n, b, count) \in Nat
           /\ Readable(n, b, count) =< AvailableRead(n, b)
           /\ Consistent(n, ReadBuffer(n, b, count))
           /\ ReadBuffer(n, b, count).write_pos = b.write_pos
           /\ AvailableRead(n, ReadBuffer(n, b, count))
                = AvailableRead(n, b) - Readable(n, b, count)
  <1>1. /\ Readable(n, b, count) \in Nat
        /\ Readable(n, b, count) =< AvailableRead(n, b)
        /\ Readable(n, b, count) \in -AvailableWrite(n, b)..AvailableRead(n, b)
    BY AvailableBounds DEF Readable, Smaller, AvailableWrite
  <1>2. Moved(n, b, Readable(n, b, count)) = Readable(n, b, count)
    BY <1>1, MovedBounds
  <1>3. \A c \in Int : /\ Consistent(n, MoveReadPtr(n, b, c))
                        /\ MoveReadPtr(n, b, c).write_pos = b.write_pos
                        /\ AvailableRead(n, MoveReadPtr(n, b, c))
                             = AvailableRead(n, b) - Moved(n, b, c)
    BY MoveKeeps
  <1>4. Readable(n, b, count) \in Int
    BY <1>1
  <1>5. ReadBuffer(n, b, count) = MoveReadPtr(n, b, Readable(n, b, count))
    BY DEF ReadBuffer
  <1> QED BY <1>1, <1>2, <1>3, <1>4, <1>5

(* A write keeps the positions consistent and adds what fits to what is    *)
(* to be read.                                                             *)
LEMMA WriteKeeps ==
    ASSUME NEW n \in Nat, NEW b, Consistent(n, b), NEW count \in Nat
    PROVE  /\ Writable(n, b, count) \in Nat
           /\ Writable(n, b, count) =< AvailableWrite(n, b)
           /\ Consistent(n, WriteBuffer(n, b, count))
           /\ AvailableRead(n, WriteBuffer(n, b, count))
                = AvailableRead(n, b) + Writable(n, b, count)
  <1> DEFINE w == Writable(n, b, count)
  <1>1. w \in Nat /\ w =< AvailableWrite(n, b)
    BY AvailableBounds DEF Writable, Smaller
  <1>2. /\ b.read_pos \in 0..n /\ b.write_pos \in 0..n /\ b.rw_wrap \in Wraps
        /\ b \in Buffers(n)
        /\ IF b.rw_wrap = "SAME_WRAP" THEN b.read_pos =< b.write_pos
                                      ELSE b.write_pos =< b.read_pos
    BY DEF Consistent, Buffers
  <1>3. /\ AvailableRead(n, b) = IF b.rw_wrap = "SAME_WRAP" THEN b.write_pos - b.read_pos
                                 ELSE n - b.read_pos + b.write_pos
        /\ AvailableWrite(n, b) = n - AvailableRead(n, b)
    BY DEF AvailableRead, AvailableWrite
  <1>5. w = Writable(n, b, count)
    OBVIOUS
  <1>4. /\ b.write_pos + w > n => WriteBuffer(n, b, count)
              = WritePos(b, (b.write_pos + w) - n, "DIFF_WRAP")
        /\ ~(b.write_pos + w > n) => WriteBuffer(n, b, count)
              = WritePos(b, b.write_pos + w, b.rw_wrap)
    BY DEF WriteBuffer
  <1> HIDE DEF w
  <1> SUFFICES ASSUME NEW r, r = WriteBuffer(n, b, count)
               PROVE  /\ r \in Buffers(n)
                      /\ IF r.rw_wrap = "SAME_WRAP" THEN r.read_pos =< r.write_pos
                                                    ELSE r.write_pos =< r.read_pos
                      /\ (IF r.rw_wrap = "SAME_WRAP" THEN r.write_pos - r.read_pos
                           ELSE n - r.read_pos + r.write_pos) = AvailableRead(n, b) + w
    BY <1>1, <1>5 DEF Consistent, AvailableRead
  <1>6. CASE b.write_pos + w > n
    <2>1. r = WritePos(b, (b.write_pos + w) - n, "DIFF_WRAP")
      BY <1>4, <1>6
    <2>2. /\ r.write_pos = (b.write_pos + w) - n /\ r.read_pos = b.read_pos
          /\ r.rw_wrap = "DIFF_WRAP"
      BY <2>1, <1>2 DEF Buffers, ReadPos, WritePos
    <2>3. (b.write_pos + w) - n \in 0..n
      BY <1>1, <1>2, <1>3, <1>6
    <2>4. r \in Buffers(n)
      BY <2>1, <2>3, <1>2 DEF Buffers, Wraps, ReadPos, WritePos
    <2> QED BY <2>2, <2>4, <1>1, <1>2, <1>3, <1>6 DEF Wraps
  <1>7. CASE ~(b.write_pos + w > n)
    <2>1. r = WritePos(b, b.write_pos + w, b.rw_wrap)
      BY <1>4, <1>7
    <2>2. /\ r.write_pos = b.write_pos + w /\ r.read_pos = b.read_pos
          /\ r.rw_wrap = b.rw_wrap
      BY <2>1, <1>2 DEF Buffers, ReadPos, WritePos
    <2>3. b.write_pos + w \in 0..n
      BY <1>1, <1>2, <1>7
    <2>4. r \in Buffers(n)
      BY <2>1, <2>3, <1>2 DEF Buffers, Wraps, ReadPos, WritePos
    <2> QED BY <2>2, <2>4, <1>1, <1>2, <1>3, <1>7 DEF Wraps
  <1> QED BY <1>6, <1>7

(* An empty buffer.                                                        *)
LEMMA InitKeeps ==
    ASSUME NEW n \in Nat
    PROVE  Consistent(n, InitBuffer) /\ AvailableRead(n, InitBuffer) = 0
  BY DEF Consistent, Buffers, Wraps, InitBuffer, AvailableRead

(***************************************************************************)
(* The ring buffer with its elements.                                      *)
(***************************************************************************)
LEMMA InputsAreSequences ==
    ASSUME NEW xs \in Inputs
    PROVE  /\ Len(xs) \in Nat
           /\ xs \in [1..Len(xs) -> Elements]
  <1>1. PICK k \in 0..MaxCount : xs \in [1..k -> Elements]
    BY DEF Inputs
  <1>2. k \in Nat
    BY RingAssumption
  <1>3. xs \in Seq(Elements) /\ Len(xs) = k
    BY <1>1, <1>2
  <1> QED BY <1>1, <1>2, <1>3

LEMMA RingInitOK == RingInit => RingTypeOK
  <1> SUFFICES ASSUME RingInit PROVE RingTypeOK
    OBVIOUS
  <1>1. Consistent(Length, ring)
    BY RingAssumption, InitKeeps DEF RingInit
  <1>2. data \in [Slots -> Elements]
    BY RingAssumption DEF RingInit
  <1>3. returned \in Seq(Elements)
    BY DEF RingInit
  <1> QED BY <1>1, <1>2, <1>3 DEF RingTypeOK

\* What a read looks at: the first element is at the read position.
LEMMA ReadPositions ==
    ASSUME RingTypeOK, NEW i \in 1..AvailableRead(Length, ring)
    PROVE  IF i =< Length - ring.read_pos THEN ring.read_pos + i - 1 \in Slots
           ELSE i - (Length - ring.read_pos) - 1 \in Slots
  BY RingAssumption, SMTT(30) DEF RingTypeOK, Consistent, Buffers, Wraps, AvailableRead, Slots

LEMMA RingNextOK == RingTypeOK /\ [RingNext]_rvars => RingTypeOK'
  <1> SUFFICES ASSUME RingTypeOK, [RingNext]_rvars PROVE RingTypeOK'
    OBVIOUS
  <1>0. Length \in Nat /\ Consistent(Length, ring)
    BY RingAssumption DEF RingTypeOK
  <1>1. ASSUME NEW xs \in Inputs, RingWrite(xs) PROVE RingTypeOK'
    <2> DEFINE m == Writable(Length, ring, Len(xs))
    <2>1. m \in Nat /\ m =< Len(xs) /\ m =< Length
      <3>1. Len(xs) \in Nat
        BY InputsAreSequences
      <3>2. m \in Nat /\ m =< AvailableWrite(Length, ring)
        BY <1>0, <3>1, WriteKeeps
      <3>3. AvailableWrite(Length, ring) \in 0..Length
        BY <1>0, AvailableBounds
      <3>4. m =< Len(xs)
        BY <3>1, <3>3 DEF Writable, Smaller
      <3> QED BY <1>0, <3>2, <3>3, <3>4
    <2>2. Consistent(Length, ring')
      BY <1>0, <1>1, InputsAreSequences, WriteKeeps DEF RingWrite
    <2>3. ring.write_pos \in 0..Length
      BY <1>0 DEF Consistent, Buffers
    <2>4. data' = [p \in Slots |->
                      IF ring.write_pos =< p /\ p < ring.write_pos + m
                      THEN xs[p - ring.write_pos + 1]
                      ELSE IF p < m - (Length - ring.write_pos)
                      THEN xs[(Length - ring.write_pos) + p + 1] ELSE data[p]]
      BY <1>1 DEF RingWrite
    <2> HIDE DEF m
    <2>5. ASSUME NEW p \in Slots PROVE data'[p] \in Elements
      <3>1. p \in Nat /\ p < Length
        BY <1>0 DEF Slots
      <3>2. CASE ring.write_pos =< p /\ p < ring.write_pos + m
        <4>1. p - ring.write_pos + 1 \in 1..Len(xs)
          BY <2>1, <2>3, <3>1, <3>2, InputsAreSequences
        <4> QED BY <2>4, <3>2, <4>1, InputsAreSequences
      <3>3. CASE ~(ring.write_pos =< p /\ p < ring.write_pos + m) /\ p < m - (Length - ring.write_pos)
        <4>1. (Length - ring.write_pos) + p + 1 \in 1..Len(xs)
          BY <1>0, <2>1, <2>3, <3>1, <3>3, InputsAreSequences
        <4> QED BY <2>4, <3>3, <4>1, InputsAreSequences
      <3>4. CASE ~(ring.write_pos =< p /\ p < ring.write_pos + m) /\ ~(p < m - (Length - ring.write_pos))
        BY <2>4, <3>4 DEF RingTypeOK
      <3> QED BY <3>2, <3>3, <3>4
    <2>6. data' \in [Slots -> Elements]
      BY <2>4, <2>5
    <2> QED BY <1>1, <2>2, <2>6 DEF RingTypeOK, RingWrite
  <1>2. ASSUME NEW count \in 0..MaxCount, RingRead(count) PROVE RingTypeOK'
    <2> DEFINE m == Readable(Length, ring, count)
    <2>0. count \in Nat
      BY RingAssumption
    <2>1. m \in Nat /\ m =< AvailableRead(Length, ring) /\ Consistent(Length, ring')
      BY <1>0, <1>2, <2>0, ReadKeeps DEF RingRead
    <2>2. AvailableRead(Length, ring) \in Nat
      BY <1>0, AvailableBounds
    <2> HIDE DEF m
    <2>3. ASSUME NEW i \in 1..m PROVE Regions(m)[i] \in Elements
      <3>1. i \in 1..AvailableRead(Length, ring)
        BY <2>1, <2>2
      <3>2. Regions(m)[i] = IF i =< Length - ring.read_pos THEN data[ring.read_pos + i - 1]
                            ELSE data[i - (Length - ring.read_pos) - 1]
        BY DEF Regions
      <3> QED BY <3>1, <3>2, ReadPositions DEF RingTypeOK
    <2>4. Regions(m) \in [1..m -> Elements]
      BY <2>3 DEF Regions
    <2>5. Regions(m) \in Seq(Elements)
      BY <2>1, <2>4
    <2> QED BY <1>2, <2>1, <2>5 DEF RingTypeOK, RingRead, m
  <1>3. ASSUME NEW count \in -MaxCount..MaxCount, RingMove(count) PROVE RingTypeOK'
    <2>1. count \in Int
      BY RingAssumption
    <2> QED BY <1>0, <1>3, <2>1, MoveKeeps DEF RingTypeOK, RingMove
  <1>4. CASE RingClear
    BY <1>0, <1>4, InitKeeps, RingAssumption DEF RingTypeOK, RingClear
  <1>5. CASE UNCHANGED rvars
    BY <1>5 DEF RingTypeOK, rvars
  <1> QED BY <1>1, <1>2, <1>3, <1>4, <1>5 DEF RingNext

(* Whatever the order of writes, reads and moves, the positions stay in    *)
(* the memory and agree with rw_wrap, and a read delivers elements of the  *)
(* memory: the unsigned differences of ring_buffer.c never wrap.           *)
THEOREM RingTypeCorrect == RingSpec => []RingTypeOK
  BY RingInitOK, RingNextOK, PTL DEF RingSpec

(***************************************************************************)
(* The ring buffer is the tape it promises to be.                          *)
(***************************************************************************)
unreadBar == AvailableRead(Length, ring)
tapeBar == [a \in 1..Length |-> Written(a)]

\* Where the memory keeps the element written a writes ago.
Place(wp, a) == IF a =< wp THEN wp - a ELSE wp - a + Length

LEMMA PlaceInSlots ==
    ASSUME NEW wp \in 0..Length, NEW a \in 1..Length
    PROVE  Place(wp, a) \in Slots
  BY RingAssumption DEF Place, Slots

LEMMA RingInitImplements == RingInit => Tape!TapeInit
  <1> SUFFICES ASSUME RingInit PROVE Tape!TapeInit
    OBVIOUS
  <1>1. ring.write_pos = 0 /\ ring = InitBuffer
    BY DEF RingInit, InitBuffer
  <1>2. ASSUME NEW a \in 1..Length PROVE Written(a) = Zero
    BY <1>1, RingAssumption DEF RingInit, Written, Slots
  <1>3. AvailableRead(Length, ring) = 0
    BY <1>1, RingAssumption, InitKeeps
  <1> QED BY <1>2, <1>3 DEF Tape!TapeInit, RingInit

LEMMA RingNextImplements ==
    RingTypeOK /\ [RingNext]_rvars => [Tape!TapeNext]_(Tape!tvars)
  <1> SUFFICES ASSUME RingTypeOK, [RingNext]_rvars
               PROVE  [Tape!TapeNext]_(Tape!tvars)
    OBVIOUS
  <1>0. /\ Length \in Nat \ {0} /\ Consistent(Length, ring)
        /\ AvailableRead(Length, ring) \in 0..Length
    BY RingAssumption, AvailableBounds DEF RingTypeOK
  <1>a. /\ ring \in Buffers(Length) /\ ring.write_pos \in 0..Length
        /\ ring.read_pos \in 0..Length
    BY <1>0 DEF Consistent, Buffers
  <1>b. ASSUME NEW a PROVE Written(a) = data[Place(ring.write_pos, a)]
    BY DEF Written, Place
  <1>c. ASSUME NEW a PROVE Written(a)' = data'[Place(ring'.write_pos, a)]
    BY DEF Written, Place
  <1>1. ASSUME NEW xs \in Inputs, RingWrite(xs)
        PROVE  Tape!Write \/ UNCHANGED Tape!tvars
    <2> DEFINE m == Writable(Length, ring, Len(xs))
               wp == ring.write_pos
    <2>1. /\ m \in Nat /\ m =< AvailableWrite(Length, ring)
          /\ AvailableRead(Length, ring') = AvailableRead(Length, ring) + m
          /\ Len(xs) \in Nat
      BY <1>0, <1>1, InputsAreSequences, WriteKeeps DEF RingWrite
    <2>2. AvailableWrite(Length, ring) = Length - AvailableRead(Length, ring)
      BY DEF AvailableWrite
    <2>3. m =< Length - AvailableRead(Length, ring) /\ m =< Length
      BY <1>0, <2>1, <2>2
    <2>4. m = Len(xs) \/ (m < Len(xs) /\ AvailableRead(Length, ring') = Length)
      BY <1>0, <2>1, <2>2 DEF Writable, Smaller
    <2>5. ring'.write_pos = IF wp + m > Length THEN (wp + m) - Length ELSE wp + m
      <3>1. ring' = WriteBuffer(Length, ring, Len(xs))
        BY <1>1 DEF RingWrite
      <3>2. CASE wp + m > Length
        BY <3>1, <3>2 DEF WriteBuffer, WritePos
      <3>3. CASE ~(wp + m > Length)
        BY <3>1, <3>3 DEF WriteBuffer, WritePos
      <3> QED BY <3>2, <3>3
    <2>6. ASSUME NEW p \in Slots
          PROVE  data'[p] = IF wp =< p /\ p < wp + m THEN xs[p - wp + 1]
                            ELSE IF p < m - (Length - wp) THEN xs[(Length - wp) + p + 1]
                            ELSE data[p]
      BY <1>1 DEF RingWrite
    <2>7. returned' = returned
      BY <1>1 DEF RingWrite
    <2>8. wp \in 0..Length
      BY <1>a
    <2> HIDE DEF m, wp
    <2>9. ring'.write_pos \in 0..Length
      BY <1>0, <2>1, <2>3, <2>5, <2>8
    <2>10. ASSUME NEW a \in 1..Length
           PROVE  Written(a)' = IF a =< m THEN xs[m + 1 - a] ELSE Written(a - m)
      <3> DEFINE q == Place(ring'.write_pos, a)
      <3>0. q \in Slots /\ q \in Nat /\ q < Length
        BY <1>0, <2>9, PlaceInSlots DEF Slots
      <3>1. q = IF a =< ring'.write_pos THEN ring'.write_pos - a ELSE ring'.write_pos - a + Length
        BY DEF Place
      <3>2. Written(a)' = data'[q]
        BY <1>c
      <3> HIDE DEF q
      <3>3. CASE a =< m
        <4>1. CASE wp =< q /\ q < wp + m
          <5>1. q - wp + 1 = m + 1 - a
            BY <1>0, <2>1, <2>3, <2>5, <2>8, <3>0, <3>1, <3>3, <4>1
          <5> QED BY <2>6, <3>0, <3>2, <3>3, <4>1, <5>1
        <4>2. CASE ~(wp =< q /\ q < wp + m)
          <5>1. /\ q < m - (Length - wp)
                /\ (Length - wp) + q + 1 = m + 1 - a
            BY <1>0, <2>1, <2>3, <2>5, <2>8, <3>0, <3>1, <3>3, <4>2
          <5> QED BY <2>6, <3>0, <3>2, <3>3, <4>2, <5>1
        <4> QED BY <4>1, <4>2
      <3>4. CASE ~(a =< m)
        <4>1. /\ ~(wp =< q /\ q < wp + m) /\ ~(q < m - (Length - wp))
              /\ q = IF a - m =< wp THEN wp - (a - m) ELSE wp - (a - m) + Length
          BY <1>0, <2>1, <2>3, <2>5, <2>8, <3>0, <3>1, <3>4
        <4>2. q = Place(wp, a - m)
          BY <4>1 DEF Place
        <4>3. Written(a - m) = data[q]
          BY <1>b, <4>2 DEF wp
        <4>4. data'[q] = data[q]
          BY <2>6, <3>0, <4>1
        <4> QED BY <3>2, <3>4, <4>3, <4>4
      <3> QED BY <3>3, <3>4
    <2>11. CASE m = 0
      <3>1. ASSUME NEW a \in 1..Length PROVE Written(a)' = Written(a)
        BY <2>10, <2>11
      <3> QED BY <1>0, <2>1, <2>7, <2>11, <3>1 DEF Tape!tvars
    <2>12. CASE m # 0
      <3>1. m \in 1..(Length - AvailableRead(Length, ring))
        BY <1>0, <2>1, <2>3, <2>12
      <3>2. tapeBar' = [a \in 1..Length |-> IF a =< m THEN xs[m + 1 - a] ELSE tapeBar[a - m]]
        <4>1. ASSUME NEW a \in 1..Length, ~(a =< m) PROVE tapeBar[a - m] = Written(a - m)
          <5>1. a - m \in 1..Length
            BY <1>0, <2>1, <4>1
          <5> QED BY <5>1 DEF tapeBar
        <4> QED BY <2>10, <4>1 DEF tapeBar
      <3>3. xs \in Tape!Inputs
        BY DEF Inputs, Tape!Inputs
      <3> QED BY <2>1, <2>4, <2>7, <3>1, <3>2, <3>3 DEF Tape!Write, tapeBar
    <2> QED BY <2>11, <2>12
  <1>2. ASSUME NEW count \in 0..MaxCount, RingRead(count) PROVE Tape!Read
    <2> DEFINE m == Readable(Length, ring, count)
    <2>1. /\ m \in Nat /\ m =< AvailableRead(Length, ring)
          /\ ring'.write_pos = ring.write_pos
          /\ AvailableRead(Length, ring') = AvailableRead(Length, ring) - m
      <3>1. count \in Nat /\ Length \in Nat
        BY <1>0, RingAssumption
      <3>2. ring' = ReadBuffer(Length, ring, count)
        BY <1>2 DEF RingRead
      <3> QED BY <1>0, <3>1, <3>2, ReadKeeps
    <2>2. returned' = Regions(m) /\ data' = data
      BY <1>2 DEF RingRead
    <2> HIDE DEF m
    <2>3. ASSUME NEW a \in 1..Length PROVE Written(a)' = Written(a)
      BY <2>1, <2>2, <1>b, <1>c
    <2>4. ASSUME NEW i \in 1..m
          PROVE  Regions(m)[i] = tapeBar[AvailableRead(Length, ring) + 1 - i]
      <3> DEFINE u == AvailableRead(Length, ring)
      <3>1. u + 1 - i \in 1..Length
        BY <1>0, <2>1
      <3>2. tapeBar[u + 1 - i] = data[Place(ring.write_pos, u + 1 - i)]
        BY <3>1, <1>b DEF tapeBar
      <3>3. Place(ring.write_pos, u + 1 - i)
              = IF i =< Length - ring.read_pos THEN ring.read_pos + i - 1
                ELSE i - (Length - ring.read_pos) - 1
        BY <1>0, <2>1 DEF Place, Consistent, Buffers, Wraps, AvailableRead
      <3>4. Regions(m)[i] = IF i =< Length - ring.read_pos THEN data[ring.read_pos + i - 1]
                            ELSE data[i - (Length - ring.read_pos) - 1]
        BY DEF Regions
      <3> QED BY <3>2, <3>3, <3>4
    <2>5. Regions(m) = [i \in 1..m |-> tapeBar[AvailableRead(Length, ring) + 1 - i]]
      BY <2>4 DEF Regions
    <2>6. tapeBar' = tapeBar
      BY <2>3 DEF tapeBar
    <2>7. m \in 0..AvailableRead(Length, ring)
      BY <1>0, <2>1
    <2> QED BY <2>1, <2>2, <2>5, <2>6, <2>7 DEF Tape!Read, tapeBar
  <1>3. ASSUME NEW count \in -MaxCount..MaxCount, RingMove(count) PROVE Tape!Move
    <2>1. /\ ring'.write_pos = ring.write_pos /\ Consistent(Length, ring')
      BY <1>0, <1>3, RingAssumption, MoveKeeps, SMTT(30) DEF RingMove
    <2>2. AvailableRead(Length, ring') \in 0..Length
      BY <1>0, <2>1, AvailableBounds
    <2>3. ASSUME NEW a \in 1..Length PROVE Written(a)' = Written(a)
      BY <1>3, <2>1, <1>b, <1>c DEF RingMove
    <2> QED BY <1>3, <2>2, <2>3 DEF Tape!Move, RingMove
  <1>4. CASE RingClear
    <2>1. ring' = InitBuffer /\ ring'.write_pos = 0
      BY <1>4 DEF RingClear, InitBuffer
    <2>2. ASSUME NEW a \in 1..Length PROVE Written(a)' = Zero
      <3>1. Place(ring'.write_pos, a) \in Slots
        BY <1>0, <2>1, PlaceInSlots
      <3> QED BY <1>4, <1>c, <3>1 DEF RingClear
    <2>3. AvailableRead(Length, ring') = 0
      BY <1>0, <2>1, InitKeeps
    <2>4. Tape!Clear
      BY <1>4, <2>2, <2>3 DEF Tape!Clear, RingClear
    <2> QED BY <2>4 DEF Tape!TapeNext
  <1>5. CASE UNCHANGED rvars
    BY <1>5 DEF rvars, Tape!tvars, Written
  <1> QED BY <1>1, <1>2, <1>3, <1>4, <1>5 DEF RingNext, Tape!TapeNext

(* The ring buffer implements the tape: whatever is written can be read    *)
(* back in order, once or again after a move back, until it is overwritten.*)
THEOREM RingImplementsTape == RingSpec => ImplementsTape
  <1>1. RingSpec => []RingTypeOK
    BY RingTypeCorrect
  <1> QED BY <1>1, RingInitImplements, RingNextImplements, PTL
        DEF RingSpec, ImplementsTape, Tape!TapeSpec

(***************************************************************************)
(* The framing.                                                            *)
(***************************************************************************)
LEMMA DivisionBounds ==
    ASSUME NEW a \in Nat, NEW d \in Nat \ {0}
    PROVE  /\ a \div d \in Nat
           /\ (a \div d) * d \in Nat
           /\ (a \div d) * d =< a
           /\ a - (a \div d) * d < d
  OBVIOUS

FramesInv == /\ FramesTypeOK
             /\ farBufReadPos = farBufWritePos
             /\ NearFollowsFar
             /\ OutputKeepsUp

LEMMA FramesSizes ==
    /\ FRAME_LEN \in Nat \ {0} /\ PART_LEN \in Nat \ {0}
    /\ Size = FRAME_LEN + PART_LEN /\ Size \in Nat
    /\ FAR_BUF_LEN \in Nat /\ FRAME_LEN =< FAR_BUF_LEN
  BY FramesAssumption DEF Size, FAR_BUF_LEN

LEMMA FramesInitOK == FramesInit => FramesInv
  <1> SUFFICES ASSUME FramesInit PROVE FramesInv
    OBVIOUS
  <1>1. Consistent(Size, InitBuffer) /\ AvailableRead(Size, InitBuffer) = 0
    BY FramesSizes, InitKeeps
  <1>2. FramesTypeOK
    BY <1>1, FramesSizes DEF FramesInit, FramesTypeOK
  <1>3. OutputKeepsUp
    BY <1>1, FramesSizes DEF FramesInit, OutputKeepsUp, Waiting
  <1> QED BY <1>2, <1>3 DEF FramesInv, FramesInit, NearFollowsFar

LEMMA FramesResetOK == FramesReset => FramesInv'
  <1> SUFFICES ASSUME FramesReset PROVE FramesInv'
    OBVIOUS
  <1>1. Consistent(Size, InitBuffer) /\ AvailableRead(Size, InitBuffer) = 0
    BY FramesSizes, InitKeeps
  <1>2. FramesTypeOK'
    BY <1>1, FramesSizes DEF FramesReset, FramesTypeOK
  <1>3. OutputKeepsUp'
    BY <1>1, FramesSizes DEF FramesReset, OutputKeepsUp, Waiting
  <1> QED BY <1>2, <1>3 DEF FramesInv, FramesReset, NearFollowsFar

LEMMA ProcessFrameOK ==
    ASSUME FramesInv, NEW clean \in BOOLEAN, ProcessFrame(clean)
    PROVE  FramesInv'
  <1> DEFINE W == Waiting(farFrameBuf)
  <1>0. /\ Consistent(Size, farFrameBuf) /\ Consistent(Size, nearNoisyFrameBuf)
        /\ Consistent(Size, nearCleanFrameBuf) /\ Consistent(Size, outFrameBuf)
        /\ stuffed \in Nat /\ stuffed < PART_LEN
        /\ W < PART_LEN /\ W + Waiting(outFrameBuf) = stuffed
        /\ nearNoisyFrameBuf = farFrameBuf
    BY DEF FramesInv, FramesTypeOK, OutputKeepsUp, NearFollowsFar
  <1>1. W \in Nat /\ Waiting(outFrameBuf) \in Nat
    BY <1>0, FramesSizes, AvailableBounds DEF Waiting
  <1>2. PICK far, noisy, near, blocks, out, full :
          /\ far = WriteBuffer(Size, farFrameBuf, FRAME_LEN)
          /\ noisy = WriteBuffer(Size, nearNoisyFrameBuf, FRAME_LEN)
          /\ near = IF clean THEN WriteBuffer(Size, nearCleanFrameBuf, FRAME_LEN)
                             ELSE nearCleanFrameBuf
          /\ blocks = Blocks(far)
          /\ farFrameBuf' = Take(far, blocks)
          /\ nearNoisyFrameBuf' = Take(noisy, blocks)
          /\ nearCleanFrameBuf' = IF clean THEN Take(near, blocks) ELSE near
          /\ out = WriteBuffer(Size, outFrameBuf, blocks * PART_LEN)
          /\ stuffed' = stuffed + Missing(out)
          /\ full = Stuff(out)
          /\ outFrameBuf' = ReadBuffer(Size, full, FRAME_LEN)
    BY DEF ProcessFrame
  <1> HIDE DEF W
  \* The far end: the frame fits, and less than a block of it stays.
  <1>3. /\ Consistent(Size, far)
        /\ AvailableRead(Size, far) = W + FRAME_LEN
    <2>1. Writable(Size, farFrameBuf, FRAME_LEN) = FRAME_LEN
      BY <1>0, <1>1, FramesSizes DEF Writable, Smaller, AvailableWrite, W, Waiting
    <2> QED BY <1>0, <1>2, <2>1, FramesSizes, WriteKeeps DEF W, Waiting
  <1>4. /\ blocks \in Nat /\ blocks * PART_LEN \in Nat
        /\ blocks * PART_LEN =< W + FRAME_LEN
        /\ (W + FRAME_LEN) - blocks * PART_LEN < PART_LEN
    <2>1. blocks = (W + FRAME_LEN) \div PART_LEN
      BY <1>2, <1>3 DEF Blocks, Waiting
    <2>2. W + FRAME_LEN \in Nat
      BY <1>1, FramesSizes
    <2>3. PART_LEN \in Nat \ {0}
      BY FramesSizes
    <2> DEFINE all == W + FRAME_LEN
    <2>4. all \in Nat
      BY <2>2
    <2> HIDE DEF all
    <2>5. /\ all \div PART_LEN \in Nat
          /\ (all \div PART_LEN) * PART_LEN \in Nat
          /\ (all \div PART_LEN) * PART_LEN =< all
          /\ all - (all \div PART_LEN) * PART_LEN < PART_LEN
      BY ONLY <2>3, <2>4, DivisionBounds
    <2>6. blocks = all \div PART_LEN
      BY <2>1 DEF all
    <2> QED BY <2>5, <2>6 DEF all
  <1> DEFINE cut == blocks * PART_LEN
  <1>5. cut \in Nat /\ cut =< W + FRAME_LEN /\ (W + FRAME_LEN) - cut < PART_LEN
    BY <1>1, <1>4, FramesSizes
  <1>6. cut = blocks * PART_LEN
    OBVIOUS
  <1> HIDE DEF cut
  <1> DEFINE rest == (W + FRAME_LEN) - cut
  <1>7. /\ Consistent(Size, farFrameBuf')
        /\ AvailableRead(Size, farFrameBuf') = rest
    <2>1. Readable(Size, far, cut) = cut
      BY <1>3, <1>5, <1>1, FramesSizes DEF Readable, Smaller
    <2>2. farFrameBuf' = ReadBuffer(Size, far, cut)
      BY <1>2, <1>6 DEF Take
    <2> QED BY <1>3, <1>5, <2>1, <2>2, FramesSizes, ReadKeeps
  <1>8. rest \in Nat /\ rest < PART_LEN
    BY <1>1, <1>5, FramesSizes
  <1>9. nearNoisyFrameBuf' = farFrameBuf'
    BY <1>0, <1>2
  <1>10. Consistent(Size, nearCleanFrameBuf')
    <2>1. CASE clean
      <3>1. near = WriteBuffer(Size, nearCleanFrameBuf, FRAME_LEN)
        BY <1>2, <2>1
      <3>2. Consistent(Size, near)
        BY <1>0, <3>1, FramesSizes, WriteKeeps
      <3>3. nearCleanFrameBuf' = ReadBuffer(Size, near, cut)
        BY <1>2, <1>6, <2>1 DEF Take
      <3> QED BY <1>5, <3>2, <3>3, FramesSizes, ReadKeeps
    <2>2. CASE ~clean
      BY <1>0, <1>2, <2>2
    <2> QED BY <2>1, <2>2
  \* The output: all blocks fit; what is missing for a frame is stuffed.
  <1>11. /\ Consistent(Size, out)
         /\ AvailableRead(Size, out) = Waiting(outFrameBuf) + cut
    <2>1. Writable(Size, outFrameBuf, cut) = cut
      BY <1>0, <1>1, <1>5, FramesSizes DEF Writable, Smaller, AvailableWrite, Waiting
    <2>2. out = WriteBuffer(Size, outFrameBuf, cut)
      BY <1>2, <1>6
    <2> QED BY <1>0, <1>5, <2>1, <2>2, FramesSizes, WriteKeeps DEF Waiting
  <1>12. AvailableRead(Size, out) = (stuffed + FRAME_LEN) - rest
    BY <1>0, <1>1, <1>5, <1>11, FramesSizes
  <1>13. Missing(out) = IF rest > stuffed THEN rest - stuffed ELSE 0
    BY <1>0, <1>8, <1>12, FramesSizes DEF Missing, Waiting, Larger
  <1>14. /\ Consistent(Size, full)
         /\ AvailableRead(Size, full) = ((stuffed + FRAME_LEN) - rest) + Missing(out)
    <2>1. CASE rest > stuffed
      <3>1. /\ Missing(out) = rest - stuffed /\ Missing(out) > 0
            /\ -Missing(out) \in Int
        BY <1>0, <1>8, <1>13, <2>1
      <3>2. full = MoveReadPtr(Size, out, -Missing(out))
        BY <1>2, <3>1 DEF Stuff
      <3>3. -Missing(out) \in -AvailableWrite(Size, out)..AvailableRead(Size, out)
        BY <1>0, <1>8, <1>12, <3>1, FramesSizes DEF AvailableWrite
      <3>4. Moved(Size, out, -Missing(out)) = -Missing(out)
        BY <1>11, <3>1, <3>3, FramesSizes, MovedBounds
      <3>5. /\ Consistent(Size, full)
            /\ AvailableRead(Size, full) = AvailableRead(Size, out) - (-Missing(out))
        BY <1>11, <3>1, <3>2, <3>4, FramesSizes, MoveKeeps
      <3> QED BY <1>0, <1>8, <1>12, <3>1, <3>5, FramesSizes
    <2>2. CASE ~(rest > stuffed)
      <3>1. Missing(out) = 0
        BY <1>13, <2>2
      <3>2. full = out
        BY <1>2, <3>1 DEF Stuff
      <3> QED BY <1>0, <1>8, <1>11, <1>12, <3>1, <3>2, FramesSizes
    <2> QED BY <2>1, <2>2
  <1>15. /\ Consistent(Size, outFrameBuf')
         /\ AvailableRead(Size, outFrameBuf') = (stuffed + Missing(out)) - rest
    <2>1. AvailableRead(Size, full) \in Nat /\ AvailableRead(Size, full) >= FRAME_LEN
      BY <1>0, <1>8, <1>13, <1>14, FramesSizes
    <2>2. Readable(Size, full, FRAME_LEN) = FRAME_LEN
      BY <2>1, FramesSizes DEF Readable, Smaller
    <2>3. /\ Consistent(Size, outFrameBuf')
          /\ AvailableRead(Size, outFrameBuf') = AvailableRead(Size, full) - FRAME_LEN
      BY <1>2, <1>14, <2>2, FramesSizes, ReadKeeps
    <2> QED BY <1>0, <1>8, <1>13, <1>14, <2>3, FramesSizes
  <1>16. stuffed' = stuffed + Missing(out)
    BY <1>2
  <1>17. OutputKeepsUp'
    <2>1. /\ stuffed' \in Nat /\ stuffed' < PART_LEN
          /\ rest + ((stuffed + Missing(out)) - rest) = stuffed'
      BY <1>0, <1>8, <1>13, <1>16, FramesSizes
    <2>2. /\ Waiting(farFrameBuf)' = rest
          /\ Waiting(outFrameBuf)' = (stuffed + Missing(out)) - rest
      BY <1>7, <1>15 DEF Waiting, Size
    <2> QED BY <1>8, <2>1, <2>2 DEF OutputKeepsUp
  <1>18. /\ farBufReadPos' = farBufWritePos'
         /\ farBufWritePos' \in 0..FAR_BUF_LEN
    BY FramesSizes DEF FramesInv, FramesTypeOK, ProcessFrame, FetchFarFrame, BufferFarFrame
  <1>19. FramesTypeOK'
    <2>1. stuffed' \in Nat
      BY <1>0, <1>8, <1>13, <1>16
    <2> QED BY <1>7, <1>9, <1>10, <1>15, <1>18, <2>1 DEF FramesTypeOK, Size, FAR_BUF_LEN
  <1> QED BY <1>9, <1>17, <1>18, <1>19 DEF FramesInv, NearFollowsFar

LEMMA FramesNextOK == FramesInv /\ [FramesNext]_fvars => FramesInv'
  <1> SUFFICES ASSUME FramesInv, [FramesNext]_fvars PROVE FramesInv'
    OBVIOUS
  <1>1. CASE UNCHANGED fvars
    BY <1>1 DEF fvars, FramesInv, FramesTypeOK, NearFollowsFar, OutputKeepsUp, Waiting
  <1> QED BY <1>1, FramesResetOK, ProcessFrameOK DEF FramesNext

(* The framing's positions stay in their buffers.                          *)
THEOREM FramesTypeCorrect == FramesSpec => []FramesTypeOK
  <1>1. FramesInv => FramesTypeOK
    BY DEF FramesInv
  <1> QED BY <1>1, FramesInitOK, FramesNextOK, PTL DEF FramesSpec

(* For every frame and block length (a frame being one or two blocks) far  *)
(* end, near end and output keep in step, and no sample is lost.           *)
THEOREM FramesInStep == FramesSpec => []FramesKeepStep
  <1>1. FramesInv => FramesKeepStep
    BY DEF FramesInv, FramesKeepStep, FarFetchedFresh
  <1> QED BY <1>1, FramesInitOK, FramesNextOK, PTL DEF FramesSpec

(***************************************************************************)
(* The wrapper.                                                            *)
(***************************************************************************)
(* Until it starts the canceller only collects whole far-end frames.       *)
WholeFrames == \E k \in Nat : Buffered = k * FrameLen

(* The count of estimates off to one side never exceeds how many there     *)
(* were in a row, and belongs to the side the last one was on.             *)
CountIsHeld == /\ timeForDelayChange =< held
               /\ side = "low" => lastDelayDiff < LowDiff
               /\ side = "high" => lastDelayDiff > HighDiff
               /\ side = "inside" => timeForDelayChange = 0

MobileInv == /\ MobileTypeOK
             /\ ECstartup => WholeFrames
             /\ CountIsHeld

LEMMA MobileConstants ==
    /\ Mult \in 1..2 /\ FrameLen \in Nat \ {0} /\ BufFrames \in Nat \ {0}
    /\ FarBufLen \in Nat /\ MaxStuffFrames \in Nat \ {0} /\ Slack \in Nat
    /\ StartFrames \in Nat \ {0} /\ CheckFrames \in Nat \ {0}
    /\ HighDiff \in Nat /\ LowDiff \in Nat /\ TargetDiff \in Nat /\ HoldFrames \in Nat
    /\ LowDiff < HighDiff
    /\ FilterWeight \in Nat \ {0} /\ SoundCardDelays \subseteq Nat
  BY MobileAssumption

LEMMA ProductNat ==
    ASSUME NEW a \in Nat, NEW b \in Nat
    PROVE  /\ a * b \in Nat
           /\ a # 0 /\ b # 0 => a * b # 0
  OBVIOUS

LEMMA BufSizeNat == BufSize \in Nat
  BY MobileConstants, ProductNat DEF BufSize

LEMMA QuotientInt ==
    ASSUME NEW a \in Int, NEW d \in Nat \ {0}
    PROVE  a \div d \in Int
  OBVIOUS

LEMMA MobileInitOK == MobileInit => MobileInv
  <1> SUFFICES ASSUME MobileInit PROVE MobileInv
    OBVIOUS
  <1>1. Consistent(BufSize, farendBuf) /\ Buffered = 0
    BY BufSizeNat, InitKeeps DEF MobileInit, Buffered
  <1>2. MobileTypeOK
    BY <1>1, MobileConstants DEF MobileInit, MobileTypeOK
  <1>3. WholeFrames
    BY <1>1, MobileConstants DEF WholeFrames
  <1>4. CountIsHeld
    BY DEF MobileInit, CountIsHeld
  <1> QED BY <1>2, <1>3, <1>4 DEF MobileInv

LEMMA MobileResetOK == MobileInv /\ MobileReset => MobileInv'
  <1> SUFFICES ASSUME MobileInv, MobileReset PROVE MobileInv'
    OBVIOUS
  <1>1. Consistent(BufSize, farendBuf') /\ AvailableRead(BufSize, farendBuf') = 0
    BY BufSizeNat, InitKeeps DEF MobileReset
  <1>2. MobileTypeOK'
    BY <1>1, MobileConstants DEF MobileReset, MobileTypeOK, MobileInv, BufSize
  <1>3. WholeFrames'
    BY <1>1, MobileConstants DEF WholeFrames, Buffered, BufSize
  <1>4. CountIsHeld'
    BY DEF MobileReset, CountIsHeld
  <1> QED BY <1>2, <1>3, <1>4 DEF MobileInv

(* A multiple of the frame plus a frame or two, or what of them fits into  *)
(* a buffer of whole frames, is a multiple of the frame.                   *)
LEMMA WholeFramesWritten ==
    ASSUME NEW k \in Nat, k * FrameLen =< BufSize
    PROVE  \E j \in Nat : k * FrameLen + Smaller(Mult * FrameLen, BufSize - k * FrameLen)
                            = j * FrameLen
  <1>1. CASE Mult * FrameLen < BufSize - k * FrameLen
    <2>1. (k + Mult) * FrameLen = k * FrameLen + Mult * FrameLen /\ k + Mult \in Nat
      BY MobileConstants
    <2>2. Smaller(Mult * FrameLen, BufSize - k * FrameLen) = Mult * FrameLen
      BY <1>1 DEF Smaller
    <2> QED BY <2>1, <2>2
  <1>2. CASE ~(Mult * FrameLen < BufSize - k * FrameLen)
    <2>1. Smaller(Mult * FrameLen, BufSize - k * FrameLen) = BufSize - k * FrameLen
      BY <1>2 DEF Smaller
    <2>2. k * FrameLen + (BufSize - k * FrameLen) = BufSize
      BY BufSizeNat, MobileConstants, ProductNat
    <2> QED BY <2>1, <2>2, MobileConstants DEF BufSize
  <1> QED BY <1>1, <1>2

LEMMA BufferFarendOK == MobileInv /\ BufferFarend => MobileInv'
  <1> SUFFICES ASSUME MobileInv, BufferFarend PROVE MobileInv'
    OBVIOUS
  <1>0. Consistent(BufSize, farendBuf) /\ BufSize \in Nat /\ msInSndCardBuf \in Nat
    BY BufSizeNat DEF MobileInv, MobileTypeOK
  <1>1. PICK b : /\ b = IF ECstartup THEN farendBuf ELSE DelayComp
                 /\ farendBuf' = WriteBuffer(BufSize, b, Mult * FrameLen)
    BY DEF BufferFarend
  <1>2. Mult * FrameLen \in Nat
    BY MobileConstants, ProductNat
  <1>3. Consistent(BufSize, DelayComp)
    <2>1. Buffered \in Nat
      BY <1>0, AvailableBounds DEF Buffered
    <2>2. (msInSndCardBuf * Mult) \div 2 \in Int /\ MaxStuffFrames * FrameLen \in Int
      BY <1>0, MobileConstants, ProductNat
    <2>3. Stuffing \in Int /\ -Stuffing \in Int
      BY <2>1, <2>2, MobileConstants DEF Stuffing, Smaller, Larger
    <2> QED BY <1>0, <2>3, MoveKeeps DEF DelayComp
  <1>4. Consistent(BufSize, farendBuf')
    BY <1>0, <1>1, <1>2, <1>3, WriteKeeps
  <1>5. MobileTypeOK'
    BY <1>4 DEF MobileInv, MobileTypeOK, BufferFarend, startup, estimate, BufSize
  <1>6. ASSUME ECstartup' PROVE WholeFrames'
    <2>1. ECstartup
      BY <1>6 DEF BufferFarend, startup
    <2>2. PICK k \in Nat : AvailableRead(BufSize, farendBuf) = k * FrameLen
      BY <2>1 DEF MobileInv, WholeFrames, Buffered
    <2>3. AvailableRead(BufSize, farendBuf') = k * FrameLen
             + Smaller(Mult * FrameLen, BufSize - k * FrameLen)
      BY <1>0, <1>1, <1>2, <2>1, <2>2, WriteKeeps DEF Writable, AvailableWrite
    <2>4. k * FrameLen =< BufSize
      BY <1>0, <2>2, AvailableBounds
    <2>5. PICK j \in Nat : AvailableRead(BufSize, farendBuf') = j * FrameLen
      BY <2>3, <2>4, WholeFramesWritten
    <2> QED BY <2>5 DEF WholeFrames, Buffered, BufSize
  <1>7. CountIsHeld'
    BY DEF MobileInv, CountIsHeld, BufferFarend, estimate
  <1> QED BY <1>5, <1>6, <1>7 DEF MobileInv

LEMMA FramesOfBounds ==
    ASSUME NEW total \in Nat, NEW reported \in Nat \ {0}
    PROVE  FramesOf(total, reported) \in 0..BufFrames
  <1> DEFINE a == 3 * total * Mult
             d == 4 * FrameLen * reported
  <1>1. a \in Nat
    BY MobileConstants, ProductNat
  <1>2. 4 * FrameLen \in Nat \ {0}
    BY MobileConstants
  <1>3. d \in Nat \ {0}
    BY <1>2, ProductNat
  <1> HIDE DEF a, d
  <1>4. a \div d \in Nat
    BY <1>1, <1>3, DivisionBounds
  <1>5. FramesOf(total, reported) = Smaller(a \div d, BufFrames)
    BY DEF FramesOf, a, d
  <1> QED BY <1>4, <1>5, MobileConstants DEF Smaller

LEMMA CheckDelayTypes ==
    ASSUME MobileTypeOK, NEW ms \in Nat, CheckDelay(ms)
    PROVE  /\ {checkBufSizeCtr', counter', firstVal', sum', bufSizeStart'} \subseteq Nat
           /\ bufSizeStart' =< BufFrames
           /\ checkBuffSize' \in BOOLEAN
           /\ reports' \in Seq(Nat)
  <1>0. /\ {checkBufSizeCtr, counter, firstVal, sum, bufSizeStart} \subseteq Nat
        /\ bufSizeStart =< BufFrames /\ reports \in Seq(Nat)
    BY DEF MobileTypeOK
  <1>1. checkBufSizeCtr' \in Nat /\ firstVal' \in Nat
    BY <1>0 DEF CheckDelay, NewFirst
  <1>2. counter' \in Nat /\ sum' \in Nat
    <2>1. SumAfter(ms) \in Nat
      BY <1>0 DEF SumAfter
    <2>2. CASE IsStable(ms)
      BY <1>0, <2>1, <2>2 DEF CheckDelay
    <2>3. CASE ~IsStable(ms)
      BY <1>0, <2>3 DEF CheckDelay
    <2> QED BY <2>2, <2>3
  <1>3. bufSizeStart' \in Nat /\ bufSizeStart' =< BufFrames
    <2>1. CASE checkBufSizeCtr' > CheckFrames
      <3>0. ~(counter' >= StartFrames /\ checkBufSizeCtr' =< CheckFrames)
        BY <1>1, <2>1, MobileConstants
      <3>1. bufSizeStart' = FramesOf(ms, 1)
        BY <2>1, <3>0 DEF CheckDelay
      <3>2. FramesOf(ms, 1) \in 0..BufFrames
        BY FramesOfBounds
      <3> QED BY <3>1, <3>2, MobileConstants
    <2>2. CASE counter' >= StartFrames /\ checkBufSizeCtr' =< CheckFrames
      <3>1. ~(checkBufSizeCtr' > CheckFrames)
        BY <1>1, <2>2, MobileConstants
      <3>2. bufSizeStart' = FramesOf(sum', counter')
        BY <2>2, <3>1 DEF CheckDelay
      <3>3. counter' \in Nat \ {0}
        BY <1>2, <2>2, MobileConstants
      <3>4. FramesOf(sum', counter') \in 0..BufFrames
        BY <1>2, <3>3, FramesOfBounds
      <3> QED BY <3>2, <3>4, MobileConstants
    <2>3. CASE /\ ~(checkBufSizeCtr' > CheckFrames)
               /\ ~(counter' >= StartFrames /\ checkBufSizeCtr' =< CheckFrames)
      <3>1. bufSizeStart' = bufSizeStart
        BY <2>3 DEF CheckDelay
      <3> QED BY <1>0, <3>1
    <2> QED BY <2>1, <2>2, <2>3
  <1>4. checkBuffSize' \in BOOLEAN /\ reports' \in Seq(Nat)
    <2>1. Append(reports, ms) \in Seq(Nat) /\ << >> \in Seq(Nat)
      BY <1>0
    <2>2. checkBuffSize' \in BOOLEAN
      BY DEF CheckDelay
    <2> QED BY <2>1, <2>2 DEF CheckDelay
  <1> QED BY <1>1, <1>2, <1>3, <1>4

(* A buffer of whole frames holds as many of them as it is cut into.       *)
LEMMA WholeFramesCounted ==
    ASSUME NEW k \in Nat, Buffered = k * FrameLen
    PROVE  FilledFrames = k
  <1>1. k * FrameLen \in Nat
    BY MobileConstants, ProductNat
  <1>2. (k * FrameLen) \div FrameLen = k
    <2> DEFINE a == k * FrameLen
               q == a \div FrameLen
    <2>1. q \in Nat /\ q * FrameLen =< a /\ a - q * FrameLen < FrameLen
      <3>1. a \in Nat /\ FrameLen \in Nat \ {0}
        BY <1>1, MobileConstants
      <3> HIDE DEF a
      <3> QED BY ONLY <3>1, DivisionBounds
    <2> HIDE DEF q
    <2>2. FrameLen \in Nat \ {0}
      BY MobileConstants
    <2>3. (k - q) * FrameLen = a - q * FrameLen
      BY <2>1, <2>2
    <2>4. (k - q) * FrameLen >= 0 /\ (k - q) * FrameLen < FrameLen
      BY <1>1, <2>1, <2>2, <2>3, ProductNat
    <2>5. k - q = 0
      <3>1. CASE k - q >= 1
        <4>1. (k - q) * FrameLen >= FrameLen
          BY <2>1, <2>2, <3>1
        <4> QED BY <2>1, <2>2, <2>4, <4>1
      <3>2. CASE k - q =< -1
        <4>1. (k - q) * FrameLen =< -FrameLen
          BY <2>1, <2>2, <3>2
        <4> QED BY <2>1, <2>2, <2>4, <4>1
      <3> QED BY <2>1, <3>1, <3>2
    <2> QED BY <2>1, <2>5 DEF q
  <1> QED BY <1>2 DEF FilledFrames

(* The canceller is enabled with the frames it decided to hold.            *)
LEMMA EnableHolds ==
    ASSUME MobileInv, ECstartup, Enable, bufSizeStart' \in Nat
    PROVE  /\ Consistent(BufSize, farendBuf')
           /\ AvailableRead(BufSize, farendBuf') = bufSizeStart' * FrameLen
  <1>0. Consistent(BufSize, farendBuf) /\ BufSize \in Nat
    BY BufSizeNat DEF MobileInv, MobileTypeOK
  <1>1. PICK k \in Nat : Buffered = k * FrameLen
    BY DEF MobileInv, WholeFrames
  <1>2. FilledFrames = k /\ k >= bufSizeStart'
    BY <1>1, WholeFramesCounted DEF Enable, IsFilled
  <1> DEFINE keep == bufSizeStart' * FrameLen
  <1>3. keep \in Nat /\ Buffered \in Nat /\ keep =< Buffered
    <2>1. keep \in Nat /\ k * FrameLen \in Nat
      BY <1>1, MobileConstants, ProductNat
    <2>2. k * FrameLen - keep = (k - bufSizeStart') * FrameLen
      BY MobileConstants
    <2>3. (k - bufSizeStart') * FrameLen \in Nat
      <3> DEFINE n == bufSizeStart'
      <3>a. k \in Nat /\ n \in Nat /\ k >= n
        BY <1>2
      <3> HIDE DEF n
      <3>b. k - n \in Nat
        BY <3>a
      <3>1. k - bufSizeStart' \in Nat
        BY <3>b DEF n
      <3> QED BY <3>1, MobileConstants, ProductNat
    <2> QED BY <1>1, <2>1, <2>2, <2>3
  <1>4. CASE k > bufSizeStart'
    <2> HIDE DEF keep
    <2>1. farendBuf' = MoveReadPtr(BufSize, farendBuf, Buffered - keep)
      BY <1>2, <1>4 DEF Enable, keep
    <2>2. Buffered - keep \in -AvailableWrite(BufSize, farendBuf)..AvailableRead(BufSize, farendBuf)
      BY <1>0, <1>3, AvailableBounds DEF Buffered
    <2>3. Moved(BufSize, farendBuf, Buffered - keep) = Buffered - keep
      BY <1>0, <1>3, <2>2, MovedBounds
    <2>4. /\ Consistent(BufSize, farendBuf')
          /\ AvailableRead(BufSize, farendBuf') = Buffered - (Buffered - keep)
      BY <1>0, <1>3, <2>1, <2>3, MoveKeeps DEF Buffered
    <2> QED BY <1>3, <2>4 DEF keep
  <1>5. CASE k = bufSizeStart'
    <2>1. farendBuf' = farendBuf
      BY <1>2, <1>5 DEF Enable
    <2> QED BY <1>0, <1>1, <1>5, <2>1 DEF Buffered
  <1> QED BY <1>2, <1>4, <1>5

LEMMA ProcessStartupOK ==
    ASSUME MobileInv, NEW ms \in Nat, ProcessStartup(ms)
    PROVE  MobileInv'
  <1>0. ECstartup /\ MobileTypeOK
    BY DEF ProcessStartup, MobileInv
  <1>1. /\ {checkBufSizeCtr', counter', firstVal', sum', bufSizeStart'} \subseteq Nat
        /\ bufSizeStart' =< BufFrames
        /\ checkBuffSize' \in BOOLEAN
        /\ reports' \in Seq(Nat)
    <2>1. CASE checkBuffSize
      BY <1>0, <2>1, CheckDelayTypes DEF ProcessStartup
    <2>2. CASE ~checkBuffSize
      BY <1>0, <2>2 DEF ProcessStartup, KeepDelay, MobileTypeOK
    <2> QED BY <2>1, <2>2
  <1>2. CountIsHeld'
    BY DEF MobileInv, CountIsHeld, ProcessStartup, estimate
  <1>3. msInSndCardBuf' \in Nat /\ UNCHANGED estimate
    BY DEF ProcessStartup
  <1>4. CASE Enable
    <2>1. Consistent(BufSize, farendBuf')
      BY <1>0, <1>1, <1>4, EnableHolds
    <2>2. ECstartup' = FALSE
      BY <1>4 DEF Enable
    <2>3. MobileTypeOK'
      BY <1>0, <1>1, <1>3, <2>1, <2>2 DEF MobileTypeOK, estimate, BufSize
    <2> QED BY <1>2, <2>2, <2>3 DEF MobileInv
  <1>5. CASE StayOff
    <2>1. UNCHANGED <<ECstartup, farendBuf>>
      BY <1>5 DEF StayOff
    <2>2. MobileTypeOK'
      BY <1>0, <1>1, <1>3, <2>1 DEF MobileTypeOK, estimate, BufSize
    <2> QED BY <1>0, <1>2, <2>1, <2>2 DEF MobileInv, WholeFrames, Buffered
  <1> QED BY <1>4, <1>5 DEF ProcessStartup

LEMMA EstBufDelayOK ==
    ASSUME MobileInv, NEW surplus \in Int, EstBufDelay(surplus)
    PROVE  /\ {filtDelay', knownDelay', timeForDelayChange', held'} \subseteq Nat
           /\ lastDelayDiff' \in Int /\ side' \in {"low", "inside", "high"}
           /\ CountIsHeld'
           /\ knownDelay' # knownDelay => side' # "inside" /\ held' > HoldFrames
  <1>0. /\ {filtDelay, knownDelay, timeForDelayChange, held} \subseteq Nat
        /\ lastDelayDiff \in Int /\ side \in {"low", "inside", "high"}
        /\ CountIsHeld
    BY DEF MobileInv, MobileTypeOK
  <1>1. filtDelay' \in Nat
    <2> DEFINE a == (FilterWeight - 1) * filtDelay + NewDelay(surplus)
    <2>1. a \in Int
      <3>1. NewDelay(surplus) \in Int
        BY MobileConstants DEF NewDelay
      <3>2. (FilterWeight - 1) * filtDelay \in Int
        BY <1>0, MobileConstants
      <3> QED BY <3>1, <3>2
    <2>2. filtDelay' = Larger(0, a \div FilterWeight)
      BY DEF EstBufDelay, Filtered
    <2> HIDE DEF a
    <2>3. a \div FilterWeight \in Int
      BY <2>1, MobileConstants, QuotientInt
    <2> QED BY <2>2, <2>3 DEF Larger
  <1>2. lastDelayDiff' \in Int
    BY <1>0, <1>1 DEF EstBufDelay
  <1> DEFINE diff == lastDelayDiff'
  <1>3. /\ side' = SideOf(diff)
        /\ timeForDelayChange' = HeldCount(diff)
        /\ held' = IF side' = "inside" THEN 0 ELSE IF side' = side THEN held + 1 ELSE 1
    BY DEF EstBufDelay
  <1>4. /\ side' = "high" => diff > HighDiff
        /\ side' = "low" => diff < LowDiff
        /\ side' \in {"low", "inside", "high"}
    <2>1. CASE diff > HighDiff
      <3>1. ~(diff < LowDiff)
        BY <1>2, <2>1, MobileConstants
      <3> QED BY <1>3, <2>1, <3>1 DEF SideOf
    <2>2. CASE ~(diff > HighDiff)
      BY <1>3, <2>2 DEF SideOf
    <2> QED BY <2>1, <2>2
  <1> HIDE DEF diff
  <1>5. /\ held' \in Nat /\ timeForDelayChange' \in Nat
        /\ timeForDelayChange' =< held'
        /\ side' = "inside" => timeForDelayChange' = 0
    <2>1. CASE side' = "inside"
      BY <1>3, <2>1 DEF HeldCount
    <2>2. CASE side' = "high"
      <3>1. timeForDelayChange' = IF lastDelayDiff < LowDiff THEN 0 ELSE timeForDelayChange + 1
        BY <1>3, <2>2 DEF HeldCount
      <3>2. held' = IF side = "high" THEN held + 1 ELSE 1
        BY <1>3, <2>2
      <3> QED BY <1>0, <2>2, <3>1, <3>2, MobileConstants DEF CountIsHeld
    <2>3. CASE side' = "low"
      <3>1. timeForDelayChange' = IF lastDelayDiff > HighDiff THEN 0 ELSE timeForDelayChange + 1
        BY <1>3, <2>3 DEF HeldCount
      <3>2. held' = IF side = "low" THEN held + 1 ELSE 1
        BY <1>3, <2>3
      <3> QED BY <1>0, <2>3, <3>1, <3>2, MobileConstants DEF CountIsHeld
    <2> QED BY <1>4, <2>1, <2>2, <2>3
  <1>6. /\ knownDelay' \in Nat
        /\ knownDelay' # knownDelay => timeForDelayChange' > HoldFrames
    BY <1>0, <1>1, MobileConstants DEF EstBufDelay, Larger
  <1> QED BY <1>1, <1>2, <1>4, <1>5, <1>6, MobileConstants DEF CountIsHeld, diff

LEMMA ProcessEnabledOK ==
    ASSUME MobileInv, NEW ms \in Nat, ProcessEnabled(ms)
    PROVE  /\ MobileInv'
           /\ knownDelay' # knownDelay => side' # "inside" /\ held' > HoldFrames
  <1>0. Consistent(BufSize, farendBuf) /\ BufSize \in Nat /\ FrameLen \in Nat
    BY BufSizeNat, MobileConstants DEF MobileInv, MobileTypeOK
  <1>1. PICK b \in FramesTaken : \E surplus \in {ms * Mult - AvailableRead(BufSize, b)} :
           /\ EstBufDelay(surplus)
           /\ farendBuf' = AfterSkip(b, surplus)
    BY DEF ProcessEnabled
  <1>2. PICK surplus : /\ surplus = ms * Mult - AvailableRead(BufSize, b)
                       /\ EstBufDelay(surplus)
                       /\ farendBuf' = AfterSkip(b, surplus)
    BY <1>1
  <1>3. ASSUME NEW c, Consistent(BufSize, c) PROVE Consistent(BufSize, FrameTaken(c))
    BY <1>0, <1>3, ReadKeeps DEF FrameTaken
  <1>4. Consistent(BufSize, b)
    <2>1. b = FrameTaken(farendBuf) \/ b = FrameTaken(FrameTaken(farendBuf))
      BY <1>1 DEF FramesTaken
    <2> QED BY <1>0, <1>3, <2>1
  <1>5. surplus \in Int
    BY <1>0, <1>2, <1>4, AvailableBounds, MobileConstants
  <1>6. Consistent(BufSize, farendBuf')
    <2>1. farendBuf' = MoveReadPtr(BufSize, b, FrameLen) \/ farendBuf' = b
      BY <1>2 DEF AfterSkip
    <2>2. Consistent(BufSize, MoveReadPtr(BufSize, b, FrameLen))
      BY <1>0, <1>4, MoveKeeps
    <2> QED BY <1>4, <2>1, <2>2
  <1>7. /\ {filtDelay', knownDelay', timeForDelayChange', held'} \subseteq Nat
        /\ lastDelayDiff' \in Int /\ side' \in {"low", "inside", "high"}
        /\ CountIsHeld'
        /\ knownDelay' # knownDelay => side' # "inside" /\ held' > HoldFrames
    BY <1>2, <1>5, EstBufDelayOK
  <1>8. UNCHANGED startup /\ msInSndCardBuf' = ms /\ ~ECstartup
    BY DEF ProcessEnabled
  <1>9. MobileTypeOK'
    BY <1>6, <1>7, <1>8 DEF MobileInv, MobileTypeOK, startup, BufSize
  <1> QED BY <1>7, <1>8, <1>9 DEF MobileInv, startup

LEMMA ReportedDelay == \A d \in SoundCardDelays : d + TenMs \in Nat
  BY MobileConstants DEF TenMs

LEMMA MobileNextOK == MobileInv /\ [MobileNext]_mvars => MobileInv'
  <1> SUFFICES ASSUME MobileInv, [MobileNext]_mvars PROVE MobileInv'
    OBVIOUS
  <1>1. CASE Process
    BY <1>1, ReportedDelay, ProcessStartupOK, ProcessEnabledOK DEF Process
  <1>2. CASE UNCHANGED mvars
    BY <1>2 DEF mvars, startup, estimate, MobileInv, MobileTypeOK, WholeFrames,
                Buffered, CountIsHeld
  <1> QED BY <1>1, <1>2, MobileResetOK, BufferFarendOK DEF MobileNext

(* The wrapper's state keeps its type for every length of its buffers.     *)
THEOREM MobileTypeCorrect == MobileSpec => []MobileTypeOK
  <1>1. MobileInv => MobileTypeOK
    BY DEF MobileInv
  <1> QED BY <1>1, MobileInitOK, MobileNextOK, PTL DEF MobileSpec

(* The canceller starts with exactly the far-end frames it decided on,     *)
(* because until then the buffer holds whole frames only.                  *)
THEOREM MobileStartsWithDelay == MobileSpec => StartsWithDelay
  <1>1. MobileInv /\ [MobileNext]_mvars
          => [ECstartup /\ ~ECstartup'
                => AvailableRead(BufSize, farendBuf') = bufSizeStart' * FrameLen]_mvars
    <2> SUFFICES ASSUME MobileInv, MobileNext, ECstartup, ~ECstartup'
                 PROVE  AvailableRead(BufSize, farendBuf') = bufSizeStart' * FrameLen
      OBVIOUS
    <2>1. CASE MobileReset
      BY <2>1 DEF MobileReset
    <2>2. CASE BufferFarend
      BY <2>2 DEF BufferFarend, startup
    <2>3. CASE Process
      <3>1. PICK d \in SoundCardDelays : ProcessStartup(d + TenMs)
        BY <2>3 DEF Process, ProcessEnabled
      <3>2. Enable
        BY <3>1 DEF ProcessStartup, StayOff
      <3>3. MobileInv'
        BY <3>1, ReportedDelay, ProcessStartupOK
      <3>4. bufSizeStart' \in Nat
        BY <3>3 DEF MobileInv, MobileTypeOK
      <3> QED BY <3>2, <3>4, EnableHolds
    <2> QED BY <2>1, <2>2, <2>3 DEF MobileNext
  <1> QED BY <1>1, MobileInitOK, MobileNextOK, PTL DEF MobileSpec, StartsWithDelay

(* The known delay changes only after more than HoldFrames estimates in a  *)
(* row to one side of it, whatever delays are reported.                    *)
THEOREM DelayHeld == MobileSpec => DelayChangesAreHeld
  <1>1. MobileInv /\ [MobileNext]_mvars
          => [knownDelay' # knownDelay
                => MobileReset \/ (side' # "inside" /\ held' > HoldFrames)]_mvars
    <2> SUFFICES ASSUME MobileInv, MobileNext, knownDelay' # knownDelay
                 PROVE  MobileReset \/ (side' # "inside" /\ held' > HoldFrames)
      OBVIOUS
    <2>1. CASE MobileReset
      BY <2>1
    <2>2. CASE BufferFarend
      BY <2>2 DEF BufferFarend, estimate
    <2>3. CASE Process
      <3>1. PICK d \in SoundCardDelays : ProcessEnabled(d + TenMs)
        BY <2>3 DEF Process, ProcessStartup, estimate
      <3> QED BY <3>1, ReportedDelay, ProcessEnabledOK
    <2> QED BY <2>1, <2>2, <2>3 DEF MobileNext
  <1> QED BY <1>1, MobileInitOK, MobileNextOK, PTL DEF MobileSpec, DelayChangesAreHeld

(* How far the start up is from its end: how many more capture calls the   *)
(* delay can stay undecided and, once it is decided, how many samples of   *)
(* far end are missing.                                                    *)
StartupLeft == IF checkBuffSize THEN CheckFrames + 1 - checkBufSizeCtr ELSE 0
FarEndMissing == Larger(0, bufSizeStart * FrameLen - Buffered)

(* While the canceller is starting each capture call either leaves fewer   *)
(* calls for the delay to be decided in, or decides; with the delay        *)
(* decided it starts at the first capture call that misses no far end, and *)
(* one that does changes nothing of it; each render call brings what is    *)
(* missing nearer by its frames, and only a new initialization stops the   *)
(* canceller again.                                                        *)
StartupApproaches ==
    [][/\ ECstartup /\ Process =>
            IF checkBuffSize THEN ECstartup' => StartupLeft' < StartupLeft
            ELSE IF FarEndMissing = 0 THEN ~ECstartup'
            ELSE ECstartup' /\ UNCHANGED <<checkBuffSize, bufSizeStart, farendBuf>>
       /\ ECstartup /\ BufferFarend =>
            /\ ECstartup' /\ UNCHANGED <<checkBuffSize, bufSizeStart, checkBufSizeCtr>>
            /\ FarEndMissing' = Larger(0, FarEndMissing - Mult * FrameLen)
       /\ ~ECstartup /\ ECstartup' => MobileReset]_mvars

(* There is always a decision left to wait for, and what is missing is     *)
(* never more than the buffer holds.                                       *)
StartupBounded == ECstartup => /\ StartupLeft \in 0..CheckFrames + 1
                               /\ checkBuffSize => StartupLeft > 0
                               /\ FarEndMissing \in 0..BufSize

ReportsLeft == checkBuffSize => checkBufSizeCtr =< CheckFrames

LEMMA ReportsLeftInit == MobileInit => ReportsLeft
  BY MobileConstants DEF MobileInit, ReportsLeft

LEMMA ReportsLeftNext == MobileInv /\ ReportsLeft /\ [MobileNext]_mvars => ReportsLeft'
  <1> SUFFICES ASSUME MobileInv, ReportsLeft, [MobileNext]_mvars, checkBuffSize'
               PROVE  checkBufSizeCtr' =< CheckFrames
    BY DEF ReportsLeft
  <1>1. CASE MobileReset
    BY <1>1, MobileConstants DEF MobileReset
  <1>2. CASE UNCHANGED <<checkBuffSize, checkBufSizeCtr>>
    BY <1>2 DEF ReportsLeft
  <1>3. CASE BufferFarend
    BY <1>2, <1>3 DEF BufferFarend, startup
  <1>4. CASE Process
    <2>1. PICK d \in SoundCardDelays : \/ ProcessStartup(d + TenMs)
                                       \/ ProcessEnabled(d + TenMs)
      BY <1>4 DEF Process
    <2>2. CASE ProcessEnabled(d + TenMs)
      BY <1>2, <2>2 DEF ProcessEnabled, startup
    <2>3. CASE ProcessStartup(d + TenMs) /\ checkBuffSize
      <3>1. CheckDelay(d + TenMs)
        BY <2>3 DEF ProcessStartup
      <3>2. checkBufSizeCtr' \in Nat /\ ~(checkBufSizeCtr' > CheckFrames)
        BY <3>1, ReportedDelay, CheckDelayTypes DEF CheckDelay, MobileInv
      <3> QED BY <3>2, MobileConstants
    <2>4. CASE ProcessStartup(d + TenMs) /\ ~checkBuffSize
      BY <1>2, <2>4 DEF ProcessStartup, KeepDelay
    <2> QED BY <2>1, <2>2, <2>3, <2>4
  <1>5. CASE UNCHANGED mvars
    BY <1>2, <1>5 DEF mvars, startup
  <1> QED BY <1>1, <1>3, <1>4, <1>5 DEF MobileNext

\* The far end the canceller waits for is no more than the buffer holds.
LEMMA StartFits ==
    ASSUME MobileInv
    PROVE  /\ bufSizeStart * FrameLen \in 0..BufSize
           /\ Buffered \in 0..BufSize
  <1>1. bufSizeStart \in Nat /\ bufSizeStart =< BufFrames
    BY DEF MobileInv, MobileTypeOK
  <1>2. (BufFrames - bufSizeStart) * FrameLen \in Nat /\ bufSizeStart * FrameLen \in Nat
    BY <1>1, MobileConstants, ProductNat
  <1>3. (BufFrames - bufSizeStart) * FrameLen = BufSize - bufSizeStart * FrameLen
    BY <1>1, MobileConstants DEF BufSize
  <1>4. Buffered \in 0..BufSize
    BY BufSizeNat, AvailableBounds DEF Buffered, MobileInv, MobileTypeOK
  <1> QED BY <1>2, <1>3, <1>4, BufSizeNat

\* Whole frames in the buffer make up for the start when none is missing.
LEMMA NothingMissing ==
    ASSUME MobileInv, ECstartup
    PROVE  FarEndMissing = 0 <=> FilledFrames >= bufSizeStart
  <1>1. PICK k \in Nat : Buffered = k * FrameLen
    BY DEF MobileInv, WholeFrames
  <1>2. FilledFrames = k
    BY <1>1, WholeFramesCounted
  <1>3. bufSizeStart \in Nat
    BY DEF MobileInv, MobileTypeOK
  <1>4. FarEndMissing = 0 <=> Buffered >= bufSizeStart * FrameLen
    BY StartFits, BufSizeNat DEF FarEndMissing, Larger
  <1>5. CASE k >= bufSizeStart
    <2>1. (k - bufSizeStart) * FrameLen \in Nat
      BY <1>3, <1>5, MobileConstants, ProductNat
    <2>2. (k - bufSizeStart) * FrameLen = k * FrameLen - bufSizeStart * FrameLen
      BY <1>3, MobileConstants
    <2> QED BY <1>1, <1>2, <1>4, <1>5, <2>1, <2>2, StartFits, BufSizeNat
  <1>6. CASE ~(k >= bufSizeStart)
    <2> DEFINE n == bufSizeStart - k
    <2>1. n \in Nat /\ n # 0
      BY <1>3, <1>6
    <2>2. n * FrameLen \in Nat /\ n * FrameLen # 0
      BY <2>1, MobileConstants, ProductNat
    <2>3. n * FrameLen = bufSizeStart * FrameLen - k * FrameLen
      BY <1>3, MobileConstants
    <2> HIDE DEF n
    <2> QED BY <1>1, <1>2, <1>4, <1>6, <2>2, <2>3, StartFits, BufSizeNat
  <1> QED BY <1>5, <1>6

\* A capture call during the start up.
LEMMA ProcessApproaches ==
    ASSUME MobileInv, ReportsLeft, ECstartup, Process
    PROVE  IF checkBuffSize THEN ECstartup' => StartupLeft' < StartupLeft
           ELSE IF FarEndMissing = 0 THEN ~ECstartup'
           ELSE ECstartup' /\ UNCHANGED <<checkBuffSize, bufSizeStart, farendBuf>>
  <1>1. PICK d \in SoundCardDelays : ProcessStartup(d + TenMs)
    BY DEF Process, ProcessEnabled
  <1>2. CASE checkBuffSize
    <2>1. CheckDelay(d + TenMs)
      BY <1>1, <1>2 DEF ProcessStartup
    <2>2. checkBufSizeCtr' = checkBufSizeCtr + 1
      BY <2>1 DEF CheckDelay
    <2>3. checkBufSizeCtr \in Nat /\ checkBufSizeCtr =< CheckFrames
      BY <1>2 DEF MobileInv, MobileTypeOK, ReportsLeft
    <2> QED BY <1>2, <2>2, <2>3, MobileConstants DEF StartupLeft
  <1>3. CASE ~checkBuffSize
    <2>1. UNCHANGED <<checkBuffSize, bufSizeStart>>
      BY <1>1, <1>3 DEF ProcessStartup, KeepDelay
    <2>2. IsFilled <=> FarEndMissing = 0
      BY <2>1, NothingMissing DEF IsFilled
    <2>3. CASE FarEndMissing = 0
      BY <1>1, <1>3, <2>1, <2>2, <2>3 DEF ProcessStartup, StayOff, Enable
    <2>4. CASE FarEndMissing # 0
      <3>1. StayOff
        BY <1>1, <2>2, <2>4 DEF ProcessStartup, Enable
      <3> QED BY <1>3, <2>1, <2>4, <3>1 DEF StayOff
    <2> QED BY <1>3, <2>3, <2>4
  <1> QED BY <1>2, <1>3

\* A render call during the start up.
LEMMA FarEndApproaches ==
    ASSUME MobileInv, ECstartup, BufferFarend
    PROVE  /\ ECstartup' /\ UNCHANGED <<checkBuffSize, bufSizeStart, checkBufSizeCtr>>
           /\ FarEndMissing' = Larger(0, FarEndMissing - Mult * FrameLen)
  <1>1. UNCHANGED <<ECstartup, checkBuffSize, bufSizeStart, checkBufSizeCtr>>
    BY DEF BufferFarend, startup
  <1>2. farendBuf' = WriteBuffer(BufSize, farendBuf, Mult * FrameLen)
    BY DEF BufferFarend
  <1>3. Mult * FrameLen \in Nat
    BY MobileConstants, ProductNat
  <1>4. Buffered' = Buffered + Smaller(Mult * FrameLen, BufSize - Buffered)
    <2>1. Consistent(BufSize, farendBuf)
      BY DEF MobileInv, MobileTypeOK
    <2>2. Buffered' = AvailableRead(BufSize, farendBuf')
      BY DEF Buffered, BufSize
    <2> QED BY <1>2, <1>3, <2>1, <2>2, BufSizeNat, WriteKeeps
            DEF Writable, AvailableWrite, Buffered
  <1>5. FarEndMissing' = Larger(0, bufSizeStart * FrameLen - Buffered')
    BY <1>1 DEF FarEndMissing
  <1> DEFINE start == bufSizeStart * FrameLen
             more == Mult * FrameLen
  <1>6. start \in 0..BufSize /\ Buffered \in 0..BufSize /\ more \in Nat /\ BufSize \in Nat
    BY <1>3, StartFits, BufSizeNat
  <1>7. FarEndMissing = Larger(0, start - Buffered)
    BY DEF FarEndMissing
  <1> HIDE DEF start, more
  <1>8. Larger(0, start - (Buffered + Smaller(more, BufSize - Buffered)))
          = Larger(0, Larger(0, start - Buffered) - more)
    BY <1>6 DEF Larger, Smaller
  <1> QED BY <1>1, <1>4, <1>5, <1>7, <1>8 DEF start, more

(* The start up of the mobile canceller can only come nearer to its end,   *)
(* within at most CheckFrames + 1 capture calls for the decision and the   *)
(* render calls that fill the buffer, whatever delays are reported.        *)
THEOREM StartupComesToItsEnd == MobileSpec => []StartupBounded /\ StartupApproaches
  <1>1. MobileInv /\ ReportsLeft => StartupBounded
    <2> SUFFICES ASSUME MobileInv, ReportsLeft PROVE StartupBounded
      OBVIOUS
    <2>1. checkBufSizeCtr \in Nat /\ checkBuffSize \in BOOLEAN
      BY DEF MobileInv, MobileTypeOK
    <2>2. StartupLeft \in 0..CheckFrames + 1 /\ (checkBuffSize => StartupLeft > 0)
      BY <2>1, MobileConstants DEF StartupLeft, ReportsLeft
    <2>3. FarEndMissing \in 0..BufSize
      BY StartFits, BufSizeNat DEF FarEndMissing, Larger
    <2> QED BY <2>2, <2>3 DEF StartupBounded
  <1>2. MobileInv /\ ReportsLeft /\ [MobileNext]_mvars =>
          [/\ ECstartup /\ Process =>
                IF checkBuffSize THEN ECstartup' => StartupLeft' < StartupLeft
                ELSE IF FarEndMissing = 0 THEN ~ECstartup'
                ELSE ECstartup' /\ UNCHANGED <<checkBuffSize, bufSizeStart, farendBuf>>
           /\ ECstartup /\ BufferFarend =>
                /\ ECstartup' /\ UNCHANGED <<checkBuffSize, bufSizeStart, checkBufSizeCtr>>
                /\ FarEndMissing' = Larger(0, FarEndMissing - Mult * FrameLen)
           /\ ~ECstartup /\ ECstartup' => MobileReset]_mvars
    <2> SUFFICES ASSUME MobileInv, ReportsLeft, MobileNext, ~ECstartup, ECstartup'
                 PROVE  MobileReset
      BY ProcessApproaches, FarEndApproaches
    <2>1. ~BufferFarend
      BY DEF BufferFarend, startup
    <2>2. ~Process
      BY DEF Process, ProcessStartup, ProcessEnabled, startup
    <2> QED BY <2>1, <2>2 DEF MobileNext
  <1> QED BY <1>1, <1>2, MobileInitOK, MobileNextOK, ReportsLeftInit, ReportsLeftNext,
             PTL DEF MobileSpec, StartupApproaches

\* The last n of a sequence.
LastOf(s, n) == SubSeq(s, Len(s) - n + 1, Len(s))

LEMMA LastOfIs ==
    ASSUME NEW s \in Seq(Nat), NEW n \in 0 .. Len(s)
    PROVE  /\ LastOf(s, n) \in Seq(Nat)
           /\ Len(LastOf(s, n)) = n
           /\ \A i \in 1 .. n : LastOf(s, n)[i] = s[Len(s) - n + i]
<1>1. Len(s) \in Nat /\ n \in Nat /\ Len(s) - n + 1 \in 1 .. Len(s) + 1 /\ Len(s) \in Len(s) - n + 1 - 1 .. Len(s)
  BY LenProperties, SMT
<1>2. LastOf(s, n) \in Seq(Nat)
  BY <1>1, SubSeqProperties DEF LastOf
<1>3. Len(LastOf(s, n)) = n /\ \A i \in 1 .. n : LastOf(s, n)[i] = s[Len(s) - n + i]
  BY <1>1, SMT DEF LastOf
<1> QED
  BY <1>2, <1>3

LEMMA LastOfAppend ==
    ASSUME NEW s \in Seq(Nat), NEW x \in Nat, NEW n \in 0 .. Len(s)
    PROVE  LastOf(Append(s, x), n + 1) = Append(LastOf(s, n), x)
<1> DEFINE a == LastOf(Append(s, x), n + 1)
           b == Append(LastOf(s, n), x)
<1>1. /\ Append(s, x) \in Seq(Nat) /\ Len(Append(s, x)) = Len(s) + 1
      /\ \A i \in 1 .. Len(s) : Append(s, x)[i] = s[i]
      /\ Append(s, x)[Len(s) + 1] = x
      /\ Len(s) \in Nat /\ n \in Nat /\ n <= Len(s)
  BY AppendProperties, LenProperties, SMT
<1>2. n + 1 \in 0 .. Len(Append(s, x))
  BY <1>1, SMT
<1>3. /\ a \in Seq(Nat) /\ Len(a) = n + 1
      /\ \A i \in 1 .. n + 1 : a[i] = Append(s, x)[Len(s) - n + i]
  <2>1. /\ a \in Seq(Nat) /\ Len(a) = n + 1
        /\ \A i \in 1 .. n + 1 : a[i] = Append(s, x)[Len(Append(s, x)) - (n + 1) + i]
    BY <1>1, <1>2, LastOfIs
  <2>2. \A i \in 1 .. n + 1 : Len(Append(s, x)) - (n + 1) + i = Len(s) - n + i
    BY <1>1, SMT
  <2> QED
    BY <2>1, <2>2
<1>4. LastOf(s, n) \in Seq(Nat) /\ Len(LastOf(s, n)) = n
      /\ \A i \in 1 .. n : LastOf(s, n)[i] = s[Len(s) - n + i]
  BY LastOfIs
<1>5. /\ b \in Seq(Nat) /\ Len(b) = n + 1
      /\ \A i \in 1 .. n : b[i] = LastOf(s, n)[i]
      /\ b[n + 1] = x
  BY <1>4, AppendProperties
<1> HIDE DEF a, b
<1>6. \A i \in 1 .. n + 1 : a[i] = b[i]
  <2>1. ASSUME NEW i \in 1 .. n PROVE a[i] = b[i]
    <3>1. Len(s) - n + i \in 1 .. Len(s) /\ i \in 1 .. n + 1
      BY <1>1, SMT
    <3> QED
      BY <1>1, <1>3, <1>4, <1>5, <3>1
  <2>2. a[n + 1] = b[n + 1]
    <3>1. Len(s) - n + (n + 1) = Len(s) + 1 /\ n + 1 \in 1 .. n + 1
      BY <1>1, SMT
    <3> QED
      BY <1>1, <1>3, <1>5, <3>1
  <2>3. \A i \in 1 .. n + 1 : i \in 1 .. n \/ i = n + 1
    BY <1>1, SMT
  <2> QED
    BY <2>1, <2>2, <2>3
<1> QED
  BY <1>3, <1>5, <1>6, SeqEqual DEF a, b

(* While the delay is looked for, the sum is of the last reports, all near *)
(* the first of them, and they are fewer than it takes.                    *)
SumIsOfReports ==
    checkBuffSize =>
        /\ counter =< Len(reports) /\ counter < StartFrames
        /\ counter > 0 =>
             /\ sum = Total(LastOf(reports, counter))
             /\ LastOf(reports, counter)[1] = firstVal
             /\ \A i \in 1 .. counter : Near(firstVal, LastOf(reports, counter)[i])

\* A delay near the first of its row makes the row one longer.
LEMMA StableReport ==
    ASSUME MobileTypeOK, SumIsOfReports, checkBuffSize, NEW ms \in Nat,
           CheckDelay(ms), counter' # 0
    PROVE  LET last == LastOf(Append(reports, ms), counter')
           IN  /\ counter' = counter + 1
               /\ counter' =< Len(Append(reports, ms)) /\ counter' =< StartFrames
               /\ sum' = Total(last)
               /\ last[1] = firstVal'
               /\ \A i \in 1 .. counter' : Near(firstVal', last[i])
<1> DEFINE last == LastOf(Append(reports, ms), counter')
           before == LastOf(reports, counter)
<1>1. /\ counter \in Nat /\ sum \in Nat /\ firstVal \in Nat /\ reports \in Seq(Nat)
      /\ counter =< Len(reports) /\ counter < StartFrames /\ StartFrames \in Nat
      /\ Len(reports) \in Nat
  BY MobileConstants, LenProperties DEF MobileTypeOK, SumIsOfReports
<1>2. IsStable(ms) /\ counter' = counter + 1 /\ sum' = SumAfter(ms) /\ firstVal' = NewFirst(ms)
  BY DEF CheckDelay
<1>3. last = Append(before, ms) /\ before \in Seq(Nat) /\ Len(before) = counter
  <2>1. counter \in 0 .. Len(reports)
    BY <1>1, SMT
  <2> QED
    BY <1>1, <1>2, <2>1, LastOfAppend, LastOfIs
<1>4. /\ \A i \in 1 .. counter : last[i] = before[i]
      /\ last[counter + 1] = ms
  BY <1>3, AppendProperties
<1>5. counter' =< Len(Append(reports, ms)) /\ counter' =< StartFrames
  <2>1. Len(Append(reports, ms)) = Len(reports) + 1
    BY <1>1, AppendProperties
  <2> QED
    BY <1>1, <1>2, <2>1, SMT
<1>6. Near(NewFirst(ms), ms)
  BY <1>2 DEF IsStable, Near
<1> HIDE DEF last, before
<1>7. CASE counter = 0
  <2>1. firstVal' = ms /\ sum' = ms /\ counter' = 1
    BY <1>1, <1>2, <1>7, SMT DEF NewFirst, SumAfter
  <2>2. before = << >>
    BY <1>3, <1>7, EmptySeq
  <2>3. last = <<ms>>
    BY <1>3, <2>2
  <2>4. last[1] = ms /\ Total(last) = ms
    BY <2>3, SumOfOne
  <2>5. \A i \in 1 .. 1 : i = 1
    BY SMT
  <2> QED
    BY <1>2, <1>5, <1>6, <2>1, <2>4, <2>5 DEF NewFirst, last
<1>8. CASE counter # 0
  <2>1. /\ sum = Total(before) /\ before[1] = firstVal
        /\ \A i \in 1 .. counter : Near(firstVal, before[i])
        /\ counter > 0
    BY <1>1, <1>8, SMT DEF SumIsOfReports, before
  <2>2. firstVal' = firstVal /\ sum' = sum + ms
    BY <1>2, <1>8 DEF NewFirst, SumAfter
  <2>3. sum' = Total(last)
    BY <1>3, <2>1, <2>2, SumAppend
  <2>4. 1 \in 1 .. counter /\ \A i \in 1 .. counter + 1 : i \in 1 .. counter \/ i = counter + 1
    BY <1>1, <2>1, SMT
  <2>5. last[1] = firstVal'
    BY <1>4, <2>1, <2>2, <2>4
  <2>6. NewFirst(ms) = firstVal'
    BY <1>2
  <2>7. \A i \in 1 .. counter' : Near(firstVal', last[i])
    BY <1>2, <1>4, <1>6, <2>1, <2>2, <2>4, <2>6
  <2> QED
    BY <1>2, <1>5, <2>3, <2>5, <2>7 DEF last
<1> QED
  BY <1>7, <1>8

LEMMA SumInit == MobileInit => SumIsOfReports
<1> SUFFICES ASSUME MobileInit PROVE SumIsOfReports
  OBVIOUS
<1>1. counter = 0 /\ reports = << >>
  BY DEF MobileInit
<1>2. Len(reports) = 0
  BY <1>1
<1> QED
  BY <1>1, <1>2, MobileConstants, SMT DEF SumIsOfReports

LEMMA SumNext == MobileTypeOK /\ SumIsOfReports /\ [MobileNext]_mvars => SumIsOfReports'
<1> SUFFICES ASSUME MobileTypeOK, SumIsOfReports, [MobileNext]_mvars
             PROVE  SumIsOfReports'
  OBVIOUS
<1>1. CASE MobileReset
  <2>1. counter' = 0 /\ reports' = << >>
    BY <1>1 DEF MobileReset
  <2>2. Len(reports') = 0
    BY <2>1
  <2> QED
    BY <2>1, <2>2, MobileConstants, SMT DEF SumIsOfReports
<1>2. CASE UNCHANGED startup
  BY <1>2 DEF SumIsOfReports, startup
<1>3. ASSUME NEW d \in SoundCardDelays, ProcessStartup(d + TenMs)
      PROVE  SumIsOfReports'
  <2> DEFINE ms == d + TenMs
  <2>1. ms \in Nat
    BY ReportedDelay
  <2> HIDE DEF ms
  <2>2. CASE ~checkBuffSize
    <3>1. UNCHANGED checkBuffSize
      BY <1>3, <2>2 DEF ProcessStartup, KeepDelay
    <3> QED
      BY <2>2, <3>1 DEF SumIsOfReports
  <2>3. CASE checkBuffSize /\ checkBuffSize'
    <3>1. CheckDelay(ms)
      BY <1>3, <2>3 DEF ProcessStartup, ms
    <3>2. reports' = Append(reports, ms) /\ ~(counter' >= StartFrames) /\ counter' \in Nat
      BY <2>1, <2>3, <3>1, CheckDelayTypes DEF CheckDelay
    <3>3. counter' < StartFrames
      BY <3>2, MobileConstants, SMT
    <3>4. CASE counter' = 0
      <4>1. reports \in Seq(Nat)
        BY DEF MobileTypeOK
      <4>2. counter' =< Len(reports')
        BY <2>1, <3>2, <3>4, <4>1, AppendProperties, LenProperties, SMT
      <4> QED
        BY <3>3, <3>4, <4>2, SMT DEF SumIsOfReports
    <3>5. CASE counter' # 0
      BY <2>1, <2>3, <3>1, <3>2, <3>3, <3>5, StableReport DEF SumIsOfReports
    <3> QED
      BY <3>4, <3>5
  <2>4. CASE ~checkBuffSize'
    BY <2>4 DEF SumIsOfReports
  <2> QED
    BY <2>2, <2>3, <2>4
<1> QED
  BY <1>1, <1>2, <1>3
  DEF MobileNext, Process, BufferFarend, ProcessEnabled, mvars

(* The start up that does not run out of time follows the StartFrames last *)
(* delays reported, which were all near the first of them, whatever delays *)
(* were reported and forgotten before.                                     *)
THEOREM StartFollows == MobileSpec => StartFollowsReports
<1> DEFINE Follows ==
      checkBuffSize /\ ~checkBuffSize' /\ checkBufSizeCtr' =< CheckFrames =>
        LET all == Append(reports, msInSndCardBuf')
            last == SubSeq(all, Len(all) - StartFrames + 1, Len(all))
        IN  /\ Len(all) >= StartFrames
            /\ \A i \in 1..StartFrames : Near(last[1], last[i])
            /\ bufSizeStart' = FramesOf(FoldFunction(+, 0, last), StartFrames)
<1>1. MobileInv /\ SumIsOfReports /\ [MobileNext]_mvars => [Follows]_mvars
  <2> SUFFICES ASSUME MobileTypeOK, SumIsOfReports, MobileNext, checkBuffSize,
                      ~checkBuffSize', checkBufSizeCtr' =< CheckFrames
               PROVE  Follows
    BY DEF MobileInv
  <2>1. PICK d \in SoundCardDelays : ProcessStartup(d + TenMs)
    BY DEF MobileNext, MobileReset, Process, BufferFarend, ProcessEnabled, startup
  <2> DEFINE ms == d + TenMs
             all == Append(reports, ms)
  <2>2. ms \in Nat /\ CheckDelay(ms) /\ msInSndCardBuf' = ms
    BY <2>1, ReportedDelay DEF ProcessStartup
  <2> HIDE DEF ms
  <2>3. /\ checkBufSizeCtr' \in Nat /\ counter' \in Nat
        /\ checkBuffSize' = ~(counter' >= StartFrames \/ checkBufSizeCtr' > CheckFrames)
    BY <2>2, CheckDelayTypes DEF CheckDelay
  <2>4. counter' >= StartFrames /\ ~(checkBufSizeCtr' > CheckFrames) /\ counter' # 0
    <3>1. counter' >= StartFrames \/ checkBufSizeCtr' > CheckFrames
      BY <2>3, Zenon
    <3>2. ~(checkBufSizeCtr' > CheckFrames)
      BY <2>3, MobileConstants, SMT
    <3> QED
      BY <2>3, <3>1, <3>2, MobileConstants, SMT
  <2>5. /\ counter' =< Len(all) /\ counter' =< StartFrames
        /\ sum' = Total(LastOf(all, counter'))
        /\ LastOf(all, counter')[1] = firstVal'
        /\ \A i \in 1 .. counter' : Near(firstVal', LastOf(all, counter')[i])
    BY <2>2, <2>4, StableReport
  <2>6. counter' = StartFrames
    BY <2>3, <2>4, <2>5, MobileConstants, SMT
  <2>7. bufSizeStart' = FramesOf(sum', counter')
    BY <2>2, <2>4 DEF CheckDelay
  <2>8. LastOf(all, StartFrames) = SubSeq(all, Len(all) - StartFrames + 1, Len(all))
    BY DEF LastOf
  <2>9. Len(all) >= StartFrames
    <3>1. Len(all) \in Nat
      <4>1. all \in Seq(Nat)
        BY <2>2, AppendProperties DEF MobileTypeOK
      <4> QED
        BY <4>1, LenProperties
    <3> HIDE DEF all
    <3> QED
      BY <2>5, <2>6, <3>1, MobileConstants, SMT
  <2> DEFINE last == LastOf(all, StartFrames)
  <2>10. \A i \in 1..StartFrames : Near(last[1], last[i])
    BY <2>5, <2>6
  <2>11. bufSizeStart' = FramesOf(FoldFunction(+, 0, last), StartFrames)
    <3>1. bufSizeStart' = FramesOf(Total(last), StartFrames)
      BY <2>5, <2>6, <2>7
    <3> QED
      BY <3>1 DEF Total
  <2> QED
    BY <2>2, <2>8, <2>9, <2>10, <2>11
<1>2. MobileInv /\ SumIsOfReports /\ [MobileNext]_mvars => MobileInv' /\ SumIsOfReports'
  BY MobileNextOK, SumNext DEF MobileInv
<1>3. MobileInit => MobileInv /\ SumIsOfReports
  BY MobileInitOK, SumInit
<1> QED
  BY <1>1, <1>2, <1>3, PTL DEF MobileSpec, StartFollowsReports

(***************************************************************************)
(* The channel's decisions.                                                *)
(***************************************************************************)
LEMMA QuotientBounds ==
    ASSUME NEW x \in Int, NEW d \in Nat \ {0}
    PROVE  /\ x \div d \in Int
           /\ x >= 0 => x \div d >= 0 /\ x \div d =< x
           /\ x < 0 => x =< x \div d /\ x \div d =< 0
  <1> DEFINE q == x \div d
  <1>1. q \in Int /\ q * d =< x /\ x < q * d + d
    OBVIOUS
  <1> HIDE DEF q
  <1>2. ASSUME x >= 0 PROVE q >= 0 /\ q =< x
    <2>1. q >= 0
      BY <1>1, <1>2
    <2>2. q =< q * d
      BY <1>1, <2>1
    <2> QED BY <1>1, <2>1, <2>2
  <1>3. ASSUME x < 0 PROVE x =< q /\ q =< 0
    <2>1. q =< 0
      BY <1>1, <1>3
    <2>2. x =< q
      <3>1. CASE q = 0
        BY <1>3, <3>1
      <3>2. CASE q # 0
        <4>1. -q \in Nat /\ -q >= 1
          BY <1>1, <2>1, <3>2
        <4>2. (-q - 1) * d >= -q - 1
          BY <4>1
        <4>3. q * d + d = -((-q - 1) * d)
          BY <1>1
        <4> QED BY <1>1, <1>3, <4>1, <4>2, <4>3
      <3> QED BY <3>1, <3>2
    <2> QED BY <2>1, <2>2
  <1> QED BY <1>1, <1>2, <1>3 DEF q

(* The fast filter follows a difference further than the slow one does a   *)
(* larger difference, up to how much larger it is.                         *)
LEMMA FollowsFurther ==
    ASSUME NEW x \in Nat, NEW more \in Nat, NEW slow \in Nat \ {0}, NEW fast \in Nat \ {0},
           fast =< slow
    PROVE  (x + more) \div slow =< x \div fast + more
  <1> DEFINE a == (x + more) \div slow
             b == x \div fast
  <1>1. a \in Int /\ a * slow =< x + more
    OBVIOUS
  <1>2. b \in Nat /\ x < b * fast + fast
    BY QuotientBounds
  <1> HIDE DEF a, b
  <1>3. SUFFICES ASSUME a > b + more PROVE FALSE
    BY <1>1, <1>2 DEF a, b
  <1>4. a >= b + more + 1 /\ a \in Nat
    BY <1>1, <1>2, <1>3
  <1>5. a * fast =< a * slow
    BY <1>4
  <1>6. (b + more + 1) * fast =< a * fast
    BY <1>2, <1>4
  <1>7. (b + more + 1) * fast = b * fast + more * fast + fast
    BY <1>2
  <1>8. more * fast >= more
    OBVIOUS
  <1>9. b * fast \in Nat /\ more * fast \in Nat /\ a * fast \in Nat /\ a * slow \in Nat
    BY <1>2, <1>4, ProductNat
  <1> QED BY <1>1, <1>2, <1>5, <1>6, <1>7, <1>8, <1>9

(* Both levels are set by the first energy above EnergyMin, and never fall *)
(* to it again; so neither does the level for speech.                      *)
LevelsInv == /\ farEnergyVAD >= EnergyMin
             /\ farEnergyMin = Unset <=> farEnergyMax = Unset
             /\ farEnergyMin # Unset => farEnergyMin > EnergyMin
             /\ SilenceIsNotSpeech

ChannelInv == ChannelTypeOK /\ LevelsInv

LEMMA ChannelConstants ==
    /\ FarEnergies \subseteq Nat /\ Unset \notin Int
    /\ EnergyMin \in Nat /\ EnergyDiff \in Nat /\ VadRegion \in Nat
    /\ VadReference \in Nat /\ MseMargin \in Nat /\ TopGain \in Nat
    /\ Slow \in Nat \ {0} /\ Fast \in Nat \ {0} /\ Fast =< Slow
    /\ RegionScale \in Nat \ {0} /\ VadUpdates \in Nat \ {0} /\ ConvLen \in Nat \ {0}
    /\ MseCount \in Nat \ {0} /\ ScaleDown \in Nat \ {0} /\ GainStep \in Nat \ {0}
    /\ Sums \subseteq Nat /\ SupGains \subseteq Nat /\ DefaultSupGain \in Nat
    /\ InitialGain \in 0..TopGain
  BY ChannelAssumption

LEMMA ChannelInitOK == ChannelInit => ChannelInv
  <1> SUFFICES ASSUME ChannelInit PROVE ChannelInv
    OBVIOUS
  <1>1. LevelsInv
    BY ChannelConstants DEF ChannelInit, LevelsInv, SilenceIsNotSpeech
  <1>2. supGain \in Nat /\ supGainOld \in Nat
    BY ChannelConstants DEF ChannelInit
  <1>3. {totCount, farLogEnergy, farEnergyMSE, vadUpdateCount, mseChannelCount,
         mseAdaptOld, mseStoredOld, supGain, supGainOld} \subseteq Nat
    BY <1>2 DEF ChannelInit
  <1>4. startupState \in 0..2 /\ farEnergyVAD \in Nat
    BY ChannelConstants DEF ChannelInit
  <1>5. {farEnergyMin, farEnergyMax, mseThreshold} \subseteq Nat \cup {Unset}
    BY DEF ChannelInit
  <1>6. {currentVADValue, firstVAD} \subseteq BOOLEAN
    BY DEF ChannelInit
  <1>7. {channelAdapt16, channelAdapt32, channelStored} \subseteq 0..TopGain
    BY ChannelConstants DEF ChannelInit
  <1>8. LevelsOrdered
    BY DEF ChannelInit, LevelsOrdered
  <1> QED BY <1>1, <1>3, <1>4, <1>5, <1>6, <1>7, <1>8 DEF ChannelInv, ChannelTypeOK

LEMMA RegionNat == \A min \in Int : Region(min) \in Nat
  <1> SUFFICES ASSUME NEW min \in Int PROVE Region(min) \in Nat
    OBVIOUS
  <1>1. CASE min < VadReference
    <2> DEFINE a == (VadReference - min) * VadRegion
    <2>1. VadReference - min \in Nat
      BY <1>1, ChannelConstants
    <2>2. a \in Nat
      BY <2>1, ChannelConstants, ProductNat
    <2>3. Region(min) = VadRegion + (a \div RegionScale)
      BY <1>1 DEF Region
    <2> HIDE DEF a
    <2>4. a \div RegionScale \in Nat
      BY <2>2, ChannelConstants, DivisionBounds
    <2> QED BY <2>3, <2>4, ChannelConstants
  <1>2. CASE ~(min < VadReference)
    BY <1>2, ChannelConstants DEF Region
  <1> QED BY <1>1, <1>2

(* A filtered level stays between itself and the energy it follows.        *)
LEMMA FilterBetween ==
    ASSUME NEW level \in Nat, NEW e \in Nat, level # Unset,
           NEW up \in Nat \ {0}, NEW down \in Nat \ {0}
    PROVE  /\ AsymFilt(level, e, up, down) \in Nat
           /\ level > e => /\ AsymFilt(level, e, up, down) = level - ((level - e) \div down)
                           /\ AsymFilt(level, e, up, down) \in e..level
           /\ ~(level > e) => /\ AsymFilt(level, e, up, down) = level + ((e - level) \div up)
                              /\ AsymFilt(level, e, up, down) \in level..e
  <1>1. CASE level > e
    <2>1. level - e \in Nat
      BY <1>1
    <2> DEFINE q == (level - e) \div down
    <2>2. q \in Int /\ q >= 0 /\ q =< level - e
      BY <2>1, QuotientBounds
    <2>3. AsymFilt(level, e, up, down) = level - q
      BY <1>1 DEF AsymFilt
    <2> HIDE DEF q
    <2> QED BY <1>1, <2>2, <2>3 DEF q
  <1>2. CASE ~(level > e)
    <2>1. e - level \in Nat
      BY <1>2
    <2> DEFINE q == (e - level) \div up
    <2>2. q \in Int /\ q >= 0 /\ q =< e - level
      BY <2>1, QuotientBounds
    <2>3. AsymFilt(level, e, up, down) = level + q
      BY <1>2 DEF AsymFilt
    <2> HIDE DEF q
    <2> QED BY <1>2, <2>2, <2>3 DEF q
  <1> QED BY <1>1, <1>2

(* The two levels keep their order, because the one that is above falls    *)
(* more slowly, and the one below rises more slowly.                       *)
LEMMA FiltersOrdered ==
    ASSUME NEW lo \in Nat, NEW hi \in Nat, lo =< hi, NEW e \in Nat
    PROVE  AsymFilt(lo, e, Slow, Fast) =< AsymFilt(hi, e, Fast, Slow)
  <1> DEFINE l == AsymFilt(lo, e, Slow, Fast)
             h == AsymFilt(hi, e, Fast, Slow)
  <1>0. lo # Unset /\ hi # Unset
    BY ChannelConstants
  <1>1. /\ l \in Nat
        /\ lo > e => l = lo - ((lo - e) \div Fast) /\ l \in e..lo
        /\ ~(lo > e) => l = lo + ((e - lo) \div Slow) /\ l \in lo..e
    BY <1>0, ChannelConstants, FilterBetween
  <1>2. /\ h \in Nat
        /\ hi > e => h = hi - ((hi - e) \div Slow) /\ h \in e..hi
        /\ ~(hi > e) => h = hi + ((e - hi) \div Fast) /\ h \in hi..e
    BY <1>0, ChannelConstants, FilterBetween
  <1> HIDE DEF l, h
  <1>3. CASE lo > e
    <2> DEFINE x == lo - e
               more == hi - lo
    <2>1. x \in Nat /\ more \in Nat /\ x + more = hi - e /\ hi > e
      BY <1>3
    <2>2. ((x + more) \div Slow) =< (x \div Fast) + more
      BY <2>1, ChannelConstants, FollowsFurther
    <2>3. (hi - e) \div Slow =< ((lo - e) \div Fast) + (hi - lo)
      BY <2>1, <2>2
    <2>4. (hi - e) \div Slow \in Int /\ (lo - e) \div Fast \in Int
      BY ChannelConstants, QuotientInt
    <2> HIDE DEF x, more
    <2>5. l = lo - ((lo - e) \div Fast) /\ h = hi - ((hi - e) \div Slow)
      BY <1>1, <1>2, <1>3, <2>1
    <2> DEFINE p == (hi - e) \div Slow
               q == (lo - e) \div Fast
    <2>6. p =< q + (hi - lo) /\ p \in Int /\ q \in Int /\ l = lo - q /\ h = hi - p
      BY <2>3, <2>4, <2>5
    <2> HIDE DEF p, q
    <2>7. l =< h
      BY <2>6
    <2> QED BY <2>7 DEF l, h
  <1>4. CASE ~(lo > e) /\ hi > e
    <2>1. l =< h
      BY <1>1, <1>2, <1>4
    <2> QED BY <2>1 DEF l, h
  <1>5. CASE ~(hi > e)
    <2> DEFINE x == e - hi
               more == hi - lo
    <2>1. x \in Nat /\ more \in Nat /\ x + more = e - lo /\ ~(lo > e)
      BY <1>5
    <2>2. ((x + more) \div Slow) =< (x \div Fast) + more
      BY <2>1, ChannelConstants, FollowsFurther
    <2>3. (e - lo) \div Slow =< ((e - hi) \div Fast) + (hi - lo)
      BY <2>1, <2>2
    <2>4. (e - lo) \div Slow \in Int /\ (e - hi) \div Fast \in Int
      BY ChannelConstants, QuotientInt
    <2> HIDE DEF x, more
    <2>5. l = lo + ((e - lo) \div Slow) /\ h = hi + ((e - hi) \div Fast)
      BY <1>1, <1>2, <1>5, <2>1
    <2> DEFINE p == (e - lo) \div Slow
               q == (e - hi) \div Fast
    <2>6. p =< q + (hi - lo) /\ p \in Int /\ q \in Int /\ l = lo + p /\ h = hi + q
      BY <2>3, <2>4, <2>5
    <2> HIDE DEF p, q
    <2>7. l =< h
      BY <2>6
    <2> QED BY <2>7 DEF l, h
  <1> QED BY <1>3, <1>4, <1>5

(* What a quiet or a loud far end does to the levels.                      *)
LEMMA MinMaxAfter ==
    ASSUME ChannelInv, NEW e \in Nat, e > EnergyMin,
           farEnergyMin' = MinAfter(e), farEnergyMax' = MaxAfter(e)
    PROVE  /\ farEnergyMin' \in Nat /\ farEnergyMax' \in Nat
           /\ farEnergyMin' =< farEnergyMax' /\ farEnergyMin' > EnergyMin
           /\ farEnergyMin' # Unset /\ farEnergyMax' # Unset
  <1>0. /\ Slow \in Nat \ {0} /\ Fast \in Nat \ {0} /\ EnergyMin \in Nat
        /\ \A n \in Nat : n # Unset
    BY ChannelConstants
  <1>1. CASE farEnergyMin = Unset
    <2>1. farEnergyMax = Unset
      BY <1>1 DEF ChannelInv, LevelsInv
    <2>2. farEnergyMin' = e /\ farEnergyMax' = e
      BY <1>1, <2>1 DEF MinAfter, MaxAfter, AsymFilt
    <2> QED BY <1>0, <2>2
  <1>2. CASE farEnergyMin # Unset
    <2>1. farEnergyMax # Unset /\ farEnergyMin > EnergyMin
      BY <1>2 DEF ChannelInv, LevelsInv
    <2>2. farEnergyMin \in Nat /\ farEnergyMax \in Nat /\ farEnergyMin =< farEnergyMax
      BY <1>2, <2>1 DEF ChannelInv, ChannelTypeOK, LevelsOrdered
    <2>3. /\ farEnergyMin' = AsymFilt(farEnergyMin, e, Slow, Fast)
          /\ farEnergyMax' = AsymFilt(farEnergyMax, e, Fast, Slow)
      BY DEF MinAfter, MaxAfter
    <2>4. farEnergyMin' =< farEnergyMax'
      BY <2>2, <2>3, FiltersOrdered
    <2>5. farEnergyMax' \in Nat
      BY <1>0, <2>2, <2>3, FilterBetween
    <2>6. /\ farEnergyMin' \in Nat
          /\ farEnergyMin > e => farEnergyMin' \in e..farEnergyMin
          /\ ~(farEnergyMin > e) => farEnergyMin' \in farEnergyMin..e
      <3> DEFINE l == AsymFilt(farEnergyMin, e, Slow, Fast)
      <3>1. /\ l \in Nat
            /\ farEnergyMin > e => /\ l = farEnergyMin - ((farEnergyMin - e) \div Fast)
                                  /\ l \in e..farEnergyMin
            /\ ~(farEnergyMin > e) => /\ l = farEnergyMin + ((e - farEnergyMin) \div Slow)
                                     /\ l \in farEnergyMin..e
        BY <1>0, <2>2, FilterBetween
      <3> HIDE DEF l
      <3>2. farEnergyMin' = l
        BY <2>3 DEF l
      <3> QED BY <3>1, <3>2
    <2>7. farEnergyMin' > EnergyMin
      BY <1>0, <2>1, <2>2, <2>6
    <2> QED BY <1>0, <2>4, <2>5, <2>6, <2>7
  <1> QED BY <1>1, <1>2

(* The level for speech, whether it restarts from the slowly rising level  *)
(* or falls towards it, stays at or above EnergyMin.                       *)
LEMMA VadLevelOK ==
    ASSUME ChannelInv, NEW e \in Nat, e > EnergyMin,
           farEnergyMin' \in Nat, farEnergyMin' > EnergyMin
    PROVE  VadLevelAfter(e) \in Nat /\ VadLevelAfter(e) >= EnergyMin
  <1> DEFINE r == Region(farEnergyMin')
  <1>0. r \in Nat /\ EnergyMin \in Nat /\ Slow \in Nat \ {0}
    BY RegionNat, ChannelConstants
  <1>1. farEnergyVAD \in Nat /\ farEnergyVAD >= EnergyMin
    BY DEF ChannelInv, ChannelTypeOK, LevelsInv
  <1>2. CASE Halted
    <2>1. VadLevelAfter(e) = farEnergyMin' + r
      BY <1>2 DEF VadLevelAfter
    <2> QED BY <1>0, <2>1
  <1>3. CASE ~Halted /\ farEnergyVAD > e
    <2> DEFINE d == (e + r) - farEnergyVAD
               q == d \div Slow
    <2>0. (e + Region(farEnergyMin')) - farEnergyVAD = e + (Region(farEnergyMin') - farEnergyVAD)
      BY <1>0, <1>1
    <2>1. VadLevelAfter(e) = farEnergyVAD + q
      BY <1>3, <2>0 DEF VadLevelAfter
    <2>2. d \in Int
      BY <1>0, <1>1
    <2> HIDE DEF d
    <2>3. q \in Int /\ (d >= 0 => q >= 0) /\ (d < 0 => d =< q)
      BY <1>0, <2>2, QuotientBounds
    <2> HIDE DEF q
    <2>4. q >= 0 \/ farEnergyVAD + q >= e + r
      BY <1>0, <1>1, <2>2, <2>3 DEF d
    <2> QED BY <1>0, <1>1, <2>1, <2>3, <2>4
  <1>4. CASE ~Halted /\ ~(farEnergyVAD > e)
    <2>1. VadLevelAfter(e) = farEnergyVAD
      BY <1>4 DEF VadLevelAfter
    <2> QED BY <1>1, <2>1
  <1> QED BY <1>2, <1>3, <1>4

LEMMA CalcEnergiesOK ==
    ASSUME ChannelInv, NEW e \in FarEnergies, CalcEnergies(e)
    PROVE  /\ LevelsInv' /\ LevelsOrdered'
           /\ {farLogEnergy', farEnergyMSE', vadUpdateCount', farEnergyVAD'} \subseteq Nat
           /\ {farEnergyMin', farEnergyMax'} \subseteq Nat \cup {Unset}
           /\ currentVADValue' \in BOOLEAN
  <1>0. e \in Nat /\ EnergyMin \in Nat /\ MseMargin \in Nat /\ Unset \notin Nat
    BY ChannelConstants
  <1>1. /\ farEnergyVAD \in Nat /\ farEnergyVAD >= EnergyMin
        /\ vadUpdateCount \in Nat /\ farEnergyMSE \in Nat
        /\ {farEnergyMin, farEnergyMax} \subseteq Nat \cup {Unset}
        /\ farEnergyMin = Unset <=> farEnergyMax = Unset
        /\ farEnergyMin # Unset => farEnergyMin > EnergyMin
        /\ LevelsOrdered
    BY DEF ChannelInv, ChannelTypeOK, LevelsInv
  <1>2. farLogEnergy' = e /\ currentVADValue' = VadAfter(e)
    BY DEF CalcEnergies
  <1>3. currentVADValue' \in BOOLEAN
    BY <1>2 DEF VadAfter
  <1>4. currentVADValue' => e > farEnergyVAD'
    BY <1>2 DEF VadAfter
  <1>5. CASE e > EnergyMin
    <2>1. UpdateLevels(e)
      BY <1>5 DEF CalcEnergies
    <2>2. /\ farEnergyMin' \in Nat /\ farEnergyMax' \in Nat
          /\ farEnergyMin' =< farEnergyMax' /\ farEnergyMin' > EnergyMin
          /\ farEnergyMin' # Unset /\ farEnergyMax' # Unset
      BY <1>0, <1>5, <2>1, MinMaxAfter DEF UpdateLevels
    <2>3. farEnergyVAD' \in Nat /\ farEnergyVAD' >= EnergyMin
      BY <1>0, <1>5, <2>1, <2>2, VadLevelOK DEF UpdateLevels
    <2>4. farEnergyMSE' \in Nat
      BY <1>0, <2>1, <2>3 DEF UpdateLevels
    <2>5. vadUpdateCount' \in Nat
      BY <1>1, <2>1 DEF UpdateLevels
    <2>6. LevelsOrdered'
      BY <2>2 DEF LevelsOrdered
    <2>7. SilenceIsNotSpeech'
      BY <1>0, <1>2, <1>5 DEF SilenceIsNotSpeech
    <2>8. LevelsInv'
      BY <2>2, <2>3, <2>7 DEF LevelsInv
    <2> QED BY <1>0, <1>2, <1>3, <2>2, <2>3, <2>4, <2>5, <2>6, <2>8
  <1>6. CASE ~(e > EnergyMin)
    <2>1. /\ farEnergyMin' = farEnergyMin /\ farEnergyMax' = farEnergyMax
          /\ farEnergyVAD' = farEnergyVAD /\ farEnergyMSE' = farEnergyMSE
          /\ vadUpdateCount' = vadUpdateCount
      BY <1>6 DEF CalcEnergies
    <2>2. ~currentVADValue'
      BY <1>0, <1>1, <1>4, <1>6, <2>1
    <2>3. LevelsInv'
      BY <1>1, <2>1, <2>2 DEF LevelsInv, SilenceIsNotSpeech
    <2>4. LevelsOrdered'
      BY <1>1, <2>1 DEF LevelsOrdered
    <2> QED BY <1>0, <1>1, <1>2, <1>3, <2>1, <2>3, <2>4
  <1> QED BY <1>5, <1>6

(* The 16-bit channel, scaled down or adapted, and the 32-bit one stay     *)
(* within the largest gain.                                                *)
LEMMA AdaptOK ==
    ASSUME ChannelInv, NEW delta \in -1..1, NEW aggressive \in BOOLEAN
    PROVE  /\ NewAdapt32(delta) \in 0..TopGain
           /\ NewAdapt16(delta, aggressive) \in 0..TopGain
  <1>0. /\ TopGain \in Nat /\ ScaleDown \in Nat \ {0}
        /\ channelAdapt16 \in 0..TopGain /\ channelAdapt32 \in 0..TopGain
    BY ChannelConstants DEF ChannelInv, ChannelTypeOK
  <1>1. Adapted(delta) \in 0..TopGain
    BY <1>0 DEF Adapted
  <1>2. channelAdapt16 \div ScaleDown \in 0..TopGain
    BY <1>0, QuotientBounds
  <1> QED BY <1>0, <1>1, <1>2 DEF NewAdapt32, NewAdapt16

(* The threshold moves towards 5 / 8 of itself at most as far as that.     *)
LEMMA ThresholdOK ==
    ASSUME ChannelInv, NEW adapt \in Nat
    PROVE  ThresholdAfter(adapt) \in Nat
  <1>0. mseThreshold \in Nat \cup {Unset} /\ mseAdaptOld \in Nat
    BY DEF ChannelInv, ChannelTypeOK
  <1>1. CASE mseThreshold = Unset
    BY <1>0, <1>1 DEF ThresholdAfter
  <1>2. CASE mseThreshold # Unset
    <2>1. mseThreshold \in Nat
      BY <1>0, <1>2
    <2> DEFINE b == (5 * mseThreshold) \div 8
               q == ((adapt - b) * 205) \div 256
    <2>2. b \in Nat /\ b =< mseThreshold
      BY <2>1
    <2>3. ThresholdAfter(adapt) = mseThreshold + q
      BY <1>2 DEF ThresholdAfter
    <2> HIDE DEF b
    <2>4. q \in Int /\ q >= -b
      BY <2>2
    <2> HIDE DEF q
    <2> QED BY <2>1, <2>2, <2>3, <2>4
  <1> QED BY <1>1, <1>2

ChannelTypes == /\ {channelAdapt16, channelAdapt32, channelStored} \subseteq 0..TopGain
                /\ {mseChannelCount, mseAdaptOld, mseStoredOld} \subseteq Nat
                /\ mseThreshold \in Nat \cup {Unset}

LEMMA UpdateChannelOK ==
    ASSUME ChannelInv, NEW delta \in -1..1, NEW aggressive \in BOOLEAN,
           UpdateChannel(delta, aggressive)
    PROVE  ChannelTypes'
  <1>0. /\ channelAdapt16 \in 0..TopGain /\ channelAdapt32 \in 0..TopGain
        /\ channelStored \in 0..TopGain /\ mseChannelCount \in Nat
        /\ mseAdaptOld \in Nat /\ mseStoredOld \in Nat
        /\ mseThreshold \in Nat \cup {Unset}
    BY DEF ChannelInv, ChannelTypeOK
  <1>1. /\ NewAdapt32(delta) \in 0..TopGain
        /\ NewAdapt16(delta, aggressive) \in 0..TopGain
    BY AdaptOK
  <1>2. CountAfter \in Nat
    BY <1>0 DEF CountAfter
  <1>3. CASE StoreAtStartup(delta, aggressive)
    BY <1>0, <1>1, <1>3 DEF StoreAtStartup, SetChannels, mse, ChannelTypes
  <1>4. CASE Wait(delta, aggressive)
    BY <1>0, <1>1, <1>2, <1>4 DEF Wait, SetChannels, ChannelTypes
  <1>5. CASE \E stored, adapt \in Sums : Compare(delta, aggressive, stored, adapt)
    <2>1. PICK stored \in Sums, adapt \in Sums : Compare(delta, aggressive, stored, adapt)
      BY <1>5
    <2>2. stored \in Nat /\ adapt \in Nat
      BY ChannelConstants
    <2>3. ThresholdAfter(adapt) \in Nat
      BY <2>2, ThresholdOK
    <2>4. {channelAdapt16', channelAdapt32', channelStored'} \subseteq 0..TopGain
      <3>1. CASE ResetsChannel(stored, adapt)
        BY <1>0, <1>1, <2>1, <3>1 DEF Compare, SetChannels, StoresChannel
      <3>2. CASE StoresChannel(stored, adapt)
        BY <1>0, <1>1, <2>1, <3>2 DEF Compare, SetChannels, StoresChannel
      <3>3. CASE ~ResetsChannel(stored, adapt) /\ ~StoresChannel(stored, adapt)
        BY <1>0, <1>1, <2>1, <3>3 DEF Compare, SetChannels
      <3> QED BY <3>1, <3>2, <3>3
    <2> QED BY <1>0, <2>1, <2>2, <2>3, <2>4 DEF Compare, ChannelTypes
  <1> QED BY <1>3, <1>4, <1>5 DEF UpdateChannel

(* The gain moves towards its target, never past it.                       *)
LEMMA SuppressionOK ==
    ASSUME ChannelInv, NEW gain \in Nat, CalcSuppressionGain(gain)
    PROVE  supGain' \in Nat /\ supGainOld' \in Nat
  <1> DEFINE target == IF gain > supGainOld THEN gain ELSE supGainOld
             q == (target - supGain) \div GainStep
  <1>1. supGain \in Nat /\ supGainOld \in Nat /\ GainStep \in Nat \ {0}
    BY ChannelConstants DEF ChannelInv, ChannelTypeOK
  <1>2. supGain' = supGain + q /\ supGainOld' = gain
    BY DEF CalcSuppressionGain, Followed
  <1>3. target \in Nat
    BY <1>1
  <1> HIDE DEF target
  <1>4. /\ q \in Int /\ (target - supGain >= 0 => q >= 0)
        /\ (target - supGain < 0 => target - supGain =< q)
    BY <1>1, <1>3, QuotientBounds
  <1> HIDE DEF q
  <1> QED BY <1>1, <1>2, <1>3, <1>4

LEMMA ProcessBlockOK == ChannelInv /\ [ProcessBlock]_cvars => ChannelInv'
  <1> SUFFICES ASSUME ChannelInv, [ProcessBlock]_cvars PROVE ChannelInv'
    OBVIOUS
  <1>1. CASE ProcessBlock
    <2>1. startupState' \in 0..2
      BY <1>1 DEF ProcessBlock
    <2>2. totCount' \in Nat
      BY <1>1 DEF ProcessBlock, ChannelInv, ChannelTypeOK
    <2>3. PICK e \in FarEnergies : CalcEnergies(e)
      BY <1>1 DEF ProcessBlock
    <2>4. /\ LevelsInv' /\ LevelsOrdered'
          /\ {farLogEnergy', farEnergyMSE', vadUpdateCount', farEnergyVAD'} \subseteq Nat
          /\ {farEnergyMin', farEnergyMax'} \subseteq Nat \cup {Unset}
          /\ currentVADValue' \in BOOLEAN
      BY <2>3, CalcEnergiesOK
    <2>5. PICK aggressive \in BOOLEAN, delta \in -1..1 :
             /\ firstVAD' = (firstVAD /\ (currentVADValue' => aggressive))
             /\ UpdateChannel(delta, aggressive)
      BY <1>1 DEF ProcessBlock
    <2>6. ChannelTypes'
      BY <2>5, UpdateChannelOK
    <2>7. firstVAD' \in BOOLEAN
      BY <2>5
    <2>8. PICK gain \in Nat : CalcSuppressionGain(gain)
      BY <1>1, ChannelConstants DEF ProcessBlock
    <2>9. supGain' \in Nat /\ supGainOld' \in Nat
      BY <2>8, SuppressionOK
    <2> QED BY <2>1, <2>2, <2>4, <2>6, <2>7, <2>9
            DEF ChannelInv, ChannelTypeOK, ChannelTypes
  <1>2. CASE UNCHANGED cvars
    BY <1>2 DEF cvars, levels, mse, ChannelInv, ChannelTypeOK, LevelsInv,
                LevelsOrdered, SilenceIsNotSpeech
  <1> QED BY <1>1, <1>2

(* The decisions' state has its type, and the slowly rising level never    *)
(* crosses the slowly falling one, whatever energies the far end has.      *)
THEOREM ChannelTypeCorrect == ChannelSpec => []ChannelTypeOK
  <1>1. ChannelInv => ChannelTypeOK
    BY DEF ChannelInv
  <1> QED BY <1>1, ChannelInitOK, ProcessBlockOK, PTL DEF ChannelSpec

(* A far end at or below EnergyMin is never speech: the level for speech   *)
(* is only set while the slowly rising level is above it.                  *)
THEOREM SilenceNeverSpeech == ChannelSpec => []SilenceIsNotSpeech
  <1>1. ChannelInv => SilenceIsNotSpeech
    BY DEF ChannelInv, LevelsInv
  <1> QED BY <1>1, ChannelInitOK, ProcessBlockOK, PTL DEF ChannelSpec

(***************************************************************************)
(* The analog gain controller.                                             *)
(***************************************************************************)
\* The gains of the digital compressor.
Compressions == MinCompression .. MaxCompression + SurplusCompression

AgcRecord ==
    [level : Levels, stream : StreamLevels \cup Levels,
     max_level : ClippedLevelMin .. MaxMicLevel,
     target : Compressions, compression : Compressions, accumulator : Int,
     check_volume : BOOLEAN, startup : BOOLEAN,
     updates : 0 .. AnalysisFrames, fresh : 0 .. AnalysisFrames]

\* The accumulator has not moved by a whole step away from the gain in use.
NearCompression(acc, compression) ==
    /\ StepsPerDb * compression - StepsPerDb < acc
    /\ acc < StepsPerDb * compression + StepsPerDb

\* The loudness is never measured from before a position was taken over.
AgcOK(a) == /\ a \in AgcRecord
            /\ NearCompression(a.accumulator, a.compression)
            /\ a.updates =< a.fresh

AgcInv == /\ AgcOK(agc)
          /\ frames_since_clipped \in 0 .. ClippedWaitFrames
          /\ capture_muted \in BOOLEAN

LEMMA AgcConstants ==
    /\ MaxMicLevel \in Nat \ {0} /\ ClippedLevelStep \in Nat \ {0}
    /\ StepsPerDb \in Nat \ {0} /\ Chunk \in Nat \ {0}
    /\ MinMicLevel \in Levels /\ StartupMinLevel \in Levels /\ ClippedLevelMin \in Levels
    /\ ClippedLevelMin < MaxMicLevel
    /\ ClippedWaitFrames \in Nat /\ LevelQuantizationSlack \in Nat
    /\ MinCompression \in Nat /\ SurplusCompression \in Nat /\ MaxResidualGainChange \in Nat
    /\ GainMap \in [Levels -> Int]
    /\ DefaultCompression \in Nat /\ MaxCompression \in Nat
    /\ MinCompression =< DefaultCompression /\ DefaultCompression =< MaxCompression
    /\ AnalysisFrames \in Nat /\ Chunk < AnalysisFrames
    /\ RmsErrors \subseteq Int /\ StreamLevels \subseteq Int
BY AgcAssumption

\* The least and the greatest of some levels are levels.
LEMMA LeastLevel ==
    ASSUME NEW S \in SUBSET Levels, S # {}
    PROVE  Min(S) \in S
<1>1. S \in SUBSET Nat
  BY AgcConstants, SMT DEF Levels
<1>2. \E n \in S : \A m \in S : n =< m
  BY <1>1, LeastNatural
<1> QED
  BY <1>2 DEF Min

LEMMA GreatestLevel ==
    ASSUME NEW S \in SUBSET Levels, S # {}
    PROVE  Max(S) \in S
<1> DEFINE T == {MaxMicLevel - n : n \in S}
<1>1. \A n \in S : n \in Nat /\ MaxMicLevel - n \in Nat
  BY AgcConstants, SMT DEF Levels
<1>2. T \in SUBSET Nat /\ T # {}
  BY <1>1
<1>3. PICK t \in T : \A u \in T : t =< u
  <2> HIDE DEF T
  <2> QED
    BY <1>2, LeastNatural
<1>4. PICK n \in S : t = MaxMicLevel - n
  BY <1>3
<1>5. ASSUME NEW m \in S PROVE n >= m
  <2>1. MaxMicLevel - m \in T
    OBVIOUS
  <2>2. MaxMicLevel - n =< MaxMicLevel - m
    BY <1>3, <1>4, <2>1
  <2> QED
    BY <1>1, <2>2, AgcConstants, SMT
<1> QED
  BY <1>5 DEF Max

LEMMA NewLevelInRange ==
    ASSUME NEW error \in Int, NEW level \in Levels
    PROVE  LevelFromGainError(error, level) \in Levels
<1>1. /\ \A n \in level .. MaxMicLevel : n \in Levels
      /\ \A n \in MinMicLevel .. level : n \in Levels
      /\ MaxMicLevel \in Levels
  BY AgcConstants, SMT DEF Levels
<1>2. Smaller2(level, MinMicLevel) \in Levels
  BY AgcConstants DEF Smaller2
<1> DEFINE Up == {n \in level .. MaxMicLevel : GainMap[n] - GainMap[level] >= error}
                    \cup {MaxMicLevel}
           Down == {n \in MinMicLevel .. level : GainMap[n] - GainMap[level] <= error}
                      \cup {Smaller2(level, MinMicLevel)}
<1>3. Up \in SUBSET Levels /\ Up # {} /\ Down \in SUBSET Levels /\ Down # {}
  BY <1>1, <1>2
<1> HIDE DEF Up, Down
<1>4. Min(Up) \in Levels /\ Max(Down) \in Levels
  BY <1>3, LeastLevel, GreatestLevel
<1> QED
  BY <1>4 DEF LevelFromGainError, Up, Down

\* The range of the compression grows with what clipping took from the level,
\* up to the surplus.
LEMMA SurplusBounds ==
    ASSUME NEW d \in Nat \ {0}, NEW x \in 0 .. d, NEW s \in Nat
    PROVE  (2 * x * s + d) \div (2 * d) \in 0 .. s
<1>1. /\ x * s \in Nat /\ x * s =< d * s /\ d * s \in Nat
  <2>1. d * s - x * s = (d - x) * s
    BY SMT
  <2>2. (d - x) * s \in Nat /\ x * s \in Nat /\ d * s \in Nat
    BY SMT
  <2> QED
    BY <2>1, <2>2, SMT
<1> DEFINE a == 2 * x * s + d
           q == a \div (2 * d)
<1>2. a \in Nat /\ a =< 2 * (d * s) + d
  BY <1>1, SMT
<1>3. q \in Nat /\ 2 * d * q =< a
  <2>1. 2 * d \in Nat \ {0}
    BY SMT
  <2> HIDE DEF a
  <2> QED
    BY <1>2, <2>1, SMT
<1>4. q =< s
  <2> HIDE DEF a, q
  <2>1. CASE q >= s + 1
    <3>1. 2 * d * q >= 2 * d * (s + 1)
      <4>1. 2 * d * q - 2 * d * (s + 1) = 2 * d * (q - (s + 1))
        BY <1>3, SMT
      <4>2. q - (s + 1) \in Nat /\ 2 * d \in Nat
        BY <1>3, <2>1, SMT
      <4>3. 2 * d * (q - (s + 1)) \in Nat
        BY <4>2, SMT
      <4> QED
        BY <1>3, <4>1, <4>3, SMT
    <3>2. 2 * d * (s + 1) = 2 * (d * s) + 2 * d
      BY SMT
    <3> QED
      BY <1>1, <1>2, <1>3, <3>1, <3>2, SMT
  <2> QED
    BY <1>3, <2>1, SMT
<1> QED
  BY <1>3, <1>4, SMT

LEMMA MaxGainInRange ==
    ASSUME NEW m \in ClippedLevelMin .. MaxMicLevel
    PROVE  MaxGain(m) \in MaxCompression .. MaxCompression + SurplusCompression
<1> DEFINE d == MaxMicLevel - ClippedLevelMin
           x == MaxMicLevel - m
           g == (2 * x * SurplusCompression + d) \div (2 * d)
<1>1. d \in Nat \ {0} /\ x \in 0 .. d
  BY AgcConstants, SMT DEF Levels
<1>2. g \in 0 .. SurplusCompression
  <2> HIDE DEF d, x
  <2> QED
    BY <1>1, AgcConstants, SurplusBounds
<1>3. MaxGain(m) = MaxCompression + g
  <2>1. 2 * x * SurplusCompression + d
          = 2 * x * SurplusCompression + MaxMicLevel - ClippedLevelMin
    <3> DEFINE p == 2 * x * SurplusCompression
    <3>1. p \in Int
      <4> HIDE DEF x
      <4> QED
        BY <1>1, AgcConstants, SMT
    <3> HIDE DEF p
    <3>2. p + d = p + MaxMicLevel - ClippedLevelMin
      BY <3>1, AgcConstants, SMT DEF Levels
    <3> QED
      BY <3>2 DEF p
  <2> QED
    BY <2>1 DEF MaxGain
<1> HIDE DEF g
<1> QED
  BY <1>2, <1>3, AgcConstants, SMT

LEMMA HalvedBetween ==
    ASSUME NEW x \in Int
    PROVE  /\ x >= 0 => Halved(x) \in 0 .. x
           /\ x =< 0 => Halved(x) \in x .. 0
           /\ Halved(x) \in Int
BY SMT DEF Halved

LEMMA TargetInRange ==
    ASSUME NEW m \in ClippedLevelMin .. MaxMicLevel, NEW target \in Compressions,
           NEW error \in Int
    PROVE  NewTarget(Clamp(error, MinCompression, MaxGain(m)), target, MaxGain(m))
             \in Compressions
<1> DEFINE max == MaxGain(m)
           raw == Clamp(error, MinCompression, max)
<1>1. max \in MaxCompression .. MaxCompression + SurplusCompression
  BY MaxGainInRange
<1>2. raw \in Compressions
  BY <1>1, AgcConstants, SMT DEF Clamp, Compressions
<1> HIDE DEF max, raw
<1>3. Halved(raw - target) + target \in Compressions
  <2>1. raw \in Int /\ target \in Int /\ raw - target \in Int
    BY <1>2, AgcConstants, SMT DEF Compressions
  <2>2. /\ raw - target >= 0 => Halved(raw - target) \in 0 .. raw - target
        /\ raw - target =< 0 => Halved(raw - target) \in raw - target .. 0
    BY <2>1, HalvedBetween
  <2> QED
    BY <1>2, <2>1, <2>2, AgcConstants, SMT DEF Compressions
<1> QED
  BY <1>2, <1>3 DEF NewTarget, max, raw

\* The slider.
LEMMA SetLevelOK ==
    ASSUME NEW a, AgcOK(a), NEW new_level \in Levels
    PROVE  LET b == SetLevel(a, new_level)
           IN  /\ AgcOK(b)
               /\ b.check_volume = a.check_volume
               /\ b.stream # a.stream => ~MovedByUser(a) /\ b.fresh = a.fresh
<1> DEFINE b == SetLevel(a, new_level)
           new == Smaller2(new_level, a.max_level)
<1>0. a \in AgcRecord /\ NearCompression(a.accumulator, a.compression) /\ a.updates =< a.fresh
  BY DEF AgcOK
<1>1. new \in Levels
  BY <1>0, AgcConstants, SMT DEF Smaller2, Levels, AgcRecord
<1>2. CASE a.stream = 0 \/ a.stream \notin Levels
  BY <1>0, <1>2 DEF SetLevel, AgcOK
<1>3. CASE ~(a.stream = 0 \/ a.stream \notin Levels) /\ MovedByUser(a)
  <2>1. b = TakenOver(a) /\ a.stream \in Levels
    BY <1>3 DEF SetLevel
  <2>2. Larger2(a.max_level, a.stream) \in ClippedLevelMin .. MaxMicLevel
    BY <1>0, <2>1, AgcConstants, SMT DEF Larger2, Levels, AgcRecord
  <2>3. 0 \in 0 .. AnalysisFrames /\ 0 =< 0
    BY AgcConstants, SMT
  <2>4. TakenOver(a) \in AgcRecord
    BY <1>0, <2>1, <2>2, <2>3 DEF TakenOver, AgcRecord
  <2>5. /\ TakenOver(a).accumulator = a.accumulator /\ TakenOver(a).updates = 0
        /\ TakenOver(a).compression = a.compression /\ TakenOver(a).fresh = 0
        /\ TakenOver(a).check_volume = a.check_volume /\ TakenOver(a).stream = a.stream
    BY <1>0 DEF TakenOver, AgcRecord
  <2> QED
    BY <1>0, <2>1, <2>3, <2>4, <2>5 DEF AgcOK
<1>4. CASE ~(a.stream = 0 \/ a.stream \notin Levels) /\ ~MovedByUser(a)
  <2>1. b = a \/ b = [a EXCEPT !.stream = new, !.level = new]
    BY <1>4 DEF SetLevel
  <2>2. CASE b = a
    BY <1>0, <2>2 DEF AgcOK
  <2>3. CASE b = [a EXCEPT !.stream = new, !.level = new]
    <3> HIDE DEF b, new
    <3>1. b \in AgcRecord
      BY <1>0, <1>1, <2>3 DEF AgcRecord
    <3>2. /\ b.accumulator = a.accumulator /\ b.compression = a.compression
          /\ b.updates = a.updates /\ b.fresh = a.fresh /\ b.check_volume = a.check_volume
      BY <1>0, <2>3 DEF AgcRecord
    <3>3. AgcOK(b)
      BY <1>0, <3>1, <3>2 DEF AgcOK
    <3> QED
      BY <1>4, <3>2, <3>3 DEF b
  <2> QED
    BY <2>1, <2>2, <2>3
<1> QED
  BY <1>2, <1>3, <1>4

\* Forgetting the loudness measured keeps what is known of the channel.
LEMMA ForgetOK ==
    ASSUME NEW a, AgcOK(a)
    PROVE  /\ AgcOK([a EXCEPT !.updates = 0])
           /\ [a EXCEPT !.updates = 0].updates = 0
           /\ [a EXCEPT !.updates = 0].stream = a.stream
           /\ [a EXCEPT !.updates = 0].check_volume = a.check_volume
<1> DEFINE b == [a EXCEPT !.updates = 0]
<1>0. a \in AgcRecord /\ NearCompression(a.accumulator, a.compression)
  BY DEF AgcOK
<1>1. 0 \in 0 .. AnalysisFrames
  BY AgcConstants, SMT
<1>2. b \in AgcRecord
  BY <1>0, <1>1 DEF AgcRecord
<1>3. /\ b.accumulator = a.accumulator /\ b.compression = a.compression
      /\ b.updates = 0 /\ b.fresh = a.fresh /\ b.stream = a.stream
      /\ b.check_volume = a.check_volume
  BY <1>0 DEF AgcRecord
<1> HIDE DEF b
<1>4. b.updates =< b.fresh
  BY <1>2, <1>3, AgcConstants, SMT DEF AgcRecord
<1>5. AgcOK(b)
  BY <1>0, <1>2, <1>3, <1>4 DEF AgcOK
<1> QED
  BY <1>3, <1>5 DEF b

\* Clipping lowers a level or takes the user's over; above the level that it
\* spares the loudness is measured anew.
LEMMA HandleClippingOK ==
    ASSUME NEW a, AgcOK(a)
    PROVE  LET b == HandleClipping(a)
           IN  /\ AgcOK(b)
               /\ b.check_volume = a.check_volume
               /\ MovedByUser(a) =>
                    /\ b.stream = a.stream
                    /\ b.updates = 0 \/ MovedByUser(b)
<1> DEFINE max == Larger2(ClippedLevelMin, a.max_level - ClippedLevelStep)
           c == [a EXCEPT !.max_level = max]
           n == Larger2(ClippedLevelMin, a.level - ClippedLevelStep)
<1>0. a \in AgcRecord /\ NearCompression(a.accumulator, a.compression) /\ a.updates =< a.fresh
  BY DEF AgcOK
<1>1. max \in ClippedLevelMin .. MaxMicLevel /\ n \in Levels
  <2>1. /\ a.level \in 0 .. MaxMicLevel /\ a.max_level \in ClippedLevelMin .. MaxMicLevel
        /\ ClippedLevelMin \in 0 .. MaxMicLevel /\ MaxMicLevel \in Nat
        /\ ClippedLevelStep \in Nat
    BY <1>0, AgcConstants DEF Levels, AgcRecord
  <2>2. max \in ClippedLevelMin .. MaxMicLevel
    BY <2>1, SMT DEF Larger2
  <2>3. n \in 0 .. MaxMicLevel
    BY <2>1, SMT DEF Larger2
  <2> QED
    BY <2>2, <2>3 DEF Levels
<1>2. /\ c \in AgcRecord
      /\ c.accumulator = a.accumulator /\ c.compression = a.compression
      /\ c.updates = a.updates /\ c.fresh = a.fresh /\ c.check_volume = a.check_volume
      /\ c.stream = a.stream /\ c.level = a.level
  <2> HIDE DEF max
  <2> QED
    BY <1>0, <1>1 DEF AgcRecord
<1>3. HandleClipping(a) = IF a.level > ClippedLevelMin
                          THEN [SetLevel(c, n) EXCEPT !.updates = 0] ELSE c
  BY DEF HandleClipping
<1> HIDE DEF c, n, max
<1>4. AgcOK(c) /\ (MovedByUser(a) <=> MovedByUser(c))
  BY <1>0, <1>2 DEF AgcOK, MovedByUser
<1>5. /\ AgcOK(SetLevel(c, n))
      /\ SetLevel(c, n).check_volume = c.check_volume
      /\ SetLevel(c, n).stream # c.stream => ~MovedByUser(c)
  BY <1>1, <1>4, SetLevelOK
<1>6. CASE a.level > ClippedLevelMin
  <2> DEFINE d == SetLevel(c, n)
             e == [d EXCEPT !.updates = 0]
  <2>1. HandleClipping(a) = e
    BY <1>3, <1>6
  <2> HIDE DEF d
  <2>2. AgcOK(e) /\ e.updates = 0 /\ e.stream = d.stream /\ e.check_volume = d.check_volume
    BY <1>5, ForgetOK DEF d
  <2> HIDE DEF e
  <2> QED
    BY <1>2, <1>4, <1>5, <2>1, <2>2 DEF d
<1>7. CASE ~(a.level > ClippedLevelMin)
  BY <1>2, <1>3, <1>4, <1>7
<1> QED
  BY <1>6, <1>7

LEMMA CheckVolumeOK ==
    ASSUME NEW a, AgcOK(a)
    PROVE  /\ AgcOK(Checked(a))
           /\ ~a.check_volume => Checked(a) = a
<1>0. a \in AgcRecord /\ NearCompression(a.accumulator, a.compression) /\ a.updates =< a.fresh
  BY DEF AgcOK
<1>1. CASE ~a.check_volume
  BY <1>1 DEF Checked
<1>2. CASE a.check_volume
  <2> DEFINE c == [a EXCEPT !.check_volume = FALSE]
             minLevel == IF c.startup THEN StartupMinLevel ELSE MinMicLevel
             raised == Larger2(c.stream, minLevel)
  <2>1. Checked(a) = CheckVolumeAndReset(c)
    BY <1>2 DEF Checked
  <2>2. /\ c \in AgcRecord
        /\ c.accumulator = a.accumulator /\ c.compression = a.compression
        /\ c.updates = a.updates /\ c.fresh = a.fresh
    BY <1>0 DEF AgcRecord
  <2> HIDE DEF c
  <2>3. AgcOK(c)
    BY <1>0, <2>2 DEF AgcOK
  <2>4. CASE (c.stream = 0 /\ ~c.startup) \/ c.stream \notin Levels
    BY <1>2, <2>1, <2>3, <2>4 DEF CheckVolumeAndReset
  <2>5. CASE ~((c.stream = 0 /\ ~c.startup) \/ c.stream \notin Levels)
    <3> DEFINE d == [c EXCEPT !.stream = raised, !.level = raised, !.startup = FALSE,
                              !.updates = 0, !.fresh = 0]
    <3>1. CheckVolumeAndReset(c) = d
      BY <2>5 DEF CheckVolumeAndReset
    <3>2. raised \in Levels
      BY <2>5, AgcConstants, SMT DEF Larger2, Levels
    <3>3. 0 \in 0 .. AnalysisFrames /\ 0 =< 0
      BY AgcConstants, SMT
    <3> HIDE DEF raised
    <3>4. /\ d \in AgcRecord /\ d.updates = 0 /\ d.fresh = 0
          /\ d.accumulator = c.accumulator /\ d.compression = c.compression
      BY <2>2, <3>2, <3>3 DEF AgcRecord
    <3> HIDE DEF d
    <3>5. AgcOK(d)
      BY <1>0, <2>2, <3>3, <3>4 DEF AgcOK
    <3> QED
      BY <1>2, <2>1, <3>1, <3>5
  <2> QED
    BY <2>4, <2>5
<1> QED
  BY <1>0, <1>1, <1>2 DEF AgcOK

LEMMA MeasuredOK ==
    ASSUME NEW a, AgcOK(a), NEW n \in {0, Chunk}
    PROVE  LET b == Measured(a, n)
           IN  /\ AgcOK(b)
               /\ b.stream = a.stream /\ b.level = a.level
               /\ b.check_volume = a.check_volume
               /\ a.updates = 0 => b.updates < AnalysisFrames
<1> DEFINE u == Smaller2(AnalysisFrames, a.updates + n)
           f == Smaller2(AnalysisFrames, a.fresh + n)
           b == [a EXCEPT !.updates = u, !.fresh = f]
<1>0. a \in AgcRecord /\ NearCompression(a.accumulator, a.compression) /\ a.updates =< a.fresh
  BY DEF AgcOK
<1>1. /\ u \in 0 .. AnalysisFrames /\ f \in 0 .. AnalysisFrames /\ u =< f
      /\ a.updates = 0 => u < AnalysisFrames
  BY <1>0, AgcConstants, SMT DEF Smaller2, AgcRecord
<1> HIDE DEF u, f
<1>2. /\ b \in AgcRecord
      /\ b.accumulator = a.accumulator /\ b.compression = a.compression
      /\ b.updates = u /\ b.fresh = f /\ b.stream = a.stream /\ b.level = a.level
      /\ b.check_volume = a.check_volume
  BY <1>0, <1>1 DEF AgcRecord
<1> HIDE DEF b
<1>3. AgcOK(b)
  BY <1>0, <1>1, <1>2 DEF AgcOK
<1>4. Measured(a, n) = b
  BY DEF Measured, b, u, f
<1> QED
  BY <1>1, <1>2, <1>3, <1>4

\* A slider that the loudness moves was not moved by the user, and the loudness
\* was measured long enough.
LEMMA HeardOK ==
    ASSUME NEW a, AgcOK(a), NEW e \in RmsErrors, NEW b \in Heard(a, e)
    PROVE  /\ AgcOK(b)
           /\ b.stream # a.stream =>
                 ~MovedByUser(a) /\ a.updates >= AnalysisFrames /\ b.fresh >= AnalysisFrames
<1>0. a \in AgcRecord /\ NearCompression(a.accumulator, a.compression) /\ a.updates =< a.fresh
  BY DEF AgcOK
<1>1. CASE b = a
  BY <1>1
<1>2. CASE b # a
  <2> DEFINE error == e + MinCompression
             max == MaxGain(a.max_level)
             raw == Clamp(error, MinCompression, max)
             residual == Clamp(error - raw, -MaxResidualGainChange, MaxResidualGainChange)
             target == NewTarget(raw, a.target, max)
             heard == [a EXCEPT !.updates = 0, !.target = target]
  <2>1. b = UpdateGain(a, e) /\ a.updates >= AnalysisFrames
    BY <1>2 DEF Heard
  <2>2. b = IF residual = 0 THEN heard ELSE SetLevel(heard, LevelFromGainError(residual, a.level))
    BY <2>1 DEF UpdateGain
  <2>3. error \in Int /\ max \in MaxCompression .. MaxCompression + SurplusCompression
        /\ target \in Compressions
    BY <1>0, AgcConstants, MaxGainInRange, TargetInRange DEF AgcRecord
  <2> HIDE DEF error, max, target
  <2>4. raw \in Int
    BY <2>3, AgcConstants, SMT DEF Clamp
  <2> HIDE DEF raw
  <2>5. residual \in Int
    BY <2>3, <2>4, AgcConstants, SMT DEF Clamp
  <2> HIDE DEF residual
  <2>6. 0 \in 0 .. AnalysisFrames
    BY AgcConstants, SMT
  <2>7. /\ heard \in AgcRecord
        /\ heard.accumulator = a.accumulator /\ heard.compression = a.compression
        /\ heard.updates = 0 /\ heard.fresh = a.fresh /\ heard.stream = a.stream
        /\ heard.level = a.level
    BY <1>0, <2>3, <2>6 DEF AgcRecord
  <2> HIDE DEF heard
  <2>8. heard.updates =< heard.fresh /\ heard.fresh >= AnalysisFrames
    BY <1>0, <2>1, <2>7, AgcConstants, SMT DEF AgcRecord
  <2>9. AgcOK(heard) /\ (MovedByUser(heard) <=> MovedByUser(a))
    BY <1>0, <2>7, <2>8 DEF AgcOK, MovedByUser
  <2>10. LevelFromGainError(residual, a.level) \in Levels
    BY <1>0, <2>5, NewLevelInRange DEF AgcRecord
  <2>11. CASE residual = 0
    BY <2>2, <2>7, <2>9, <2>11
  <2>12. CASE residual # 0
    <3>1. /\ AgcOK(b)
          /\ b.stream # heard.stream => ~MovedByUser(heard) /\ b.fresh = heard.fresh
      BY <2>2, <2>9, <2>10, <2>12, SetLevelOK
    <3> QED
      BY <2>1, <2>7, <2>8, <2>9, <3>1
  <2> QED
    BY <2>11, <2>12
<1> QED
  BY <1>1, <1>2

LEMMA ProductRest ==
    ASSUME NEW s \in Nat \ {0}, NEW k \in Int
    PROVE  (s * k) % s = 0 /\ (s * k) \div s = k
BY SMT

\* Between the neighbours of a multiple are only the multiple and they.
LEMMA NextMultiple ==
    ASSUME NEW s \in Nat \ {0}, NEW c \in Int, NEW acc \in Int,
           s * c - s =< acc, acc =< s * c + s
    PROVE  /\ acc % s = 0 =>
                /\ acc = s * (acc \div s)
                /\ \/ acc \div s = c
                   \/ acc \div s = c - 1 /\ acc = s * c - s
                   \/ acc \div s = c + 1 /\ acc = s * c + s
           /\ acc % s # 0 => s * c - s < acc /\ acc < s * c + s
<1>1. s * (c + 1) = s * c + s /\ s * (c - 1) = s * c - s /\ s * c \in Int
  BY SMT
<1>2. /\ (s * c + s) % s = 0 /\ (s * c + s) \div s = c + 1
      /\ (s * c - s) % s = 0 /\ (s * c - s) \div s = c - 1
      /\ (s * c) \div s = c
  <2>1. c + 1 \in Int /\ c - 1 \in Int
    BY SMT
  <2> QED
    BY <1>1, <2>1, ProductRest
<1>3. acc % s # 0 => s * c - s < acc /\ acc < s * c + s
  <2>1. acc % s # 0 => acc # s * c - s /\ acc # s * c + s
    BY <1>2
  <2> QED
    BY <1>1, <2>1, SMT
<1>4. ASSUME acc % s = 0
      PROVE  /\ acc = s * (acc \div s)
             /\ \/ acc \div s = c
                \/ acc \div s = c - 1 /\ acc = s * c - s
                \/ acc \div s = c + 1 /\ acc = s * c + s
  <2> DEFINE q == acc \div s
  <2>1. q \in Int /\ acc = s * q
    BY <1>4, SMT
  <2> HIDE DEF q
  <2>2. q =< c + 1
    <3>1. CASE q - (c + 2) \in Nat
      <4>1. s * (q - (c + 2)) \in Nat
        BY <2>1, <3>1, SMT
      <4>2. s * (q - (c + 2)) = acc - s * c - 2 * s
        BY <1>1, <2>1, SMT
      <4> QED
        BY <1>1, <4>1, <4>2, SMT
    <3> QED
      BY <2>1, <3>1, SMT
  <2>3. q >= c - 1
    <3>1. CASE (c - 2) - q \in Nat
      <4>1. s * ((c - 2) - q) \in Nat
        BY <2>1, <3>1, SMT
      <4>2. s * ((c - 2) - q) = s * c - 2 * s - acc
        BY <1>1, <2>1, SMT
      <4> QED
        BY <1>1, <4>1, <4>2, SMT
    <3> QED
      BY <2>1, <3>1, SMT
  <2>4. q = c \/ q = c - 1 \/ q = c + 1
    BY <2>1, <2>2, <2>3, SMT
  <2> QED
    BY <1>1, <2>1, <2>4 DEF q
<1> QED
  BY <1>3, <1>4

LEMMA UpdateCompressorOK ==
    ASSUME NEW a, AgcOK(a)
    PROVE  LET b == UpdateCompressor(a)
           IN  AgcOK(b) /\ b.stream = a.stream /\ b.fresh = a.fresh
<1>0. a \in AgcRecord /\ NearCompression(a.accumulator, a.compression) /\ a.updates =< a.fresh
  BY DEF AgcOK
<1>1. CASE a.compression = a.target
  BY <1>1 DEF UpdateCompressor
<1>2. CASE a.compression # a.target
  <2> DEFINE acc == a.accumulator + (IF a.target > a.compression THEN 1 ELSE -1)
             compression == IF acc % StepsPerDb = 0 THEN acc \div StepsPerDb
                            ELSE a.compression
             b == [a EXCEPT !.accumulator = acc, !.compression = compression]
  <2>1. UpdateCompressor(a) = b
    BY <1>2 DEF UpdateCompressor
  <2>2. /\ a.accumulator \in Int /\ a.target \in Compressions /\ a.compression \in Compressions
        /\ StepsPerDb \in Nat \ {0}
        /\ \A x \in Compressions : x \in Nat
    <3>1. \A x \in Compressions : x \in Nat
      BY AgcConstants, SMT DEF Compressions
    <3> QED
      BY <1>0, <3>1, AgcConstants DEF AgcRecord
  <2>3. /\ acc \in Int
        /\ \/ acc = a.accumulator + 1 /\ a.target > a.compression
           \/ acc = a.accumulator - 1 /\ a.target < a.compression
    <3>1. CASE a.target > a.compression
      <4>1. acc = a.accumulator + 1
        BY <3>1
      <4> HIDE DEF acc
      <4> QED
        BY <2>2, <3>1, <4>1, SMT
    <3>2. CASE ~(a.target > a.compression)
      <4>1. acc = a.accumulator - 1
        <5>1. acc = a.accumulator + (-1)
          BY <3>2
        <5> HIDE DEF acc
        <5> QED
          BY <2>2, <5>1, SMT
      <4>2. a.target < a.compression
        BY <1>2, <2>2, <3>2, SMT
      <4> HIDE DEF acc
      <4> QED
        BY <2>2, <4>1, <4>2, SMT
    <3> QED
      BY <3>1, <3>2
  <2> DEFINE p == StepsPerDb * a.compression
  <2>4. p \in Int
    BY <2>2, SMT
  <2>5. p - StepsPerDb < a.accumulator /\ a.accumulator < p + StepsPerDb
    BY <1>0 DEF NearCompression
  <2> HIDE DEF acc, p
  <2>6. p - StepsPerDb =< acc /\ acc =< p + StepsPerDb
    BY <2>2, <2>3, <2>4, <2>5, SMT
  <2>7. /\ acc % StepsPerDb = 0 =>
             /\ acc = StepsPerDb * (acc \div StepsPerDb)
             /\ \/ acc \div StepsPerDb = a.compression
                \/ acc \div StepsPerDb = a.compression - 1 /\ acc = p - StepsPerDb
                \/ acc \div StepsPerDb = a.compression + 1 /\ acc = p + StepsPerDb
        /\ acc % StepsPerDb # 0 => p - StepsPerDb < acc /\ acc < p + StepsPerDb
    <3>1. a.compression \in Int /\ acc \in Int
      BY <2>2, <2>3
    <3>2. /\ StepsPerDb * a.compression - StepsPerDb =< acc
          /\ acc =< StepsPerDb * a.compression + StepsPerDb
      BY <2>6 DEF p
    <3> HIDE DEF compression, b
    <3> QED
      BY ONLY <2>2, <3>1, <3>2, NextMultiple DEF p
  <2>8. compression \in Compressions /\ NearCompression(acc, compression)
    <3>1. CASE acc % StepsPerDb # 0
      <4>1. compression = a.compression
        BY <3>1
      <4> QED
        BY <2>2, <2>7, <3>1, <4>1 DEF NearCompression, p
    <3>2. CASE acc % StepsPerDb = 0
      <4> DEFINE q == acc \div StepsPerDb
      <4>1. compression = q /\ acc = StepsPerDb * q
        BY <2>7, <3>2
      <4>2. \/ q = a.compression
            \/ q = a.compression - 1 /\ acc = p - StepsPerDb
            \/ q = a.compression + 1 /\ acc = p + StepsPerDb
        <5> HIDE DEF compression, b
        <5> QED
          BY ONLY <2>7, <3>2 DEF q
      <4> HIDE DEF q, compression
      <4>3. q = a.compression - 1 /\ acc = p - StepsPerDb => a.target < a.compression
        BY <2>2, <2>3, <2>4, <2>5, SMT
      <4>4. q = a.compression + 1 /\ acc = p + StepsPerDb => a.target > a.compression
        BY <2>2, <2>3, <2>4, <2>5, SMT
      <4>5. q \in Compressions
        <5>1. /\ a.target \in MinCompression .. MaxCompression + SurplusCompression
              /\ a.compression \in MinCompression .. MaxCompression + SurplusCompression
          BY <2>2 DEF Compressions
        <5> QED
          BY <4>2, <4>3, <4>4, <5>1, AgcConstants, SMT DEF Compressions
      <4>6. acc - StepsPerDb < acc /\ acc < acc + StepsPerDb
        BY <2>2, <2>3, SMT
      <4>7. NearCompression(acc, q)
        BY <4>1, <4>6 DEF NearCompression
      <4> QED
        BY <4>1, <4>5, <4>7
    <3> QED
      BY <3>1, <3>2
  <2> HIDE DEF compression
  <2>9. /\ b \in AgcRecord
        /\ b.accumulator = acc /\ b.compression = compression
        /\ b.updates = a.updates /\ b.fresh = a.fresh /\ b.stream = a.stream
    BY <1>0, <2>3, <2>8 DEF AgcRecord
  <2> HIDE DEF b
  <2>10. AgcOK(b)
    BY <1>0, <2>8, <2>9 DEF AgcOK
  <2> QED
    BY <2>1, <2>9, <2>10
<1> QED
  BY <1>1, <1>2

LEMMA InitializedOK ==
    ASSUME NEW a \in AgcRecord, a.updates =< a.fresh
    PROVE  AgcOK(Initialized(a))
<1> DEFINE b == Initialized(a)
<1>1. /\ MaxMicLevel \in ClippedLevelMin .. MaxMicLevel
      /\ DefaultCompression \in Compressions
      /\ DefaultCompression * StepsPerDb \in Int
  BY AgcConstants, SMT DEF Levels, Compressions
<1>2. /\ b \in AgcRecord
      /\ b.accumulator = DefaultCompression * StepsPerDb
      /\ b.compression = DefaultCompression
      /\ b.updates = a.updates /\ b.fresh = a.fresh
  BY <1>1 DEF Initialized, AgcRecord
<1>3. NearCompression(DefaultCompression * StepsPerDb, DefaultCompression)
  <2>1. StepsPerDb * DefaultCompression = DefaultCompression * StepsPerDb
    BY AgcConstants, SMT
  <2> DEFINE p == DefaultCompression * StepsPerDb
  <2>2. p \in Int /\ StepsPerDb \in Nat \ {0}
    BY <1>1, AgcConstants
  <2> HIDE DEF p
  <2>3. p - StepsPerDb < p /\ p < p + StepsPerDb
    BY <2>2, SMT
  <2> QED
    BY <2>1, <2>3 DEF NearCompression, p
<1> QED
  BY <1>2, <1>3 DEF AgcOK

LEMMA MonoAgcOK ==
    ASSUME NEW l \in StreamLevels \cup Levels
    PROVE  AgcOK(Initialized([MonoAgc EXCEPT !.stream = l]))
<1> DEFINE a == [MonoAgc EXCEPT !.stream = l]
<1>1. /\ 0 \in Levels /\ MaxMicLevel \in ClippedLevelMin .. MaxMicLevel
      /\ DefaultCompression \in Compressions /\ 0 \in 0 .. AnalysisFrames /\ 0 =< 0
      /\ DefaultCompression * StepsPerDb \in Int
  BY AgcConstants, SMT DEF Levels, Compressions
<1>2. a \in AgcRecord /\ a.updates = 0 /\ a.fresh = 0
  BY <1>1 DEF MonoAgc, AgcRecord
<1> HIDE DEF a
<1> QED
  BY <1>1, <1>2, InitializedOK DEF a

\* What a frame goes through, one function after the other.
LEMMA ProcessedOK ==
    ASSUME AgcInv, NEW clipped \in BOOLEAN, ProcessedFrame(clipped)
    PROVE  /\ AgcOK(agc')
           /\ (~agc.check_volume /\ agc'.stream # agc.stream) =>
                 /\ ~MovedByUser(agc)
                 /\ clipped \/ agc'.fresh >= AnalysisFrames
<1> DEFINE a == AnalyzePreProcess(clipped)
<1>1. PICK n \in {0, Chunk}, e \in RmsErrors :
        \E heard \in Heard(Measured(Checked(a), n), e) : agc' = UpdateCompressor(heard)
  BY DEF ProcessedFrame
<1> DEFINE c == Checked(a)
           m == Measured(c, n)
<1>2. PICK heard \in Heard(m, e) : agc' = UpdateCompressor(heard)
  BY <1>1
<1>3. /\ AgcOK(a)
      /\ a.check_volume = agc.check_volume
      /\ ~clipped => a = agc
      /\ (clipped /\ MovedByUser(agc)) =>
            /\ a.stream = agc.stream
            /\ a.updates = 0 \/ MovedByUser(a)
  <2>1. AgcOK(agc)
    BY DEF AgcInv
  <2> QED
    BY <2>1, HandleClippingOK DEF AnalyzePreProcess
<1> HIDE DEF a
<1>4. AgcOK(c) /\ (~agc.check_volume => c = a)
  BY <1>3, CheckVolumeOK
<1> HIDE DEF c
<1>5. /\ AgcOK(m) /\ m.stream = c.stream /\ m.level = c.level
      /\ c.updates = 0 => m.updates < AnalysisFrames
  BY <1>4, MeasuredOK
<1> HIDE DEF m
<1>6. /\ AgcOK(heard)
      /\ heard.stream # m.stream =>
            ~MovedByUser(m) /\ m.updates >= AnalysisFrames /\ heard.fresh >= AnalysisFrames
  BY <1>5, HeardOK
<1>7. AgcOK(agc') /\ agc'.stream = heard.stream /\ agc'.fresh = heard.fresh
  BY <1>2, <1>6, UpdateCompressorOK
<1>8. MovedByUser(m) <=> MovedByUser(c)
  BY <1>5 DEF MovedByUser
<1>9. m.updates \in Int /\ AnalysisFrames \in Int
  BY <1>5, AgcConstants, SMT DEF AgcOK, AgcRecord
<1>10. ASSUME ~agc.check_volume, agc'.stream # agc.stream
       PROVE  ~MovedByUser(agc) /\ (clipped \/ agc'.fresh >= AnalysisFrames)
  <2>1. c = a
    BY <1>4, <1>10
  <2>2. CASE ~clipped
    <3>1. heard.stream # m.stream
      BY <1>3, <1>5, <1>7, <1>10, <2>1, <2>2
    <3> QED
      BY <1>3, <1>6, <1>7, <1>8, <2>1, <2>2, <3>1
  <2>3. CASE clipped
    <3>1. ASSUME MovedByUser(agc) PROVE FALSE
      <4>1. a.stream = agc.stream /\ (a.updates = 0 \/ MovedByUser(a))
        BY <1>3, <2>3, <3>1
      <4>2. heard.stream # m.stream
        BY <1>5, <1>7, <1>10, <2>1, <4>1
      <4>3. ~MovedByUser(a) /\ m.updates >= AnalysisFrames
        BY <1>6, <1>8, <2>1, <4>2
      <4>4. m.updates < AnalysisFrames
        BY <1>5, <2>1, <4>1, <4>3
      <4> QED
        BY <1>9, <4>3, <4>4, SMT
    <3> QED
      BY <2>3, <3>1
  <2> QED
    BY <2>2, <2>3
<1> QED
  BY <1>7, <1>10

LEMMA AgcInitOK == AgcInit => AgcInv
<1>1. /\ 0 \in Levels /\ MaxMicLevel \in ClippedLevelMin .. MaxMicLevel
      /\ DefaultCompression \in Compressions /\ 0 \in 0 .. AnalysisFrames /\ 0 =< 0
      /\ DefaultCompression * StepsPerDb \in Int
      /\ ClippedWaitFrames \in 0 .. ClippedWaitFrames
  BY AgcConstants, SMT DEF Levels, Compressions
<1>2. MonoAgc \in AgcRecord /\ MonoAgc.updates = 0 /\ MonoAgc.fresh = 0
  BY <1>1 DEF MonoAgc, AgcRecord
<1>3. AgcOK(Initialized(MonoAgc))
  BY <1>1, <1>2, InitializedOK
<1> QED
  BY <1>1, <1>3 DEF AgcInit, AgcInv

\* Setting one Boolean or the position the application passes.
LEMMA SettingsOK ==
    ASSUME NEW a, AgcOK(a), NEW l \in StreamLevels
    PROVE  AgcOK([a EXCEPT !.stream = l]) /\ AgcOK([a EXCEPT !.check_volume = TRUE])
<1> DEFINE b == [a EXCEPT !.stream = l]
           c == [a EXCEPT !.check_volume = TRUE]
<1>1. a \in AgcRecord /\ NearCompression(a.accumulator, a.compression) /\ a.updates =< a.fresh
  BY DEF AgcOK
<1>2. /\ b \in AgcRecord /\ b.accumulator = a.accumulator /\ b.compression = a.compression
      /\ b.updates = a.updates /\ b.fresh = a.fresh
  BY <1>1 DEF AgcRecord
<1>3. /\ c \in AgcRecord /\ c.accumulator = a.accumulator /\ c.compression = a.compression
      /\ c.updates = a.updates /\ c.fresh = a.fresh
  BY <1>1 DEF AgcRecord
<1> HIDE DEF b, c
<1>4. AgcOK(b) /\ AgcOK(c)
  BY <1>1, <1>2, <1>3 DEF AgcOK
<1> QED
  BY <1>4 DEF b, c

LEMMA AgcNextOK == AgcInv /\ [AgcNext]_avars => AgcInv'
<1> SUFFICES ASSUME AgcInv, [AgcNext]_avars
             PROVE  AgcInv'
  OBVIOUS
<1>0. /\ AgcOK(agc) /\ frames_since_clipped \in 0 .. ClippedWaitFrames
      /\ capture_muted \in BOOLEAN
      /\ 0 \in 0 .. ClippedWaitFrames /\ ClippedWaitFrames \in 0 .. ClippedWaitFrames
  BY AgcConstants, SMT DEF AgcInv
<1>1. \A clipped \in BOOLEAN :
        AnalyzedFrame(clipped) => frames_since_clipped' \in 0 .. ClippedWaitFrames
  BY <1>0, AgcConstants, SMT DEF AnalyzedFrame, Looks
<1>2. CASE InitializeManager
  <2>1. agc \in AgcRecord /\ agc.updates =< agc.fresh
    BY <1>0 DEF AgcOK
  <2>2. AgcOK(Initialized(agc))
    BY <2>1, InitializedOK
  <2> QED
    BY <1>0, <1>2, <2>2 DEF InitializeManager, AgcInv
<1>3. CASE CreateManager
  <2>1. agc.stream \in StreamLevels \cup Levels
    BY <1>0 DEF AgcOK, AgcRecord
  <2>2. AgcOK(Initialized([MonoAgc EXCEPT !.stream = agc.stream]))
    BY <2>1, MonoAgcOK
  <2> QED
    BY <1>0, <1>3, <2>2 DEF CreateManager, AgcInv
<1>4. CASE SetStreamAnalogLevel
  BY <1>0, <1>4, SettingsOK DEF SetStreamAnalogLevel, AgcInv
<1>5. CASE SetCaptureMuted
  <2>1. AgcOK([agc EXCEPT !.check_volume = TRUE])
    <3>1. [agc EXCEPT !.check_volume = TRUE] \in AgcRecord
      BY <1>0 DEF AgcOK, AgcRecord
    <3>2. LET c == [agc EXCEPT !.check_volume = TRUE]
          IN  /\ c.accumulator = agc.accumulator /\ c.compression = agc.compression
              /\ c.updates = agc.updates /\ c.fresh = agc.fresh
      BY <1>0 DEF AgcOK, AgcRecord
    <3> QED
      BY <1>0, <3>1, <3>2 DEF AgcOK
  <2> QED
    BY <1>0, <1>5, <2>1 DEF SetCaptureMuted, AgcInv
<1>6. CASE CaptureFrame
  <2>1. PICK clipped \in BOOLEAN : AnalyzedFrame(clipped) /\ ProcessedFrame(clipped)
    BY <1>6 DEF CaptureFrame
  <2>2. AgcOK(agc')
    BY <2>1, ProcessedOK
  <2> QED
    BY <1>0, <1>1, <1>6, <2>1, <2>2 DEF CaptureFrame, AgcInv
<1>7. CASE FailedFrame
  <2>1. PICK clipped \in BOOLEAN :
          AnalyzedFrame(clipped) /\ agc' = AnalyzePreProcess(clipped)
    BY <1>7 DEF FailedFrame
  <2>2. AgcOK(agc')
    BY <1>0, <2>1, HandleClippingOK DEF AnalyzePreProcess
  <2> QED
    BY <1>0, <1>1, <1>7, <2>1, <2>2 DEF FailedFrame, AgcInv
<1>8. CASE UNCHANGED avars
  BY <1>0, <1>8 DEF avars, AgcInv
<1> QED
  BY <1>2, <1>3, <1>4, <1>5, <1>6, <1>7, <1>8 DEF AgcNext

LEMMA AgcInvTypes == AgcInv => AgcTypeOK
BY DEF AgcInv, AgcOK, AgcRecord, Compressions, AgcTypeOK

LEMMA AgcInvAlways == AgcSpec => []AgcInv
BY AgcInitOK, AgcNextOK, PTL DEF AgcSpec

THEOREM AgcTypeCorrect == AgcSpec => []AgcTypeOK
BY AgcInvAlways, AgcInvTypes, PTL

THEOREM UserVolumeKept == AgcSpec => UserVolumeIsKept
<1> DEFINE Kept == (agc.stream # agc'.stream /\ ~agc.check_volume /\ CaptureFrame)
                     => /\ ~MovedByUser(agc)
                        /\ frames_since_clipped' = 0 \/ agc'.fresh >= AnalysisFrames
<1>1. AgcInv /\ [AgcNext]_avars => [Kept]_avars
  <2> SUFFICES ASSUME AgcInv, agc.stream # agc'.stream, ~agc.check_volume, CaptureFrame
               PROVE  /\ ~MovedByUser(agc)
                      /\ frames_since_clipped' = 0 \/ agc'.fresh >= AnalysisFrames
    OBVIOUS
  <2>1. PICK clipped \in BOOLEAN : AnalyzedFrame(clipped) /\ ProcessedFrame(clipped)
    BY DEF CaptureFrame
  <2>2. /\ ~MovedByUser(agc)
        /\ clipped \/ agc'.fresh >= AnalysisFrames
    BY <2>1, ProcessedOK
  <2>3. clipped => frames_since_clipped' = 0
    BY <2>1 DEF AnalyzedFrame
  <2> QED
    BY <2>2, <2>3
<1>2. AgcSpec => [][Kept]_avars
  BY <1>1, AgcInvAlways, PTL DEF AgcSpec
<1> QED
  BY <1>2 DEF UserVolumeIsKept

\* The digital gain in use, where it is on the way to the next one, and the
\* gain it is on the way to.
SameGain(a, b) == b.accumulator = a.accumulator /\ b.compression = a.compression
SameGains(a, b) == SameGain(a, b) /\ b.target = a.target

\* The slider, the clipping, the volume check and the measure of loudness leave
\* the digital gain alone.
LEMMA SetLevelSame ==
    ASSUME NEW a \in AgcRecord, NEW new_level
    PROVE  SameGains(a, SetLevel(a, new_level))
<1> DEFINE new == Smaller2(new_level, a.max_level)
<1>1. SetLevel(a, new_level) \in {a, TakenOver(a), [a EXCEPT !.stream = new, !.level = new]}
  BY DEF SetLevel
<1>2. SameGains(a, TakenOver(a)) /\ SameGains(a, a)
  BY DEF SameGains, SameGain, TakenOver, AgcRecord
<1>3. SameGains(a, [a EXCEPT !.stream = new, !.level = new])
  <2> HIDE DEF new
  <2> QED BY DEF SameGains, SameGain, AgcRecord
<1> HIDE DEF new
<1> QED
  BY <1>1, <1>2, <1>3

LEMMA HandleClippingSame ==
    ASSUME NEW a, AgcOK(a)
    PROVE  SameGains(a, HandleClipping(a))
<1> DEFINE max == Larger2(ClippedLevelMin, a.max_level - ClippedLevelStep)
           c == [a EXCEPT !.max_level = max]
           n == Larger2(ClippedLevelMin, a.level - ClippedLevelStep)
           d == SetLevel(c, n)
<1>1. HandleClipping(a) \in {[d EXCEPT !.updates = 0], c}
  BY DEF HandleClipping
<1>2. a \in AgcRecord
  BY DEF AgcOK
<1>3. max \in ClippedLevelMin .. MaxMicLevel
  <2>1. /\ a.max_level \in ClippedLevelMin .. MaxMicLevel
        /\ ClippedLevelMin \in 0 .. MaxMicLevel /\ MaxMicLevel \in Nat
        /\ ClippedLevelStep \in Nat
    BY <1>2, AgcConstants DEF Levels, AgcRecord
  <2> QED
    BY <2>1, SMT DEF Larger2
<1> HIDE DEF max, n
<1>4. c \in AgcRecord /\ SameGains(a, c)
  BY <1>2, <1>3 DEF AgcRecord, SameGains, SameGain
<1> HIDE DEF c
<1>5. SameGains(c, d)
  BY <1>4, SetLevelSame
<1>6. SameGains(d, [d EXCEPT !.updates = 0])
  <2> DEFINE new == Smaller2(n, c.max_level)
  <2>1. d \in {c, TakenOver(c), [c EXCEPT !.stream = new, !.level = new]}
    BY DEF SetLevel
  <2> HIDE DEF new
  <2>2. {"accumulator", "compression", "target"} \subseteq DOMAIN d
    BY <1>4, <2>1 DEF AgcRecord, TakenOver
  <2> HIDE DEF d
  <2> QED
    BY <2>2 DEF SameGains, SameGain
<1> HIDE DEF d
<1> QED
  BY <1>1, <1>4, <1>5, <1>6 DEF SameGains, SameGain

LEMMA CheckedSame ==
    ASSUME NEW a \in AgcRecord
    PROVE  SameGains(a, Checked(a))
<1> DEFINE c == [a EXCEPT !.check_volume = FALSE]
<1>1. c \in AgcRecord /\ SameGains(a, c)
  BY DEF AgcRecord, SameGains, SameGain
<1>2. Checked(a) \in {a, CheckVolumeAndReset(c)}
  BY DEF Checked
<1> HIDE DEF c
<1> DEFINE raised == Larger2(c.stream, IF c.startup THEN StartupMinLevel ELSE MinMicLevel)
<1>3. CheckVolumeAndReset(c) \in
         {c, [c EXCEPT !.stream = raised, !.level = raised, !.startup = FALSE,
                       !.updates = 0, !.fresh = 0]}
  BY DEF CheckVolumeAndReset
<1> HIDE DEF raised
<1>4. SameGains(c, CheckVolumeAndReset(c))
  BY <1>1, <1>3 DEF AgcRecord, SameGains, SameGain
<1> QED
  BY <1>1, <1>2, <1>4 DEF SameGains, SameGain

LEMMA MeasuredSame ==
    ASSUME NEW a \in AgcRecord, NEW n
    PROVE  SameGains(a, Measured(a, n))
  BY DEF Measured, AgcRecord, SameGains, SameGain

\* A new loudness only gives the gain a new target.
LEMMA HeardSame ==
    ASSUME NEW a, AgcOK(a), NEW e \in RmsErrors, NEW b \in Heard(a, e)
    PROVE  SameGain(a, b)
<1> DEFINE error == e + MinCompression
           max == MaxGain(a.max_level)
           raw == Clamp(error, MinCompression, max)
           residual == Clamp(error - raw, -MaxResidualGainChange, MaxResidualGainChange)
           target == NewTarget(raw, a.target, max)
           heard == [a EXCEPT !.updates = 0, !.target = target]
<1>0. a \in AgcRecord
  BY DEF AgcOK
<1>1. b = a \/ b = UpdateGain(a, e)
  BY DEF Heard
<1>2. UpdateGain(a, e) \in {heard, SetLevel(heard, LevelFromGainError(residual, a.level))}
  BY DEF UpdateGain
<1>3. target \in Compressions
  <2>1. error \in Int /\ max \in MaxCompression .. MaxCompression + SurplusCompression
    BY <1>0, AgcConstants, MaxGainInRange DEF AgcRecord
  <2> QED
    BY <1>0, <2>1, AgcConstants, TargetInRange DEF AgcRecord
<1> HIDE DEF target, residual
<1>4. 0 \in 0 .. AnalysisFrames
  BY AgcConstants, SMT
<1>5. heard \in AgcRecord /\ SameGain(a, heard)
  BY <1>0, <1>3, <1>4 DEF AgcRecord, SameGain
<1> HIDE DEF heard
<1>6. SameGain(heard, SetLevel(heard, LevelFromGainError(residual, a.level)))
  BY <1>5, SetLevelSame DEF SameGains
<1> QED
  BY <1>1, <1>2, <1>5, <1>6 DEF SameGain

\* How far the accumulator is from a gain, in steps of which a frame takes one.
Distance(acc, gain) == Abs(StepsPerDb * gain - acc)

\* UpdateCompressor takes one step towards the target unless it is there.
LEMMA UpdateCompressorApproaches ==
    ASSUME NEW a, AgcOK(a)
    PROVE  LET b == UpdateCompressor(a)
           IN  /\ b.target = a.target
               /\ a.compression = a.target => b = a
               /\ a.compression # a.target =>
                     /\ Distance(b.accumulator, a.target)
                            = Distance(a.accumulator, a.target) - 1
                     /\ b.compression \in a.compression - 1 .. a.compression + 1
<1> DEFINE b == UpdateCompressor(a)
<1>0. a \in AgcRecord /\ NearCompression(a.accumulator, a.compression)
  BY DEF AgcOK
<1>1. CASE a.compression = a.target
  BY <1>1 DEF UpdateCompressor
<1>2. CASE a.compression # a.target
  <2> DEFINE acc == a.accumulator + (IF a.target > a.compression THEN 1 ELSE -1)
             compression == IF acc % StepsPerDb = 0 THEN acc \div StepsPerDb
                            ELSE a.compression
  <2>1. b = [a EXCEPT !.accumulator = acc, !.compression = compression]
    BY <1>2 DEF UpdateCompressor
  <2>2. /\ a.accumulator \in Int /\ a.target \in Int /\ a.compression \in Int
        /\ StepsPerDb \in Nat \ {0}
    <3>1. \A x \in Compressions : x \in Int
      BY AgcConstants, SMT DEF Compressions
    <3> QED
      BY <1>0, <3>1, AgcConstants DEF AgcRecord
  <2>3. \/ acc = a.accumulator + 1 /\ a.target - a.compression - 1 \in Nat
        \/ acc = a.accumulator - 1 /\ a.compression - a.target - 1 \in Nat
    <3>1. CASE a.target > a.compression
      BY <2>2, <3>1, SMT
    <3>2. CASE ~(a.target > a.compression)
      BY <1>2, <2>2, <3>2, SMT
    <3> QED
      BY <3>1, <3>2
  <2> HIDE DEF acc
  <2>4. /\ b.accumulator = acc /\ b.compression = compression /\ b.target = a.target
    BY <1>0, <2>1 DEF AgcRecord
  <2> DEFINE p == StepsPerDb * a.compression
             t == StepsPerDb * a.target
  <2>5. /\ p \in Int /\ t \in Int
        /\ a.target - a.compression - 1 \in Nat => t >= p + StepsPerDb
        /\ a.compression - a.target - 1 \in Nat => t =< p - StepsPerDb
    <3>1. p \in Int /\ t \in Int
      BY <2>2, SMT
    <3>2. ASSUME a.target - a.compression - 1 \in Nat PROVE t >= p + StepsPerDb
      <4>1. StepsPerDb * (a.target - a.compression - 1) \in Nat
        BY <2>2, <3>2, SMT
      <4>2. StepsPerDb * (a.target - a.compression - 1) = t - p - StepsPerDb
        BY <2>2, SMT
      <4> HIDE DEF t, p
      <4> QED
        BY <2>2, <3>1, <4>1, <4>2, SMT
    <3>3. ASSUME a.compression - a.target - 1 \in Nat PROVE t =< p - StepsPerDb
      <4>1. StepsPerDb * (a.compression - a.target - 1) \in Nat
        BY <2>2, <3>3, SMT
      <4>2. StepsPerDb * (a.compression - a.target - 1) = p - t - StepsPerDb
        BY <2>2, SMT
      <4> HIDE DEF t, p
      <4> QED
        BY <2>2, <3>1, <4>1, <4>2, SMT
    <3> QED
      BY <3>1, <3>2, <3>3
  <2>6. p - StepsPerDb < a.accumulator /\ a.accumulator < p + StepsPerDb
    BY <1>0 DEF NearCompression
  <2>7. Distance(acc, a.target) = Abs(t - acc)
        /\ Distance(a.accumulator, a.target) = Abs(t - a.accumulator)
    BY DEF Distance
  <2> HIDE DEF p, t
  <2>8. Distance(acc, a.target) = Distance(a.accumulator, a.target) - 1
    BY <2>2, <2>3, <2>5, <2>6, <2>7, SMT DEF Abs
  <2>9. compression \in a.compression - 1 .. a.compression + 1
    <3>1. CASE acc % StepsPerDb # 0
      BY <2>2, <3>1, SMT
    <3>2. CASE acc % StepsPerDb = 0
      <4>1. acc \in Int /\ p - StepsPerDb =< acc /\ acc =< p + StepsPerDb
        BY <2>2, <2>3, <2>5, <2>6, SMT
      <4>2. \/ acc \div StepsPerDb = a.compression
            \/ acc \div StepsPerDb = a.compression - 1
            \/ acc \div StepsPerDb = a.compression + 1
        <5>1. /\ StepsPerDb * a.compression - StepsPerDb =< acc
              /\ acc =< StepsPerDb * a.compression + StepsPerDb
          BY <4>1 DEF p
        <5>2. a.compression \in Int /\ acc \in Int /\ StepsPerDb \in Nat \ {0}
          BY <2>2, <4>1
        <5> HIDE DEF b, compression
        <5>3. acc % StepsPerDb = 0 =>
                \/ acc \div StepsPerDb = a.compression
                \/ acc \div StepsPerDb = a.compression - 1
                \/ acc \div StepsPerDb = a.compression + 1
          BY ONLY <5>1, <5>2, NextMultiple
        <5> QED
          BY <3>2, <5>3
      <4>3. compression = acc \div StepsPerDb
        BY <3>2
      <4> HIDE DEF compression
      <4> QED
        BY <2>2, <4>2, <4>3
    <3> QED
      BY <3>1, <3>2
  <2> HIDE DEF b, compression
  <2> QED
    BY <1>2, <2>4, <2>8, <2>9 DEF b
<1> QED
  BY <1>1, <1>2

\* A frame brings the digital gain one step nearer to the target that it leaves
\* behind, or leaves it where it is if it has that gain; it never jumps by more
\* than a dB.  No other call moves it, but for an initialization.
CompressionApproaches ==
    [][/\ FailedFrame \/ SetStreamAnalogLevel \/ SetCaptureMuted => SameGains(agc, agc')
       /\ CaptureFrame /\ agc.compression = agc'.target => SameGain(agc, agc')
       /\ CaptureFrame /\ agc.compression # agc'.target =>
            /\ Distance(agc'.accumulator, agc'.target)
                 = Distance(agc.accumulator, agc'.target) - 1
            /\ agc'.compression \in agc.compression - 1 .. agc.compression + 1]_avars

\* Where the accumulator has got to a gain, that gain is in use.
Arrived == \A gain \in Nat : agc.accumulator = StepsPerDb * gain => agc.compression = gain

LEMMA AgcInvArrived == AgcInv => Arrived
<1> SUFFICES ASSUME AgcInv, NEW gain \in Nat, agc.accumulator = StepsPerDb * gain
             PROVE  agc.compression = gain
  BY DEF Arrived
<1>1. /\ agc.compression \in Int /\ StepsPerDb \in Nat \ {0}
      /\ StepsPerDb * agc.compression - StepsPerDb < StepsPerDb * gain
      /\ StepsPerDb * gain < StepsPerDb * agc.compression + StepsPerDb
  <2>1. \A x \in Compressions : x \in Int
    BY AgcConstants, SMT DEF Compressions
  <2> QED
    BY <2>1, AgcConstants DEF AgcInv, AgcOK, AgcRecord, NearCompression
<1> DEFINE c == agc.compression
<1>2. StepsPerDb * c \in Int /\ StepsPerDb * gain \in Int
  BY <1>1, SMT
<1>3. CASE gain - c - 1 \in Nat
  <2>1. StepsPerDb * (gain - c - 1) \in Nat
    BY <1>1, <1>3, SMT
  <2>2. StepsPerDb * (gain - c - 1) = StepsPerDb * gain - StepsPerDb * c - StepsPerDb
    BY <1>1, SMT
  <2> QED
    BY <1>1, <1>2, <2>1, <2>2, SMT
<1>4. CASE c - gain - 1 \in Nat
  <2>1. StepsPerDb * (c - gain - 1) \in Nat
    BY <1>1, <1>4, SMT
  <2>2. StepsPerDb * (c - gain - 1) = StepsPerDb * c - StepsPerDb * gain - StepsPerDb
    BY <1>1, SMT
  <2> QED
    BY <1>1, <1>2, <2>1, <2>2, SMT
<1> QED
  BY <1>1, <1>3, <1>4, SMT

\* So a target that stays is reached within as many frames as the distance to
\* it has steps: that frames keep coming is all that is left to fairness.
THEOREM CompressionReachesTarget == AgcSpec => []Arrived /\ CompressionApproaches
<1>1. ASSUME AgcInv, CaptureFrame
      PROVE  /\ agc.compression = agc'.target => SameGain(agc, agc')
             /\ agc.compression # agc'.target =>
                  /\ Distance(agc'.accumulator, agc'.target)
                       = Distance(agc.accumulator, agc'.target) - 1
                  /\ agc'.compression \in agc.compression - 1 .. agc.compression + 1
  <2>1. PICK clipped \in BOOLEAN : ProcessedFrame(clipped)
    BY <1>1 DEF CaptureFrame
  <2> DEFINE a == AnalyzePreProcess(clipped)
             c == Checked(a)
  <2>2. PICK n \in {0, Chunk}, e \in RmsErrors :
          \E heard \in Heard(Measured(c, n), e) : agc' = UpdateCompressor(heard)
    BY <2>1 DEF ProcessedFrame
  <2> DEFINE m == Measured(c, n)
  <2>3. PICK heard \in Heard(m, e) : agc' = UpdateCompressor(heard)
    BY <2>2
  <2>4. AgcOK(agc)
    BY <1>1 DEF AgcInv
  <2>5. AgcOK(a) /\ SameGain(agc, a)
    BY <2>4, HandleClippingOK, HandleClippingSame
    DEF AnalyzePreProcess, SameGains, SameGain
  <2> HIDE DEF a
  <2>6. AgcOK(c) /\ SameGain(a, c)
    BY <2>5, CheckVolumeOK, CheckedSame DEF AgcOK, SameGains
  <2> HIDE DEF c
  <2>7. AgcOK(m) /\ SameGain(c, m)
    BY <2>6, MeasuredOK, MeasuredSame DEF AgcOK, SameGains
  <2> HIDE DEF m
  <2>8. AgcOK(heard) /\ SameGain(m, heard)
    BY <2>7, HeardOK, HeardSame
  <2>9. SameGain(agc, heard)
    BY <2>5, <2>6, <2>7, <2>8 DEF SameGain
  <2> QED
    BY <2>3, <2>8, <2>9, UpdateCompressorApproaches DEF SameGain
<1>2. ASSUME AgcInv, FailedFrame \/ SetStreamAnalogLevel \/ SetCaptureMuted
      PROVE  SameGains(agc, agc')
  <2>1. AgcOK(agc) /\ agc \in AgcRecord
    BY <1>2 DEF AgcInv, AgcOK
  <2>2. CASE FailedFrame
    BY <2>1, <2>2, HandleClippingSame
    DEF FailedFrame, AnalyzePreProcess, SameGains, SameGain
  <2>3. CASE SetStreamAnalogLevel
    BY <2>1, <2>3 DEF SetStreamAnalogLevel, SameGains, SameGain, AgcRecord
  <2>4. CASE SetCaptureMuted
    BY <2>1, <2>4 DEF SetCaptureMuted, SameGains, SameGain, AgcRecord
  <2> QED
    BY <1>2, <2>2, <2>3, <2>4
<1> DEFINE Approaches ==
      /\ FailedFrame \/ SetStreamAnalogLevel \/ SetCaptureMuted => SameGains(agc, agc')
      /\ CaptureFrame /\ agc.compression = agc'.target => SameGain(agc, agc')
      /\ CaptureFrame /\ agc.compression # agc'.target =>
           /\ Distance(agc'.accumulator, agc'.target)
                = Distance(agc.accumulator, agc'.target) - 1
           /\ agc'.compression \in agc.compression - 1 .. agc.compression + 1
<1>3. AgcInv /\ [AgcNext]_avars => [Approaches]_avars
  BY <1>1, <1>2
<1>4. AgcSpec => [][Approaches]_avars
  BY <1>3, AgcInvAlways, PTL DEF AgcSpec
<1>5. AgcSpec => []Arrived
  BY AgcInvArrived, AgcInvAlways, PTL
<1> QED
  BY <1>4, <1>5 DEF CompressionApproaches

(***************************************************************************)
(* The parts side by side.                                                 *)
(***************************************************************************)
(* A behaviour of the parts side by side is one of each of them: what the  *)
(* theorems above say of a part holds where the parts are explored.        *)
THEOREM PartsComposed ==
    Spec => MobileSpec /\ FramesSpec /\ ChannelSpec /\ RingSpec /\ AgcSpec
<1>1. Init => MobileInit /\ FramesInit /\ ChannelInit /\ RingInit /\ AgcInit
  BY DEF Init
<1>2. [Next]_vars => [MobileNext]_mvars
  BY DEF Next, vars, Wrapper, Framing, Channel, Ring, Gain
<1>3. [Next]_vars => [FramesNext]_fvars
  BY DEF Next, vars, Wrapper, Framing, Channel, Ring, Gain
<1>4. [Next]_vars => [ProcessBlock]_cvars
  BY DEF Next, vars, Wrapper, Framing, Channel, Ring, Gain
<1>5. [Next]_vars => [RingNext]_rvars
  BY DEF Next, vars, Wrapper, Framing, Channel, Ring, Gain
<1>6. [Next]_vars => [AgcNext]_avars
  BY DEF Next, vars, Wrapper, Framing, Channel, Ring, Gain
<1> QED
  BY <1>1, <1>2, <1>3, <1>4, <1>5, <1>6, PTL
  DEF Spec, MobileSpec, FramesSpec, ChannelSpec, RingSpec, AgcSpec

(* So the safety properties of the parts are those of the whole.           *)
THEOREM SubmodulesSafe ==
    Spec => /\ [](FramesKeepStep /\ SilenceIsNotSpeech /\ AgcTypeOK)
            /\ StartFollowsReports /\ DelayChangesAreHeld
            /\ ImplementsTape /\ UserVolumeIsKept
<1>1. Spec => []FramesKeepStep /\ []SilenceIsNotSpeech /\ []AgcTypeOK
  BY PartsComposed, FramesInStep, SilenceNeverSpeech, AgcTypeCorrect
<1>2. Spec => StartFollowsReports /\ DelayChangesAreHeld /\ ImplementsTape /\ UserVolumeIsKept
  BY PartsComposed, StartFollows, DelayHeld, RingImplementsTape, UserVolumeKept
<1> QED
  BY <1>1, <1>2, PTL
=============================================================================
