----------------------------- MODULE FoldLemmas -----------------------------
(***************************************************************************)
(* Lemmas on least and greatest elements, on sums over finite sets and on  *)
(* products, for the proofs of several components.                         *)
(*                                                                         *)
(* A sum is the value of a recursive function on the subsets of its set,   *)
(* and a product that of one on an interval.  That the function exists,    *)
(* and that two such functions agree where both are defined, is shown by   *)
(* taking a least counterexample: the argument needs no rule of induction  *)
(* with an operator for its parameter.                                     *)
(***************************************************************************)
EXTENDS Integers, FiniteSetsExt, FiniteSetTheorems, WellFoundedInduction, TLAPS

(***************************************************************************)
(* A set of naturals that is not empty has a least element.                *)
(***************************************************************************)
LEMMA LeastNatural ==
  ASSUME NEW S, S \subseteq Nat, S # {}
  PROVE  \E m \in S : \A n \in S : ~ (n < m)
<1> DEFINE Less == OpToRel(<, Nat)
<1>1. IsWellFoundedOn(Less, Nat)
  BY NatLessThanWellFounded, Zenon
<1>2. ASSUME NEW m \in S, NEW n \in S, n < m
      PROVE  <<n, m>> \in Less
  BY <1>2, Zenon DEF OpToRel
<1> HIDE DEF Less
<1>3. PICK m \in S : \A n \in S : ~ (<<n, m>> \in Less)
  BY <1>1, WFMin
<1> QED BY <1>2, <1>3

(***************************************************************************)
(* A set of naturals that is bounded and not empty has a greatest element, *)
(* and Max is that element.                                                *)
(***************************************************************************)
LEMMA GreatestNatural ==
  ASSUME NEW S, NEW n, S \subseteq Nat, S # {}, n \in Nat, \A s \in S : s <= n
  PROVE  Max(S) \in S /\ \A s \in S : s <= Max(S)
<1> DEFINE Gaps == {n - s : s \in S}
<1>1. Gaps \subseteq Nat /\ Gaps # {}
  <2>1. \A s \in S : n - s \in Nat
    OBVIOUS
  <2>2. PICK s \in S : TRUE
    OBVIOUS
  <2>3. n - s \in Gaps
    OBVIOUS
  <2> QED BY <2>1, <2>3
<1>2. PICK g \in Gaps : \A h \in Gaps : ~ (h < g)
  BY <1>1, LeastNatural
<1>3. PICK m \in S : g = n - m
  OBVIOUS
<1>4. \A s \in S : m >= s
  <2>1. SUFFICES ASSUME NEW s \in S
                 PROVE  m >= s
    OBVIOUS
  <2>2. n - s \in Gaps
    OBVIOUS
  <2>3. ~ (n - s < n - m) /\ n \in Nat /\ s \in Nat /\ m \in Nat
    BY <1>2, <1>3, <2>2
  <2> QED BY <2>3
<1>5. Max(S) \in S /\ \A s \in S : Max(S) >= s
  BY <1>4 DEF Max
<1> QED BY <1>5

(***************************************************************************)
(* A finite set of naturals is bounded.                                    *)
(***************************************************************************)
LEMMA FiniteIsBounded ==
  ASSUME NEW S, S \subseteq Nat, IsFiniteSet(S)
  PROVE  \E n \in Nat : \A s \in S : s <= n
<1> DEFINE Bounded(T) == \E n \in Nat : \A s \in T : s <= n
           Bad == {n \in Nat : \E T \in SUBSET S : Cardinality(T) = n /\ ~ Bounded(T)}
<1>1. SUFFICES ASSUME Bad # {}
               PROVE  FALSE
  <2>1. Cardinality(S) \in Nat
    BY FS_CardinalityType
  <2> QED BY <2>1
<1>2. PICK n \in Bad : \A m \in Bad : ~ (m < n)
  BY <1>1, LeastNatural
<1>3. PICK T \in SUBSET S : Cardinality(T) = n /\ ~ Bounded(T)
  OBVIOUS
<1>4. IsFiniteSet(T) /\ T # {}
  BY <1>3, FS_Subset
<1>5. PICK x \in T : TRUE
  BY <1>4
<1>6. Cardinality(T \ {x}) = n - 1 /\ n - 1 \in Nat /\ n - 1 < n /\ T \ {x} \in SUBSET S
  <2>1. n \in Nat /\ IsFiniteSet(T \ {x})
    BY <1>4, FS_Subset
  <2>2. Cardinality(T \ {x}) = n - 1
    BY <1>3, <1>4, <1>5, FS_RemoveElement
  <2>3. n - 1 \in Nat
    BY <2>1, <2>2, FS_CardinalityType
  <2> QED BY <2>1, <2>2, <2>3
<1>7. Bounded(T \ {x})
  <2>1. n - 1 \notin Bad
    <3> HIDE DEF Bad
    <3> QED BY <1>2, <1>6
  <2> QED BY <1>6, <2>1
<1>8. PICK m \in Nat : \A s \in T \ {x} : s <= m
  BY <1>7
<1>9. \A s \in T : s <= (IF x <= m THEN m ELSE x)
  BY <1>5, <1>8
<1>10. (IF x <= m THEN m ELSE x) \in Nat
  BY <1>5
<1> QED BY <1>3, <1>9, <1>10

LEMMA GreatestOfFinite ==
  ASSUME NEW S, S \subseteq Nat, S # {}, IsFiniteSet(S)
  PROVE  Max(S) \in S /\ \A s \in S : s <= Max(S)
BY FiniteIsBounded, GreatestNatural

-----------------------------------------------------------------------------
(***************************************************************************)
(* The sum of h over S, and what makes a function on a family of sets the  *)
(* recursive function behind it.                                           *)
(***************************************************************************)
Sum(h, S) == MapThenSumSet(LAMBDA x : h[x], S)

Pick(T) == CHOOSE x \in T : TRUE

Sums(iter, h, Sets) ==
  iter = [T \in Sets |-> IF T = {} THEN 0 ELSE h[Pick(T)] + iter[T \ {Pick(T)}]]

SumsBelow(iter, h, S) == Sums(iter, h, SUBSET S)

LEMMA SumsExist ==
  ASSUME NEW h, NEW S, IsFiniteSet(S)
  PROVE  \E iter : SumsBelow(iter, h, S)
<1> DEFINE Small(n) == {T \in SUBSET S : Cardinality(T) <= n}
           Bad == {n \in Nat : ~ \E iter : Sums(iter, h, Small(n))}
<1>1. \A T \in SUBSET S : IsFiniteSet(T) /\ Cardinality(T) \in Nat
  BY FS_Subset, FS_CardinalityType
<1>2. \A T \in SUBSET S : T # {} => /\ Pick(T) \in T
                                    /\ Cardinality(T \ {Pick(T)}) = Cardinality(T) - 1
                                    /\ Cardinality(T) \in Nat
  <2>1. SUFFICES ASSUME NEW T \in SUBSET S, T # {}
                 PROVE  Pick(T) \in T /\ Cardinality(T \ {Pick(T)}) = Cardinality(T) - 1
    BY <1>1
  <2>2. Pick(T) \in T
    BY <2>1 DEF Pick
  <2> QED BY <1>1, <2>2, FS_RemoveElement
<1>3. 0 \notin Bad
  <2>1. \A T \in Small(0) : T = {}
    BY <1>1, FS_EmptySet
  <2>2. Sums([T \in Small(0) |-> 0], h, Small(0))
    BY <2>1 DEF Sums
  <2> QED BY <2>2
<1>4. ASSUME NEW n \in Nat, n \notin Bad
      PROVE  n + 1 \notin Bad
  <2>1. PICK g : Sums(g, h, Small(n))
    BY <1>4
  <2> DEFINE g1 == [T \in Small(n + 1) |->
                      IF T = {} THEN 0
                      ELSE h[Pick(T)] + g[T \ {Pick(T)}]]
  <2>2. ASSUME NEW T \in Small(n)
        PROVE  T \in Small(n + 1) /\ g1[T] = g[T]
    <3>1. T \in Small(n + 1)
      BY <1>1
    <3> QED BY <3>1, <2>1 DEF Sums
  <2>3. ASSUME NEW T \in Small(n + 1), T # {}
        PROVE  T \ {Pick(T)} \in Small(n)
    BY <1>2, <2>3
  <2>4. Sums(g1, h, Small(n + 1))
    <3> HIDE DEF Small
    <3>1. ASSUME NEW T \in Small(n + 1)
          PROVE  g1[T] = IF T = {} THEN 0 ELSE h[Pick(T)] + g1[T \ {Pick(T)}]
      BY <2>2, <2>3
    <3>2. g1 = [T \in Small(n + 1) |-> g1[T]]
      OBVIOUS
    <3> HIDE DEF g1
    <3> QED BY <3>1, <3>2 DEF Sums
  <2> QED BY <2>4
<1>5. Bad = {}
  <2>1. SUFFICES ASSUME Bad # {}
                 PROVE  FALSE
    OBVIOUS
  <2>2. PICK m \in Bad : \A n \in Bad : ~ (n < m)
    BY <2>1, LeastNatural
  <2>3. m \in Nat /\ m # 0
    BY <1>3
  <2>4. m - 1 \in Nat /\ m - 1 \notin Bad
    <3> HIDE DEF Bad
    <3> QED BY <2>2, <2>3
  <2>5. (m - 1) + 1 \notin Bad
    BY <1>4, <2>4
  <2>6. (m - 1) + 1 = m
    BY <2>3
  <2> QED BY <2>2, <2>5, <2>6
<1>6. Small(Cardinality(S)) = SUBSET S
  BY <1>1, FS_Subset
<1>7. Cardinality(S) \in Nat
  BY FS_CardinalityType
<1> QED BY <1>5, <1>6, <1>7 DEF SumsBelow

(***************************************************************************)
(* The recursive functions over the subsets of S and over those of a       *)
(* larger set agree on the subsets of S.                                   *)
(***************************************************************************)
LEMMA SumsAgree ==
  ASSUME NEW h, NEW S, NEW R, NEW i, NEW j,
         SumsBelow(i, h, S), SumsBelow(j, h, R),
         S \subseteq R, IsFiniteSet(R)
  PROVE  \A T \in SUBSET S : i[T] = j[T]
<1> DEFINE Bad == {n \in Nat : \E T \in SUBSET S : Cardinality(T) = n /\ i[T] # j[T]}
<1>1. SUFFICES ASSUME Bad # {}
               PROVE  FALSE
  <2>1. \A T \in SUBSET S : Cardinality(T) \in Nat
    BY FS_Subset, FS_CardinalityType
  <2> QED BY <2>1
<1>2. PICK m \in Bad : \A n \in Bad : ~ (n < m)
  BY <1>1, LeastNatural
<1>3. PICK T \in SUBSET S : Cardinality(T) = m /\ i[T] # j[T]
  OBVIOUS
<1>4. /\ i[T] = IF T = {} THEN 0 ELSE h[Pick(T)] + i[T \ {Pick(T)}]
      /\ j[T] = IF T = {} THEN 0 ELSE h[Pick(T)] + j[T \ {Pick(T)}]
  <2>1. T \in SUBSET R
    OBVIOUS
  <2> QED BY <2>1 DEF SumsBelow, Sums
<1>5. T # {} /\ Pick(T) \in T
  BY <1>3, <1>4 DEF Pick
<1>6. IsFiniteSet(T) /\ Cardinality(T \ {Pick(T)}) = m - 1 /\ m - 1 \in Nat
  <2>1. IsFiniteSet(T)
    BY FS_Subset
  <2>2. IsFiniteSet(T \ {Pick(T)}) /\ Cardinality(T \ {Pick(T)}) = Cardinality(T) - 1
    BY <1>5, <2>1, FS_RemoveElement
  <2>3. Cardinality(T \ {Pick(T)}) \in Nat
    BY <2>2, FS_CardinalityType
  <2> QED BY <1>3, <2>1, <2>2, <2>3
<1>7. i[T \ {Pick(T)}] # j[T \ {Pick(T)}]
  BY <1>3, <1>4, <1>5
<1>8. m - 1 \in Bad
  BY <1>6, <1>7
<1>9. m \in Nat
  OBVIOUS
<1> HIDE DEF Bad
<1> QED BY <1>2, <1>8, <1>9

(***************************************************************************)
(* The sum as the recursive function gives it.                             *)
(***************************************************************************)
LEMMA SumIsOfSums ==
  ASSUME NEW h, NEW S, NEW i, IsFiniteSet(S), SumsBelow(i, h, S)
  PROVE  Sum(h, S) = i[S]
<1> DEFINE iter == CHOOSE g : SumsBelow(g, h, S)
<1>1. SumsBelow(iter, h, S)
  BY SumsExist
<1>2. Sum(h, S) = iter[S]
  BY DEF Sum, MapThenSumSet, MapThenFoldSet, SumsBelow, Sums, Pick
<1> HIDE DEF iter
<1>3. iter[S] = i[S]
  <2>0. S \subseteq S
    OBVIOUS
  <2>1. \A T \in SUBSET S : iter[T] = i[T]
    BY <1>1, <2>0, SumsAgree
  <2> QED BY <2>1
<1> QED BY <1>2, <1>3

LEMMA SumOfNone ==
  ASSUME NEW h
  PROVE  Sum(h, {}) = 0
<1>1. IsFiniteSet({})
  BY FS_EmptySet
<1>2. PICK i : SumsBelow(i, h, {})
  BY <1>1, SumsExist
<1>3. i[{}] = 0
  BY <1>2 DEF SumsBelow, Sums
<1> QED BY <1>1, <1>2, <1>3, SumIsOfSums

LEMMA SumOfPick ==
  ASSUME NEW h, NEW S, IsFiniteSet(S), S # {}
  PROVE  /\ Pick(S) \in S
         /\ Sum(h, S) = h[Pick(S)] + Sum(h, S \ {Pick(S)})
<1>1. Pick(S) \in S
  BY DEF Pick
<1> DEFINE R == S \ {Pick(S)}
<1>2. PICK i : SumsBelow(i, h, S)
  BY SumsExist
<1>3. IsFiniteSet(R) /\ R \subseteq S
  BY FS_Subset
<1>4. PICK j : SumsBelow(j, h, R)
  BY <1>3, SumsExist
<1>5. Sum(h, R) = j[R] /\ Sum(h, S) = i[S]
  BY <1>2, <1>3, <1>4, SumIsOfSums
<1>6. j[R] = i[R]
  <2> HIDE DEF R
  <2>1. \A T \in SUBSET R : j[T] = i[T]
    BY <1>2, <1>3, <1>4, SumsAgree
  <2> QED BY <2>1
<1>7. i[S] = h[Pick(S)] + i[R]
  BY <1>2 DEF SumsBelow, Sums
<1> QED BY <1>1, <1>5, <1>6, <1>7

(***************************************************************************)
(* A sum of naturals is a natural.                                         *)
(***************************************************************************)
LEMMA SumIsNatural ==
  ASSUME NEW h, NEW S, IsFiniteSet(S), \A x \in S : h[x] \in Nat
  PROVE  Sum(h, S) \in Nat
<1> DEFINE Bad == {n \in Nat : \E T \in SUBSET S : Cardinality(T) = n /\ Sum(h, T) \notin Nat}
<1>1. SUFFICES ASSUME Bad # {}
               PROVE  FALSE
  <2>1. Cardinality(S) \in Nat
    BY FS_CardinalityType
  <2> QED BY <2>1
<1>2. PICK m \in Bad : \A n \in Bad : ~ (n < m)
  BY <1>1, LeastNatural
<1>3. PICK T \in SUBSET S : Cardinality(T) = m /\ Sum(h, T) \notin Nat
  OBVIOUS
<1>4. T # {}
  BY <1>3, SumOfNone
<1>5. IsFiniteSet(T)
  BY FS_Subset
<1>6. Pick(T) \in T /\ Sum(h, T) = h[Pick(T)] + Sum(h, T \ {Pick(T)})
  BY <1>4, <1>5, SumOfPick
<1>7. Sum(h, T \ {Pick(T)}) \notin Nat
  BY <1>3, <1>6
<1>8. Cardinality(T \ {Pick(T)}) = m - 1 /\ m - 1 \in Nat
  <2>1. IsFiniteSet(T \ {Pick(T)}) /\ Cardinality(T \ {Pick(T)}) = Cardinality(T) - 1
    BY <1>5, <1>6, FS_RemoveElement
  <2>2. Cardinality(T \ {Pick(T)}) \in Nat
    BY <2>1, FS_CardinalityType
  <2> QED BY <1>3, <2>1, <2>2
<1>9. m - 1 \in Bad /\ m \in Nat
  BY <1>7, <1>8
<1> HIDE DEF Bad
<1> QED BY <1>2, <1>9

(***************************************************************************)
(* One more element adds its value, whichever element the sum picks first. *)
(***************************************************************************)
LEMMA SumOfOneMore ==
  ASSUME NEW h, NEW S, NEW x, IsFiniteSet(S), x \notin S,
         \A y \in S \cup {x} : h[y] \in Nat
  PROVE  Sum(h, S \cup {x}) = h[x] + Sum(h, S)
<1> DEFINE Holds(T, y) == Sum(h, T \cup {y}) = h[y] + Sum(h, T)
           Bad == {n \in Nat : \E T \in SUBSET (S \cup {x}) : \E y \in S \cup {x} :
                    y \notin T /\ Cardinality(T) = n /\ ~ Holds(T, y)}
<1>0. IsFiniteSet(S \cup {x})
  BY FS_AddElement
<1>1. SUFFICES ASSUME Bad # {}
               PROVE  FALSE
  <2>1. Cardinality(S) \in Nat
    BY FS_CardinalityType
  <2> QED BY <2>1
<1>2. PICK m \in Bad : \A n \in Bad : ~ (n < m)
  BY <1>1, LeastNatural
<1>3. PICK T \in SUBSET (S \cup {x}), y \in S \cup {x} :
        y \notin T /\ Cardinality(T) = m /\ ~ Holds(T, y)
  OBVIOUS
<1> DEFINE p == Pick(T \cup {y})
           R == T \ {p}
<1>4. IsFiniteSet(T) /\ IsFiniteSet(T \cup {y}) /\ IsFiniteSet(R)
  BY <1>0, FS_Subset, FS_AddElement
<1>5. p \in T \cup {y} /\ Sum(h, T \cup {y}) = h[p] + Sum(h, (T \cup {y}) \ {p})
  <2>1. T \cup {y} # {}
    OBVIOUS
  <2> QED BY <1>4, <2>1, SumOfPick
<1> HIDE DEF p
<1>6. p # y
  <2>1. SUFFICES ASSUME p = y
                 PROVE  Holds(T, y)
    BY <1>3
  <2>2. (T \cup {y}) \ {p} = T
    BY <1>3, <2>1
  <2> QED BY <1>5, <2>1, <2>2
<1>7. /\ p \in T /\ R \subseteq S \cup {x} /\ y \notin R /\ p \notin R
      /\ (T \cup {y}) \ {p} = R \cup {y} /\ R \cup {p} = T
  BY <1>3, <1>5, <1>6
<1>8. Cardinality(R) = m - 1 /\ m - 1 \in Nat /\ m \in Nat
  <2>1. Cardinality(R) = m - 1
    BY <1>3, <1>4, <1>7, FS_RemoveElement
  <2>2. Cardinality(R) \in Nat
    BY <1>4, FS_CardinalityType
  <2> QED BY <2>1, <2>2
<1>9. m - 1 \notin Bad
  <2> HIDE DEF Bad
  <2> QED BY <1>2, <1>8
<1>10. Holds(R, y) /\ Holds(R, p)
  <2>1. p \in S \cup {x} /\ p \notin R /\ y \notin R
    BY <1>7
  <2> HIDE DEF Holds
  <2> QED BY <1>7, <1>8, <1>9, <2>1
<1>11. Sum(h, T) = h[p] + Sum(h, R) /\ Sum(h, R \cup {y}) = h[y] + Sum(h, R)
  BY <1>7, <1>10
<1>12. Sum(h, R) \in Nat /\ h[p] \in Nat /\ h[y] \in Nat
  BY <1>4, <1>7, SumIsNatural
<1>13. Sum(h, T \cup {y}) = h[p] + (h[y] + Sum(h, R))
  BY <1>5, <1>7, <1>11
<1>14. Sum(h, T \cup {y}) = h[y] + Sum(h, T)
  <2>1. h[p] + (h[y] + Sum(h, R)) = h[y] + (h[p] + Sum(h, R))
    BY <1>12
  <2> QED BY <1>11, <1>13, <2>1
<1> QED BY <1>3, <1>14

(***************************************************************************)
(* No value is above the sum, and the sum is not above what it would be    *)
(* with all values at a bound of theirs.                                   *)
(***************************************************************************)
LEMMA SumIsAboveEach ==
  ASSUME NEW h, NEW S, NEW x \in S, IsFiniteSet(S), \A y \in S : h[y] \in Nat
  PROVE  h[x] <= Sum(h, S)
<1> DEFINE R == S \ {x}
<1>1. IsFiniteSet(R) /\ x \notin R /\ R \cup {x} = S
  BY FS_Subset
<1>2. Sum(h, R) \in Nat
  BY <1>1, SumIsNatural
<1>3. Sum(h, S) = h[x] + Sum(h, R)
  <2> HIDE DEF R
  <2>1. Sum(h, R \cup {x}) = h[x] + Sum(h, R)
    BY <1>1, SumOfOneMore
  <2> QED BY <1>1, <2>1
<1>4. h[x] \in Nat
  OBVIOUS
<1> HIDE DEF R
<1> QED BY <1>2, <1>3, <1>4

LEMMA SumIsBounded ==
  ASSUME NEW h, NEW S, NEW b \in Nat, IsFiniteSet(S), \A x \in S : h[x] \in Nat /\ h[x] <= b
  PROVE  Sum(h, S) <= Cardinality(S) * b
<1> DEFINE Bad == {n \in Nat : \E T \in SUBSET S : Cardinality(T) = n /\ ~ Sum(h, T) <= n * b}
<1>1. SUFFICES ASSUME Bad # {}
               PROVE  FALSE
  <2>1. Cardinality(S) \in Nat
    BY FS_CardinalityType
  <2> QED BY <2>1
<1>2. PICK m \in Bad : \A n \in Bad : ~ (n < m)
  BY <1>1, LeastNatural
<1>3. PICK T \in SUBSET S : Cardinality(T) = m /\ ~ Sum(h, T) <= m * b
  OBVIOUS
<1>4. T # {}
  <2>1. SUFFICES ASSUME T = {}
                 PROVE  Sum(h, T) <= m * b
    BY <1>3
  <2>2. m = 0 /\ Sum(h, T) = 0
    BY <1>3, <2>1, SumOfNone, FS_EmptySet
  <2> QED BY <2>2
<1>5. IsFiniteSet(T)
  BY FS_Subset
<1>6. Pick(T) \in T /\ Sum(h, T) = h[Pick(T)] + Sum(h, T \ {Pick(T)})
  BY <1>4, <1>5, SumOfPick
<1>7. Cardinality(T \ {Pick(T)}) = m - 1 /\ m - 1 \in Nat /\ m \in Nat
  <2>1. IsFiniteSet(T \ {Pick(T)}) /\ Cardinality(T \ {Pick(T)}) = Cardinality(T) - 1
    BY <1>5, <1>6, FS_RemoveElement
  <2>2. Cardinality(T \ {Pick(T)}) \in Nat
    BY <2>1, FS_CardinalityType
  <2> QED BY <1>3, <2>1, <2>2
<1>8. Sum(h, T \ {Pick(T)}) <= (m - 1) * b
  <2>1. m - 1 \notin Bad
    <3> HIDE DEF Bad
    <3> QED BY <1>2, <1>7
  <2> QED BY <1>7, <2>1
<1>9. Sum(h, T \ {Pick(T)}) \in Nat /\ h[Pick(T)] \in Nat /\ h[Pick(T)] <= b
  <2>1. IsFiniteSet(T \ {Pick(T)})
    BY <1>5, FS_Subset
  <2> QED BY <1>6, <2>1, SumIsNatural
<1>10. m * b = (m - 1) * b + b /\ (m - 1) * b \in Nat
  <2> HIDE DEF Bad
  <2> QED BY <1>7
<1> QED BY <1>3, <1>6, <1>8, <1>9, <1>10

(***************************************************************************)
(* The sum of h[x] + b over S, as MapThenSumSet computes it, is the sum of *)
(* h and b once for each element.                                          *)
(***************************************************************************)
ShiftedSums(iter, h, b, S) ==
  iter = [T \in SUBSET S |-> IF T = {} THEN 0
                             ELSE (h[Pick(T)] + b) + iter[T \ {Pick(T)}]]

LEMMA SumOfShifted ==
  ASSUME NEW h, NEW S, NEW b, IsFiniteSet(S), \A x \in S : h[x] \in Nat, b \in Nat
  PROVE  MapThenSumSet(LAMBDA x : h[x] + b, S) = Sum(h, S) + Cardinality(S) * b
<1> DEFINE g == [x \in S |-> h[x] + b]
           r == CHOOSE i : ShiftedSums(i, h, b, S)
           Bad == {n \in Nat : \E T \in SUBSET S :
                     Cardinality(T) = n /\ Sum(g, T) # Sum(h, T) + n * b}
<1>1. ASSUME NEW i
      PROVE  ShiftedSums(i, h, b, S) <=> SumsBelow(i, g, S)
  <2>1. \A T \in SUBSET S : T # {} => g[Pick(T)] = h[Pick(T)] + b
    BY DEF Pick
  <2> HIDE DEF g
  <2>2. [T \in SUBSET S |-> IF T = {} THEN 0 ELSE g[Pick(T)] + i[T \ {Pick(T)}]]
          = [T \in SUBSET S |-> IF T = {} THEN 0
                                ELSE (h[Pick(T)] + b) + i[T \ {Pick(T)}]]
    BY <2>1
  <2> QED BY <2>2 DEF ShiftedSums, SumsBelow, Sums
<1>2. SumsBelow(r, g, S)
  <2> HIDE DEF g
  <2> QED BY <1>1, SumsExist
<1>3. MapThenSumSet(LAMBDA x : h[x] + b, S) = Sum(g, S)
  <2>1. MapThenSumSet(LAMBDA x : h[x] + b, S) = r[S]
    BY DEF MapThenSumSet, MapThenFoldSet, ShiftedSums, Pick
  <2> HIDE DEF g, r
  <2> QED BY <1>2, <2>1, SumIsOfSums
<1>4. \A x \in S : g[x] = h[x] + b /\ g[x] \in Nat
  OBVIOUS
<1> HIDE DEF g, r
<1>5. SUFFICES ASSUME Bad # {}
               PROVE  FALSE
  <2>1. Cardinality(S) \in Nat
    BY FS_CardinalityType
  <2> QED BY <1>3, <2>1
<1>6. PICK m \in Bad : \A n \in Bad : ~ (n < m)
  BY <1>5, LeastNatural
<1>7. PICK T \in SUBSET S : Cardinality(T) = m /\ Sum(g, T) # Sum(h, T) + m * b
  OBVIOUS
<1>8. T # {}
  <2>1. SUFFICES ASSUME T = {}
                 PROVE  Sum(g, T) = Sum(h, T) + m * b
    BY <1>7
  <2>2. m = 0 /\ Sum(g, T) = 0 /\ Sum(h, T) = 0
    BY <1>7, <2>1, SumOfNone, FS_EmptySet
  <2> QED BY <2>2
<1> DEFINE R == T \ {Pick(T)}
<1>9. IsFiniteSet(T) /\ IsFiniteSet(R) /\ Pick(T) \in S
  BY <1>8, FS_Subset DEF Pick
<1>10. /\ Sum(h, T) = h[Pick(T)] + Sum(h, R)
       /\ Sum(g, T) = g[Pick(T)] + Sum(g, R)
       /\ Pick(T) \in T
  BY <1>8, <1>9, SumOfPick
<1>11. Cardinality(R) = m - 1 /\ m - 1 \in Nat /\ m \in Nat
  <2>1. Cardinality(R) = Cardinality(T) - 1
    BY <1>9, <1>10, FS_RemoveElement
  <2>2. Cardinality(R) \in Nat
    BY <1>9, FS_CardinalityType
  <2> QED BY <1>7, <2>1, <2>2
<1>12. Sum(g, R) = Sum(h, R) + (m - 1) * b
  <2>1. m - 1 \notin Bad
    <3> HIDE DEF Bad
    <3> QED BY <1>6, <1>11
  <2> QED BY <1>11, <2>1
<1>13. Sum(h, R) \in Nat /\ h[Pick(T)] \in Nat /\ g[Pick(T)] = h[Pick(T)] + b
  BY <1>4, <1>9, SumIsNatural
<1>14. m * b = (m - 1) * b + b /\ (m - 1) * b \in Nat
  <2> HIDE DEF Bad, R
  <2> QED BY <1>11
<1> QED BY <1>7, <1>10, <1>12, <1>13, <1>14

-----------------------------------------------------------------------------
(***************************************************************************)
(* Products of a sequence of factors, one after the other: they exist, and *)
(* of two the one with the larger factors, one of them really larger, is   *)
(* the larger.                                                             *)
(***************************************************************************)
Products(p, factor, n) ==
  p = [k \in 0 .. n |-> IF k = 0 THEN 1 ELSE factor[k] * p[k - 1]]

LEMMA ProductsExist ==
  ASSUME NEW factor, NEW n \in Nat
  PROVE  \E p : Products(p, factor, n)
<1> DEFINE Bad == {k \in Nat : ~ \E p : Products(p, factor, k)}
<1>1. 0 \notin Bad
  <2>1. Products([k \in 0 .. 0 |-> 1], factor, 0)
    BY DEF Products
  <2> QED BY <2>1
<1>2. ASSUME NEW k \in Nat, k \notin Bad
      PROVE  k + 1 \notin Bad
  <2>1. PICK p : Products(p, factor, k)
    BY <1>2
  <2> DEFINE q == [i \in 0 .. k + 1 |-> IF i = 0 THEN 1 ELSE factor[i] * p[i - 1]]
  <2>2. \A i \in 0 .. k : q[i] = p[i]
    BY <2>1 DEF Products
  <2>3. ASSUME NEW i \in 0 .. k + 1
        PROVE  q[i] = IF i = 0 THEN 1 ELSE factor[i] * q[i - 1]
    <3>1. i # 0 => i - 1 \in 0 .. k
      OBVIOUS
    <3> QED BY <2>2, <3>1
  <2>4. q = [i \in 0 .. k + 1 |-> q[i]]
    OBVIOUS
  <2>5. Products(q, factor, k + 1)
    <3> HIDE DEF q
    <3> QED BY <2>3, <2>4 DEF Products
  <2> QED BY <2>5
<1>3. Bad = {}
  <2>1. SUFFICES ASSUME Bad # {}
                 PROVE  FALSE
    OBVIOUS
  <2>2. PICK k \in Bad : \A j \in Bad : ~ (j < k)
    BY <2>1, LeastNatural
  <2>3. k \in Nat /\ k # 0
    BY <1>1
  <2>4. k - 1 \in Nat /\ k - 1 \notin Bad
    <3> HIDE DEF Bad
    <3> QED BY <2>2, <2>3
  <2>5. (k - 1) + 1 \notin Bad
    BY <1>2, <2>4
  <2>6. (k - 1) + 1 = k
    BY <2>3
  <2> QED BY <2>2, <2>5, <2>6
<1> QED BY <1>3

LEMMA LargerFactors ==
  ASSUME NEW x \in Nat \ {0}, NEW y \in Nat, NEW a \in Nat \ {0}, NEW b \in Nat,
         x <= y, a <= b
  PROVE  /\ x * a \in Nat \ {0} /\ y * b \in Nat \ {0} /\ x * a <= y * b
         /\ x < y \/ a < b => x * a < y * b
<1>1. x * a \in Nat /\ x * b \in Nat /\ y * b \in Nat
  OBVIOUS
<1>2. x * a <= x * b /\ x * b <= y * b /\ x * a >= 1
  OBVIOUS
<1>3. x < y => x * b < y * b
  OBVIOUS
<1>4. a < b => x * a < x * b
  OBVIOUS
<1> QED BY <1>1, <1>2, <1>3, <1>4

LEMMA ProductsGrow ==
  ASSUME NEW n \in Nat, NEW g, NEW h, NEW p, NEW q, NEW j \in 1 .. n,
         Products(p, g, n), Products(q, h, n),
         \A k \in 1 .. n : g[k] \in Nat \ {0} /\ h[k] \in Nat /\ g[k] <= h[k],
         g[j] < h[j]
  PROVE  p[n] \in Nat \ {0} /\ q[n] \in Nat \ {0} /\ p[n] < q[n]
<1> DEFINE Ordered(i) == /\ p[i] \in Nat \ {0} /\ q[i] \in Nat /\ p[i] <= q[i]
                         /\ i >= j => p[i] < q[i]
           Bad == {i \in 0 .. n : ~ Ordered(i)}
<1>1. Bad = {}
  <2>1. SUFFICES ASSUME Bad # {}
                 PROVE  FALSE
    OBVIOUS
  <2>2. PICK i \in Bad : \A l \in Bad : ~ (l < i)
    <3>1. Bad \subseteq Nat
      OBVIOUS
    <3> HIDE DEF Bad
    <3> QED BY <2>1, <3>1, LeastNatural
  <2>3. i \in 0 .. n /\ ~ Ordered(i)
    OBVIOUS
  <2>4. i # 0
    <3>1. p[0] = 1 /\ q[0] = 1
      BY DEF Products
    <3> QED BY <2>3, <3>1
  <2>5. i - 1 \in 0 .. n /\ i - 1 < i /\ i \in 1 .. n
    BY <2>3, <2>4
  <2>6. Ordered(i - 1)
    <3>1. i - 1 \notin Bad
      <4> HIDE DEF Bad
      <4> QED BY <2>2, <2>5
    <3> HIDE DEF Ordered
    <3> QED BY <2>5, <3>1
  <2>7. p[i] = g[i] * p[i - 1] /\ q[i] = h[i] * q[i - 1]
    BY <2>3, <2>4 DEF Products
  <2>8. /\ p[i] \in Nat \ {0} /\ q[i] \in Nat /\ p[i] <= q[i]
        /\ g[i] < h[i] \/ p[i - 1] < q[i - 1] => p[i] < q[i]
    <3> DEFINE x == g[i]
               y == h[i]
               a == p[i - 1]
               b == q[i - 1]
    <3>1. x \in Nat \ {0} /\ y \in Nat /\ x <= y /\ a \in Nat \ {0} /\ b \in Nat /\ a <= b
      BY <2>5, <2>6
    <3>2. p[i] = x * a /\ q[i] = y * b
      BY <2>7
    <3> HIDE DEF x, y, a, b
    <3>3. /\ p[i] \in Nat \ {0} /\ q[i] \in Nat /\ p[i] <= q[i]
          /\ x < y \/ a < b => p[i] < q[i]
      BY <3>1, <3>2, LargerFactors
    <3> QED BY <3>3 DEF x, y, a, b
  <2>9. i >= j => g[i] < h[i] \/ p[i - 1] < q[i - 1]
    <3>1. i >= j /\ i # j => i - 1 >= j
      BY <2>5
    <3> QED BY <2>6, <3>1
  <2> QED BY <2>3, <2>8, <2>9
<1>2. Ordered(n)
  BY <1>1
<1> QED BY <1>2

LEMMA ProductOfZeros ==
  ASSUME NEW n \in Nat \ {0}, NEW g, NEW p, Products(p, g, n), \A k \in 1 .. n : g[k] = 0
  PROVE  p[n] = 0
<1> DEFINE Bad == {i \in 1 .. n : p[i] # 0}
<1>1. SUFFICES ASSUME Bad # {}
               PROVE  FALSE
  OBVIOUS
<1>2. PICK i \in Bad : \A l \in Bad : ~ (l < i)
  <2>1. Bad \subseteq Nat
    OBVIOUS
  <2> HIDE DEF Bad
  <2> QED BY <1>1, <2>1, LeastNatural
<1>3. i \in 1 .. n /\ p[i] # 0
  OBVIOUS
<1>4. p[i] = g[i] * p[i - 1] /\ g[i] = 0
  BY <1>3 DEF Products
<1>5. p[i - 1] \in Nat
  <2>1. CASE i = 1
    <3>1. p[0] = 1
      BY DEF Products
    <3> QED BY <2>1, <3>1
  <2>2. CASE i # 1
    <3>1. i - 1 \in 1 .. n /\ i - 1 < i
      BY <1>3, <2>2
    <3>2. i - 1 \notin Bad
      <4> HIDE DEF Bad
      <4> QED BY <1>2, <3>1
    <3> QED BY <3>1, <3>2
  <2> QED BY <2>1, <2>2
<1> QED BY <1>3, <1>4, <1>5
=============================================================================
