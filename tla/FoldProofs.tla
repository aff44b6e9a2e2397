----------------------------- MODULE FoldProofs -----------------------------
(***************************************************************************)
(* Facts that the proofs about ChartData and GraphicsBuild share: minima   *)
(* and maxima of sets of numbers, and what the library's fold computes     *)
(* when it adds up a function from a finite set to the integers.  It folds *)
(* over an arbitrary order of the domain, and every other order gives the  *)
(* same.  Induction on the number of elements is by the smallest set that  *)
(* would be a counterexample.                                              *)
(***************************************************************************)
EXTENDS Integers, FiniteSets, FiniteSetsExt, FiniteSetTheorems,
        WellFoundedInduction, TLAPS

LessThan == {ss \in Nat \X Nat : ss[1] < ss[2]}

\* The element that the fold takes out of s, and what it computes on a family S.
Some(s) == CHOOSE x \in s : TRUE

Sums(f, S, it) ==
  it = [s \in S |-> IF s = {} THEN 0 ELSE f[Some(s)] + it[s \ {Some(s)}]]

SumOver(f, s) == (CHOOSE it : Sums(f, SUBSET DOMAIN f, it))[s]

Small(D, n) == {s \in SUBSET D : Cardinality(s) <= n}

\* A set of natural numbers that is not empty has a minimum.
LEMMA Smallest ==
  ASSUME NEW T \in SUBSET Nat, T # {}
  PROVE  Min(T) \in T /\ \A l \in T : Min(T) <= l
<1>1. IsWellFoundedOn(LessThan, Nat)
  BY NatLessThanWellFounded, Zenon DEF OpToRel, LessThan
<1>2. PICK k \in T : \A l \in T : <<l, k>> \notin LessThan
  BY <1>1, WFMin
<1>3. \A l \in T : ~(l < k)
  BY <1>2 DEF LessThan
<1>4. \A l \in T : k <= l
  BY <1>3
<1> QED
  BY <1>4 DEF Min

\* A set of natural numbers that is bounded and not empty has a maximum.
LEMMA Largest ==
  ASSUME NEW n \in Nat, NEW T \in SUBSET (0 .. n), T # {}
  PROVE  Max(T) \in T /\ \A l \in T : Max(T) >= l
<1> DEFINE U == {n - t : t \in T}
<1>1. U \in SUBSET Nat /\ U # {}
  <2>1. \A t \in T : n - t \in Nat
    OBVIOUS
  <2> QED
    BY <2>1
<1>2. Min(U) \in U /\ \A l \in U : Min(U) <= l
  BY <1>1, Smallest
<1>3. PICK k \in T : Min(U) = n - k
  BY <1>2
<1>4. \A l \in T : k >= l
  <2> TAKE l \in T
  <2>1. n - k <= n - l
    BY <1>2, <1>3
  <2> QED
    BY <2>1
<1> QED
  BY <1>4 DEF Max

\* A minimum or maximum is the only element of its kind.
LEMMA Unique ==
  ASSUME NEW T \in SUBSET Nat, NEW k \in T
  PROVE  /\ (\A l \in T : k <= l) => Min(T) = k
         /\ (\A l \in T : k >= l) => Max(T) = k
<1>1. ASSUME \A l \in T : k <= l PROVE Min(T) = k
  <2>1. Min(T) \in T /\ \A l \in T : Min(T) <= l
    BY <1>1 DEF Min
  <2>2. Min(T) <= k /\ k <= Min(T) /\ Min(T) \in Nat
    BY <1>1, <2>1
  <2> QED
    BY <2>2
<1>2. ASSUME \A l \in T : k >= l PROVE Max(T) = k
  <2>1. Max(T) \in T /\ \A l \in T : Max(T) >= l
    BY <1>2 DEF Max
  <2>2. Max(T) >= k /\ k >= Max(T) /\ Max(T) \in Nat
    BY <1>2, <2>1
  <2> QED
    BY <2>2
<1> QED
  BY <1>1, <1>2

\* Of finite sets some one has fewest elements.
LEMMA SmallestSet ==
  ASSUME NEW D, IsFiniteSet(D), NEW Bad \in SUBSET SUBSET D, Bad # {}
  PROVE  \E t \in Bad : \A u \in Bad : ~(Cardinality(u) < Cardinality(t))
<1> DEFINE Sizes == {Cardinality(t) : t \in Bad}
<1>1. \A t \in Bad : Cardinality(t) \in Nat
  BY FS_Subset, FS_CardinalityType
<1>2. Sizes \in SUBSET Nat /\ Sizes # {}
  BY <1>1
<1>3. Min(Sizes) \in Sizes /\ \A l \in Sizes : Min(Sizes) <= l
  BY <1>2, Smallest
<1>4. PICK t \in Bad : Min(Sizes) = Cardinality(t)
  BY <1>3
<1>5. \A u \in Bad : Cardinality(t) <= Cardinality(u)
  BY <1>3, <1>4
<1>6. \A u \in Bad : ~(Cardinality(u) < Cardinality(t))
  BY <1>1, <1>5
<1> QED
  BY <1>6

\* Taking its element out of a set leaves a set with one element less.
LEMMA OneLess ==
  ASSUME NEW s, IsFiniteSet(s), s # {}, NEW x \in s
  PROVE  /\ Some(s) \in s
         /\ IsFiniteSet(s \ {x}) /\ Cardinality(s \ {x}) = Cardinality(s) - 1
         /\ Cardinality(s) \in Nat /\ Cardinality(s) >= 1
<1>1. Some(s) \in s
  BY DEF Some
<1>2. Cardinality(s) \in Nat /\ Cardinality(s) # 0
  BY FS_CardinalityType, FS_EmptySet
<1>3. IsFiniteSet(s \ {x}) /\ Cardinality(s \ {x}) = Cardinality(s) - 1
  BY FS_RemoveElement
<1> QED
  BY <1>1, <1>2, <1>3

\* The recursion of the fold has a solution on the sets up to any size.
LEMMA SumsExist ==
  ASSUME NEW f, IsFiniteSet(DOMAIN f)
  PROVE  \E it : Sums(f, SUBSET DOMAIN f, it)
<1> DEFINE D == DOMAIN f
           Open == {n \in Nat : ~ \E it : Sums(f, Small(D, n), it)}
<1>1. \A s \in SUBSET D : IsFiniteSet(s) /\ Cardinality(s) \in Nat
  BY FS_Subset, FS_CardinalityType
<1>2. Open = {}
  <2> SUFFICES ASSUME Open # {} PROVE FALSE
    OBVIOUS
  <2> DEFINE k == Min(Open)
  <2>1. k \in Open /\ \A l \in Open : k <= l
    <3>1. Open \in SUBSET Nat
      OBVIOUS
    <3> HIDE DEF Open
    <3> QED
      BY <3>1, Smallest
  <2> HIDE DEF k
  <2>2. CASE k = 0
    <3> DEFINE it == [s \in Small(D, 0) |-> 0]
    <3>1. \A s \in Small(D, 0) : s = {}
      BY <1>1, FS_EmptySet DEF Small
    <3>2. it = [s \in Small(D, 0) |->
                  IF s = {} THEN 0 ELSE f[Some(s)] + it[s \ {Some(s)}]]
      BY <3>1
    <3> QED
      BY <2>1, <2>2, <3>2 DEF Sums
  <2>3. CASE k # 0
    <3>1. k - 1 \in Nat /\ k - 1 \notin Open
      BY <2>1, <2>3
    <3>2. PICK jt : Sums(f, Small(D, k - 1), jt)
      BY <3>1
    <3> DEFINE it == [s \in Small(D, k) |->
                        IF s = {} THEN 0 ELSE f[Some(s)] + jt[s \ {Some(s)}]]
    <3>3. ASSUME NEW s \in Small(D, k), s # {}
          PROVE  /\ s \ {Some(s)} \in Small(D, k)
                 /\ it[s \ {Some(s)}] = jt[s \ {Some(s)}]
      <4> DEFINE t == s \ {Some(s)}
      <4>1. s \in SUBSET D /\ IsFiniteSet(s) /\ Cardinality(s) <= k
        BY <1>1 DEF Small
      <4>2. Some(s) \in s
        BY <3>3 DEF Some
      <4>3. /\ Cardinality(t) = Cardinality(s) - 1 /\ Cardinality(s) \in Nat
            /\ t \in SUBSET D
        BY <3>3, <4>1, <4>2, OneLess
      <4> HIDE DEF t
      <4>4. t \in Small(D, k - 1) /\ t \in Small(D, k)
        BY <2>1, <4>1, <4>3 DEF Small
      <4>5. jt[t] = IF t = {} THEN 0 ELSE f[Some(t)] + jt[t \ {Some(t)}]
        BY <3>2, <4>4 DEF Sums
      <4> QED
        BY <4>4, <4>5 DEF t
    <3>4. it = [s \in Small(D, k) |->
                  IF s = {} THEN 0 ELSE f[Some(s)] + it[s \ {Some(s)}]]
      BY <3>3
    <3> QED
      BY <2>1, <3>4 DEF Sums
  <2> QED
    BY <2>2, <2>3
<1>3. Small(D, Cardinality(D)) = SUBSET D
  BY FS_Subset DEF Small
<1>4. Cardinality(D) \in Nat
  BY FS_CardinalityType
<1> QED
  BY <1>2, <1>3, <1>4

\* So the sum over a set is computed as the fold computes it.
LEMMA SumEquation ==
  ASSUME NEW f, IsFiniteSet(DOMAIN f), NEW s \in SUBSET DOMAIN f
  PROVE  SumOver(f, s) = IF s = {} THEN 0
                         ELSE f[Some(s)] + SumOver(f, s \ {Some(s)})
<1> DEFINE it == CHOOSE it : Sums(f, SUBSET DOMAIN f, it)
<1>1. Sums(f, SUBSET DOMAIN f, it)
  BY SumsExist
<1> HIDE DEF it
<1>2. it[s] = IF s = {} THEN 0 ELSE f[Some(s)] + it[s \ {Some(s)}]
  BY <1>1 DEF Sums
<1> QED
  BY <1>2 DEF SumOver, it

\* The empty sum is zero.
LEMMA SumEmpty ==
  ASSUME NEW f, IsFiniteSet(DOMAIN f)
  PROVE  SumOver(f, {}) = 0
<1>1. {} \in SUBSET DOMAIN f
  OBVIOUS
<1> QED
  BY <1>1, SumEquation

\* The sum of integers is an integer.
LEMMA SumInt ==
  ASSUME NEW f, IsFiniteSet(DOMAIN f), \A x \in DOMAIN f : f[x] \in Int,
         NEW s \in SUBSET DOMAIN f
  PROVE  SumOver(f, s) \in Int
<1> DEFINE Bad == {t \in SUBSET DOMAIN f : SumOver(f, t) \notin Int}
<1> SUFFICES ASSUME Bad # {} PROVE FALSE
  OBVIOUS
<1>1. \A t \in SUBSET DOMAIN f : IsFiniteSet(t) /\ Cardinality(t) \in Nat
  BY FS_Subset, FS_CardinalityType
<1>2. PICK t \in Bad : \A u \in Bad : ~(Cardinality(u) < Cardinality(t))
  <2>1. Bad \in SUBSET SUBSET DOMAIN f
    OBVIOUS
  <2> HIDE DEF Bad
  <2> QED
    BY <2>1, SmallestSet
<1>3. t \in SUBSET DOMAIN f /\ SumOver(f, t) \notin Int /\ IsFiniteSet(t)
  BY <1>1, <1>2
<1>4. t # {}
  BY <1>3, SumEmpty
<1> DEFINE u == t \ {Some(t)}
<1>5. /\ Some(t) \in t /\ u \in SUBSET DOMAIN f
      /\ Cardinality(u) = Cardinality(t) - 1 /\ Cardinality(t) \in Nat
  <2>1. Some(t) \in t
    BY <1>4 DEF Some
  <2> QED
    BY <1>3, <1>4, <2>1, OneLess
<1>6. u \notin Bad
  BY <1>2, <1>5
<1>7. SumOver(f, u) \in Int /\ f[Some(t)] \in Int
  BY <1>3, <1>5, <1>6
<1>8. SumOver(f, t) = f[Some(t)] + SumOver(f, u)
  BY <1>3, <1>4, SumEquation
<1> QED
  BY <1>3, <1>7, <1>8

\* Whatever element is taken out first, the sum is the same.
LEMMA SumStep ==
  ASSUME NEW f, IsFiniteSet(DOMAIN f), \A x \in DOMAIN f : f[x] \in Int,
         NEW s \in SUBSET DOMAIN f, NEW x \in s
  PROVE  SumOver(f, s) = f[x] + SumOver(f, s \ {x})
<1> DEFINE Bad == {t \in SUBSET DOMAIN f :
                     \E y \in t : SumOver(f, t) # f[y] + SumOver(f, t \ {y})}
<1> SUFFICES ASSUME Bad # {} PROVE FALSE
  OBVIOUS
<1>1. \A t \in SUBSET DOMAIN f : IsFiniteSet(t) /\ Cardinality(t) \in Nat
  BY FS_Subset, FS_CardinalityType
<1>2. PICK t \in Bad : \A u \in Bad : ~(Cardinality(u) < Cardinality(t))
  <2>1. Bad \in SUBSET SUBSET DOMAIN f
    OBVIOUS
  <2> HIDE DEF Bad
  <2> QED
    BY <2>1, SmallestSet
<1>3. t \in SUBSET DOMAIN f /\ IsFiniteSet(t)
  BY <1>1, <1>2
<1>4. PICK y \in t : SumOver(f, t) # f[y] + SumOver(f, t \ {y})
  BY <1>2
<1> DEFINE z == Some(t)
<1>5. z \in t
  BY <1>4 DEF Some
<1>6. SumOver(f, t) = f[z] + SumOver(f, t \ {z})
  BY <1>3, <1>4, SumEquation
<1> HIDE DEF z
<1>7. y # z
  BY <1>4, <1>6
<1> DEFINE u == t \ {z}
           w == t \ {y}
<1>8. /\ u \in SUBSET DOMAIN f /\ w \in SUBSET DOMAIN f
      /\ Cardinality(u) = Cardinality(t) - 1
      /\ Cardinality(w) = Cardinality(t) - 1
      /\ Cardinality(t) \in Nat
  BY <1>3, <1>4, <1>5, OneLess
<1>9. u \notin Bad /\ w \notin Bad
  <2>1. Cardinality(u) < Cardinality(t) /\ Cardinality(w) < Cardinality(t)
    BY <1>8
  <2> HIDE DEF Bad, u, w
  <2> QED
    BY <1>2, <2>1
<1>10. y \in u /\ z \in w /\ u \ {y} = w \ {z}
  BY <1>4, <1>5, <1>7
<1> HIDE DEF u, w
<1>11. /\ SumOver(f, u) = f[y] + SumOver(f, u \ {y})
       /\ SumOver(f, w) = f[z] + SumOver(f, w \ {z})
  BY <1>8, <1>9, <1>10
<1>12. SumOver(f, u \ {y}) \in Int /\ f[y] \in Int /\ f[z] \in Int
  <2>1. u \ {y} \in SUBSET DOMAIN f
    BY <1>8
  <2> QED
    BY <1>3, <1>4, <1>5, <2>1, SumInt
<1>13. SumOver(f, t) = f[z] + (f[y] + SumOver(f, u \ {y}))
  BY <1>6, <1>11 DEF u
<1>14. SumOver(f, t) = f[y] + (f[z] + SumOver(f, u \ {y}))
  BY <1>12, <1>13
<1> QED
  BY <1>4, <1>10, <1>11, <1>14 DEF w

-----------------------------------------------------------------------------
(***************************************************************************)
(* What follows of sums of numbers within bounds                           *)
(***************************************************************************)
\* One more addend between lo and hi widens the bounds by just these.
LEMMA OneMore ==
  ASSUME NEW c \in Nat, c >= 1, NEW lo \in Nat, NEW hi \in Nat, NEW v \in Nat,
         NEW r \in Int, lo <= v, v <= hi, (c - 1) * lo <= r, r <= (c - 1) * hi
  PROVE  c * lo <= v + r /\ v + r <= c * hi
<1>1. c * lo = (c - 1) * lo + lo /\ c * hi = (c - 1) * hi + hi
  OBVIOUS
<1>2. (c - 1) * lo \in Int /\ (c - 1) * hi \in Int
  OBVIOUS
<1> QED
  BY <1>1, <1>2

\* The sum lies between its number of addends times the smallest and times the
\* largest of them.
LEMMA SumBounds ==
  ASSUME NEW f, IsFiniteSet(DOMAIN f), NEW lo \in Nat, NEW hi \in Nat,
         \A x \in DOMAIN f : f[x] \in Nat /\ lo <= f[x] /\ f[x] <= hi,
         NEW s \in SUBSET DOMAIN f
  PROVE  /\ Cardinality(s) * lo <= SumOver(f, s)
         /\ SumOver(f, s) <= Cardinality(s) * hi
<1> DEFINE In(t) == /\ Cardinality(t) * lo <= SumOver(f, t)
                    /\ SumOver(f, t) <= Cardinality(t) * hi
           Bad == {t \in SUBSET DOMAIN f : ~In(t)}
<1> SUFFICES ASSUME Bad # {} PROVE FALSE
  OBVIOUS
<1>1. \A t \in SUBSET DOMAIN f : IsFiniteSet(t) /\ Cardinality(t) \in Nat
  BY FS_Subset, FS_CardinalityType
<1>2. PICK t \in Bad : \A u \in Bad : ~(Cardinality(u) < Cardinality(t))
  <2>1. Bad \in SUBSET SUBSET DOMAIN f
    OBVIOUS
  <2> HIDE DEF Bad
  <2> QED
    BY <2>1, SmallestSet
<1>3. t \in SUBSET DOMAIN f /\ IsFiniteSet(t) /\ ~In(t)
  BY <1>1, <1>2
<1>4. t # {}
  <2>1. SumOver(f, {}) = 0 /\ Cardinality({}) = 0
    BY SumEmpty, FS_EmptySet
  <2>2. 0 * lo = 0 /\ 0 * hi = 0
    OBVIOUS
  <2> QED
    BY <1>3, <2>1, <2>2
<1> DEFINE x == Some(t)
           u == t \ {x}
<1>5. /\ x \in t /\ u \in SUBSET DOMAIN f
      /\ Cardinality(u) = Cardinality(t) - 1 /\ Cardinality(t) \in Nat
      /\ Cardinality(t) >= 1
  <2>1. x \in t
    BY <1>4 DEF Some
  <2> QED
    BY <1>3, <1>4, <2>1, OneLess
<1>6. SumOver(f, t) = f[x] + SumOver(f, u)
  BY <1>3, <1>4, SumEquation
<1>7. In(u)
  BY <1>2, <1>5
<1>8. SumOver(f, u) \in Int
  BY <1>5, SumInt
<1>9. f[x] \in Nat /\ lo <= f[x] /\ f[x] <= hi
  BY <1>3, <1>5
<1> HIDE DEF x, u
<1>10. /\ (Cardinality(t) - 1) * lo <= SumOver(f, u)
       /\ SumOver(f, u) <= (Cardinality(t) - 1) * hi
  BY <1>5, <1>7
<1>11. In(t)
  BY <1>5, <1>6, <1>8, <1>9, <1>10, OneMore
<1> QED
  BY <1>3, <1>11

\* A sum of natural numbers is one, and not below any addend.
LEMMA SumAtLeast ==
  ASSUME NEW f, IsFiniteSet(DOMAIN f), \A x \in DOMAIN f : f[x] \in Nat
  PROVE  /\ \A s \in SUBSET DOMAIN f : SumOver(f, s) \in Nat
         /\ \A x \in DOMAIN f : f[x] <= SumOver(f, DOMAIN f)
<1>1. ASSUME NEW s \in SUBSET DOMAIN f PROVE SumOver(f, s) \in Nat
  <2> DEFINE Bad == {t \in SUBSET DOMAIN f : SumOver(f, t) \notin Nat}
  <2> SUFFICES ASSUME Bad # {} PROVE FALSE
    OBVIOUS
  <2>1. \A t \in SUBSET DOMAIN f : IsFiniteSet(t) /\ Cardinality(t) \in Nat
    BY FS_Subset, FS_CardinalityType
  <2>2. PICK t \in Bad : \A u \in Bad : ~(Cardinality(u) < Cardinality(t))
    <3>1. Bad \in SUBSET SUBSET DOMAIN f
      OBVIOUS
    <3> HIDE DEF Bad
    <3> QED
      BY <3>1, SmallestSet
  <2>3. t \in SUBSET DOMAIN f /\ IsFiniteSet(t) /\ SumOver(f, t) \notin Nat
    BY <2>1, <2>2
  <2>4. t # {}
    BY <2>3, SumEmpty
  <2> DEFINE u == t \ {Some(t)}
  <2>5. /\ Some(t) \in t /\ u \in SUBSET DOMAIN f
        /\ Cardinality(u) = Cardinality(t) - 1 /\ Cardinality(t) \in Nat
    <3>1. Some(t) \in t
      BY <2>4 DEF Some
    <3> QED
      BY <2>3, <2>4, <3>1, OneLess
  <2>6. SumOver(f, u) \in Nat /\ f[Some(t)] \in Nat
    BY <2>2, <2>3, <2>5
  <2>7. SumOver(f, t) = f[Some(t)] + SumOver(f, u)
    BY <2>3, <2>4, SumEquation
  <2> QED
    BY <2>3, <2>6, <2>7
<1>2. ASSUME NEW x \in DOMAIN f PROVE f[x] <= SumOver(f, DOMAIN f)
  <2>1. SumOver(f, DOMAIN f) = f[x] + SumOver(f, (DOMAIN f) \ {x})
    BY SumStep
  <2>2. SumOver(f, (DOMAIN f) \ {x}) \in Nat /\ f[x] \in Nat
    BY <1>1
  <2> QED
    BY <2>1, <2>2
<1> QED
  BY <1>1, <1>2

\* A sum over the numbers 2 to 6, written out.
LEMMA SumOfFive ==
  ASSUME NEW f, DOMAIN f = 2 .. 6, \A x \in 2 .. 6 : f[x] \in Int
  PROVE  SumOver(f, DOMAIN f) = f[2] + f[3] + f[4] + f[5] + f[6]
<1>1. IsFiniteSet(DOMAIN f)
  <2>1. 2 \in Int /\ 6 \in Int
    OBVIOUS
  <2> QED
    BY <2>1, FS_Interval
<1>2. /\ (DOMAIN f) \ {2} = 3 .. 6 /\ (3 .. 6) \ {3} = 4 .. 6
      /\ (4 .. 6) \ {4} = 5 .. 6 /\ (5 .. 6) \ {5} = 6 .. 6
      /\ (6 .. 6) \ {6} = {}
  OBVIOUS
<1>3. /\ 3 .. 6 \in SUBSET DOMAIN f /\ 4 .. 6 \in SUBSET DOMAIN f
      /\ 5 .. 6 \in SUBSET DOMAIN f /\ 6 .. 6 \in SUBSET DOMAIN f
      /\ {} \in SUBSET DOMAIN f
      /\ 2 \in DOMAIN f /\ 3 \in 3 .. 6 /\ 4 \in 4 .. 6 /\ 5 \in 5 .. 6
      /\ 6 \in 6 .. 6
  OBVIOUS
<1>4. /\ SumOver(f, DOMAIN f) = f[2] + SumOver(f, 3 .. 6)
      /\ SumOver(f, 3 .. 6) = f[3] + SumOver(f, 4 .. 6)
      /\ SumOver(f, 4 .. 6) = f[4] + SumOver(f, 5 .. 6)
      /\ SumOver(f, 5 .. 6) = f[5] + SumOver(f, 6 .. 6)
      /\ SumOver(f, 6 .. 6) = f[6] + SumOver(f, {})
  <2>1. \A x \in DOMAIN f : f[x] \in Int
    OBVIOUS
  <2>2. SumOver(f, DOMAIN f) = f[2] + SumOver(f, 3 .. 6)
    BY <1>1, <1>2, <1>3, <2>1, SumStep
  <2>3. SumOver(f, 3 .. 6) = f[3] + SumOver(f, 4 .. 6)
    BY <1>1, <1>2, <1>3, <2>1, SumStep
  <2>4. SumOver(f, 4 .. 6) = f[4] + SumOver(f, 5 .. 6)
    BY <1>1, <1>2, <1>3, <2>1, SumStep
  <2>5. SumOver(f, 5 .. 6) = f[5] + SumOver(f, 6 .. 6)
    BY <1>1, <1>2, <1>3, <2>1, SumStep
  <2>6. SumOver(f, 6 .. 6) = f[6] + SumOver(f, {})
    BY <1>1, <1>2, <1>3, <2>1, SumStep
  <2> QED
    BY <2>2, <2>3, <2>4, <2>5, <2>6
<1>5. SumOver(f, {}) = 0
  BY <1>1, SumEmpty
<1>6. /\ f[2] \in Int /\ f[3] \in Int /\ f[4] \in Int /\ f[5] \in Int
      /\ f[6] \in Int
  OBVIOUS
<1> QED
  BY <1>4, <1>5, <1>6
=============================================================================
