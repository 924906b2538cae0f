-------------------------- MODULE PlacementProofs --------------------------
(***************************************************************************)
(* For any finite number of nodes and instances, any capacities and limits,  *)
(* and any inventory the syncs leave: the scheduler picks the first node of  *)
(* its order, and the pass of a manager that schedules alone places each     *)
(* instance that fits, where it fits, and asks for a scale-out only for one  *)
(* that fits nowhere.                                                        *)
(*                                                                         *)
(* What is committed on a node is a sum over the instances on it, which the  *)
(* library defines by choosing elements one by one.  The first part shows    *)
(* that such a sum exists and does not depend on the order, by taking a      *)
(* smallest set that refutes it, which a finite set of subsets has.          *)
(***************************************************************************)
EXTENDS Placement, FiniteSetTheorems, TLAPS

-----------------------------------------------------------------------------
(* Sums over a finite set.                                                  *)

\* What a sum of w over s is, when g holds the sums of smaller sets.
Fold(w, g, s) == IF s = {} THEN 0
                 ELSE LET x == CHOOSE y \in s : TRUE IN w[x] + g[s \ {x}]

\* g holds the sums of w over the sets of D.
Sums(w, g, D) == g = [s \in D |-> Fold(w, g, s)]

\* The function of the sums of w over the subsets of S.
SumFcn(w, S) == CHOOSE g : Sums(w, g, SUBSET S)

\* A set of subsets of a finite set has a minimal one.
LEMMA MinimalSubset ==
  ASSUME NEW S, IsFiniteSet(S), NEW T \in SUBSET SUBSET S, T # {}
  PROVE  \E x \in T : \A y \in T : y \subseteq x => y = x
<1>1. IsWellFoundedOn(StrictSubsetOrdering(S), SUBSET S)
  BY FS_StrictSubsetOrderingWellFounded, FS_FiniteSubsetsOfFinite
<1>2. PICK x \in T : \A y \in T : <<y, x>> \notin StrictSubsetOrdering(S)
  BY <1>1, WFMin
<1>3. QED
  BY <1>2 DEF StrictSubsetOrdering

\* The subsets with at most k elements.
Below(S, k) == {s \in SUBSET S : Cardinality(s) <= k}

\* Over a finite set there is a function of all its sums.  The proof takes a
\* smallest set up to whose size there is none, and extends the one below it.
LEMMA SumsExist ==
  ASSUME NEW S, IsFiniteSet(S), NEW w
  PROVE  \E g : Sums(w, g, SUBSET S)
<1> DEFINE Bad == {T \in SUBSET S : ~ \E g : Sums(w, g, Below(S, Cardinality(T)))}
<1>1. Bad = {}
  <2> SUFFICES ASSUME Bad # {} PROVE FALSE
    OBVIOUS
  <2>1. PICK T \in Bad : \A U \in Bad : U \subseteq T => U = T
    <3>1. Bad \in SUBSET SUBSET S
      OBVIOUS
    <3> HIDE DEF Bad
    <3> QED BY <3>1, MinimalSubset
  <2>0. IsFiniteSet(T) /\ Cardinality(T) \in Nat
    BY FS_Subset, FS_CardinalityType
  <2>2. CASE T = {}
    <3>1. Below(S, Cardinality(T)) = {{}}
      <4>1. Cardinality(T) = 0
        BY <2>2, FS_EmptySet
      <4>2. \A s \in SUBSET S : Cardinality(s) <= 0 <=> s = {}
        BY FS_Subset, FS_EmptySet, FS_CardinalityType
      <4> QED BY <4>1, <4>2 DEF Below
    <3>2. Sums(w, [s \in {{}} |-> 0], {{}})
      BY DEF Sums, Fold
    <3> QED BY <3>1, <3>2
  <2>3. CASE T # {}
    <3>1. PICK y \in T : TRUE
      BY <2>3
    <3>2. IsFiniteSet(T \ {y}) /\ Cardinality(T \ {y}) = Cardinality(T) - 1
      BY <2>0, <3>1, FS_RemoveElement
    <3> DEFINE k == Cardinality(T)
    <3>3. T \ {y} \notin Bad
      BY <2>1, <3>1
    <3>4. PICK g : Sums(w, g, Below(S, k - 1))
      BY <3>2, <3>3
    <3> DEFINE h == [s \in Below(S, k) |-> Fold(w, g, s)]
    <3>5. ASSUME NEW s \in Below(S, k)
          PROVE  Fold(w, g, s) = Fold(w, h, s)
      <4>1. CASE s = {}
        BY <4>1 DEF Fold
      <4>2. CASE s # {}
        <5> DEFINE x == CHOOSE z \in s : TRUE
        <5>1. x \in s
          BY <4>2
        <5>2. IsFiniteSet(s) /\ Cardinality(s) \in Nat /\ Cardinality(s) <= k
          BY FS_Subset, FS_CardinalityType DEF Below
        <5>3. Cardinality(s \ {x}) = Cardinality(s) - 1
          BY <5>1, <5>2, FS_RemoveElement
        <5>4. s \ {x} \in SUBSET S
          BY DEF Below
        <5>5. s \ {x} \in Below(S, k) /\ s \ {x} \in Below(S, k - 1)
          <6> HIDE DEF x
          <6> QED BY <2>0, <5>2, <5>3, <5>4 DEF Below
        <5>6. h[s \ {x}] = Fold(w, g, s \ {x})
          BY <5>5
        <5>7. g[s \ {x}] = Fold(w, g, s \ {x})
          BY <5>5, <3>4 DEF Sums
        <5> QED BY <5>6, <5>7 DEF Fold
      <4> QED BY <4>1, <4>2
    <3>6. Sums(w, h, Below(S, k))
      <4>1. h = [s \in Below(S, k) |-> Fold(w, h, s)]
        <5> HIDE DEF h
        <5>1. h = [s \in Below(S, k) |-> Fold(w, g, s)]
          BY DEF h
        <5> QED BY <5>1, <3>5
      <4> QED BY <4>1 DEF Sums
    <3> QED BY <3>6
  <2> QED BY <2>2, <2>3
<1>2. Below(S, Cardinality(S)) = SUBSET S
  BY FS_Subset DEF Below
<1>3. S \notin Bad
  BY <1>1
<1>4. QED
  BY <1>2, <1>3

\* The sum of a finite set: nothing, or one element and the sum of the others.
LEMMA SumFcnRec ==
  ASSUME NEW S, IsFiniteSet(S), NEW w, NEW s \in SUBSET S
  PROVE  SumFcn(w, S)[s] = Fold(w, SumFcn(w, S), s)
<1>1. Sums(w, SumFcn(w, S), SUBSET S)
  BY SumsExist DEF SumFcn
<1> QED BY <1>1 DEF Sums

\* A sum of naturals is one.
LEMMA SumFcnNat ==
  ASSUME NEW S, IsFiniteSet(S), NEW w, \A x \in S : w[x] \in Nat, NEW s \in SUBSET S
  PROVE  SumFcn(w, S)[s] \in Nat
<1> DEFINE F == SumFcn(w, S)
           Bad == {T \in SUBSET S : F[T] \notin Nat}
<1> SUFFICES ASSUME Bad # {} PROVE FALSE
  OBVIOUS
<1>1. PICK T \in Bad : \A U \in Bad : U \subseteq T => U = T
  <2>1. Bad \in SUBSET SUBSET S
    OBVIOUS
  <2> HIDE DEF Bad
  <2> QED BY <2>1, MinimalSubset
<1>2. F[T] = Fold(w, F, T)
  BY SumFcnRec
<1>3. CASE T = {}
  BY <1>2, <1>3 DEF Fold
<1>4. CASE T # {}
  <2> DEFINE x == CHOOSE y \in T : TRUE
  <2>1. x \in T
    BY <1>4
  <2>2. T \ {x} \in SUBSET S /\ T \ {x} \notin Bad
    BY <1>1, <2>1
  <2>3. F[T \ {x}] \in Nat
    BY <2>2
  <2>4. F[T] = w[x] + F[T \ {x}]
    BY <1>2, <1>4 DEF Fold
  <2> QED BY <2>1, <2>3, <2>4
<1> QED BY <1>3, <1>4

\* The sum of a set does not depend on the larger set it is taken in.
LEMMA SumFcnSubset ==
  ASSUME NEW S, IsFiniteSet(S), NEW w, NEW s \in SUBSET S
  PROVE  SumFcn(w, S)[s] = SumFcn(w, s)[s]
<1> DEFINE F == SumFcn(w, S)
           G == SumFcn(w, s)
           Bad == {T \in SUBSET s : F[T] # G[T]}
<1> SUFFICES ASSUME Bad # {} PROVE FALSE
  OBVIOUS
<1>0. IsFiniteSet(s)
  BY FS_Subset
<1>1. PICK T \in Bad : \A U \in Bad : U \subseteq T => U = T
  <2>1. Bad \in SUBSET SUBSET s
    OBVIOUS
  <2> HIDE DEF Bad
  <2> QED BY <1>0, <2>1, MinimalSubset
<1>2. F[T] = Fold(w, F, T) /\ G[T] = Fold(w, G, T)
  BY <1>0, SumFcnRec
<1>3. CASE T = {}
  BY <1>2, <1>3 DEF Fold
<1>4. CASE T # {}
  <2> DEFINE x == CHOOSE y \in T : TRUE
  <2>1. x \in T
    BY <1>4
  <2>2. F[T \ {x}] = G[T \ {x}]
    BY <1>1, <2>1
  <2> QED BY <1>2, <1>4, <2>2 DEF Fold
<1> QED BY <1>3, <1>4

\* Any element can be taken out of a sum.
LEMMA SumFcnRemove ==
  ASSUME NEW S, IsFiniteSet(S), NEW w, \A x \in S : w[x] \in Nat,
         NEW s \in SUBSET S, NEW e \in s
  PROVE  SumFcn(w, S)[s] = w[e] + SumFcn(w, S)[s \ {e}]
<1> DEFINE F == SumFcn(w, S)
           Bad == {T \in SUBSET S : \E y \in T : F[T] # w[y] + F[T \ {y}]}
<1>0. \A T \in SUBSET S : F[T] \in Nat
  BY SumFcnNat
<1> SUFFICES ASSUME Bad # {} PROVE FALSE
  OBVIOUS
<1>1. PICK T \in Bad : \A U \in Bad : U \subseteq T => U = T
  <2>1. Bad \in SUBSET SUBSET S
    OBVIOUS
  <2> HIDE DEF Bad
  <2> QED BY <2>1, MinimalSubset
<1>2. PICK y \in T : F[T] # w[y] + F[T \ {y}]
  BY <1>1
<1> DEFINE x == CHOOSE z \in T : TRUE
<1>3. x \in T
  BY <1>2
<1>4. F[T] = w[x] + F[T \ {x}]
  BY <1>2, SumFcnRec DEF Fold
<1>5. x # y
  BY <1>2, <1>4
<1>6. T \ {x} \notin Bad /\ T \ {y} \notin Bad /\ T \ {x} \in SUBSET S /\ T \ {y} \in SUBSET S
  BY <1>1, <1>2, <1>3
<1>7. F[T \ {x}] = w[y] + F[(T \ {x}) \ {y}]
  BY <1>2, <1>5, <1>6
<1>8. F[T \ {y}] = w[x] + F[(T \ {y}) \ {x}]
  BY <1>3, <1>5, <1>6
<1>9. (T \ {x}) \ {y} = (T \ {y}) \ {x} /\ (T \ {x}) \ {y} \in SUBSET S
  BY <1>6
<1>10. w[x] \in Nat /\ w[y] \in Nat /\ F[(T \ {x}) \ {y}] \in Nat
  BY <1>0, <1>2, <1>3, <1>9, <1>1
<1> DEFINE R == F[(T \ {x}) \ {y}]
<1>11. w[x] + (w[y] + R) = w[y] + (w[x] + R)
  <2>1. \A a, b, r \in Nat : a + (b + r) = b + (a + r)
    OBVIOUS
  <2>2. w[x] \in Nat /\ w[y] \in Nat /\ R \in Nat
    BY <1>10
  <2> HIDE DEF R, x
  <2> QED BY <2>1, <2>2
<1>12. F[T] = w[x] + (w[y] + R) /\ F[T \ {y}] = w[x] + R
  <2>1. F[T] = w[x] + (w[y] + R)
    BY <1>4, <1>7
  <2>2. F[T \ {y}] = w[x] + R
    BY <1>8, <1>9
  <2> QED BY <2>1, <2>2
<1>13. QED
  <2> HIDE DEF F, R, x
  <2> QED BY <1>2, <1>11, <1>12

-----------------------------------------------------------------------------
(* What the placed instances of a list have committed.                      *)

\* What each instance of a list requests, and the instances on a node.
LimitFcn(insts, d) == [i \in Inst |-> LimitOf(insts, i, d)]
On(insts, n) == {i \in Inst : insts[i].node = n}

\* What the scheduler counts on a node is such a sum.
LEMMA AllocatedSum ==
  ASSUME NEW insts, NEW n, NEW d
  PROVE  Allocated(insts, n, d) = SumFcn(LimitFcn(insts, d), Inst)[On(insts, n)]
<1> DEFINE S == On(insts, n)
           w == LimitFcn(insts, d)
<1>1. Allocated(insts, n, d) =
        (CHOOSE g : g = [s \in SUBSET S |-> IF s = {} THEN 0
             ELSE LET x == CHOOSE y \in s : TRUE IN LimitOf(insts, x, d) + g[s \ {x}]])[S]
  BY DEF Allocated, MapThenSumSet, MapThenFoldSet, On
<1>2. ASSUME NEW g
      PROVE  [s \in SUBSET S |-> IF s = {} THEN 0
               ELSE LET x == CHOOSE y \in s : TRUE IN LimitOf(insts, x, d) + g[s \ {x}]]
             = [s \in SUBSET S |-> Fold(w, g, s)]
  <2>1. ASSUME NEW s \in SUBSET S, s # {}
        PROVE  w[CHOOSE y \in s : TRUE] = LimitOf(insts, CHOOSE y \in s : TRUE, d)
    <3>1. (CHOOSE y \in s : TRUE) \in Inst
      BY <2>1 DEF On
    <3> QED BY <3>1 DEF LimitFcn
  <2> HIDE DEF w
  <2> QED BY <2>1 DEF Fold
<1>3. (CHOOSE g : g = [s \in SUBSET S |-> IF s = {} THEN 0
             ELSE LET x == CHOOSE y \in s : TRUE IN LimitOf(insts, x, d) + g[s \ {x}]])
      = SumFcn(w, S)
  <2> HIDE DEF w, S
  <2> QED BY <1>2, Zenon DEF SumFcn, Sums
<1>4. SumFcn(w, S)[S] = SumFcn(w, Inst)[S]
  BY InstAssumption, SumFcnSubset DEF On
<1> QED BY <1>1, <1>3, <1>4

\* On a node without instances nothing is committed.
LEMMA NothingAllocated ==
  ASSUME NEW insts, NEW n, NEW d, \A i \in Inst : insts[i].node # n
  PROVE  Allocated(insts, n, d) = 0
<1>1. On(insts, n) = {}
  BY DEF On
<1>2. SumFcn(LimitFcn(insts, d), Inst)[{}] = 0
  BY InstAssumption, SumFcnRec DEF Fold
<1> QED BY <1>1, <1>2, AllocatedSum

\* Larger sets have larger sums.
LEMMA SumFcnMonotone ==
  ASSUME NEW S, IsFiniteSet(S), NEW w, \A x \in S : w[x] \in Nat,
         NEW t \in SUBSET S, NEW s \in SUBSET t
  PROVE  SumFcn(w, S)[s] <= SumFcn(w, S)[t]
<1> DEFINE F == SumFcn(w, S)
           Bad == {T \in SUBSET S : s \subseteq T /\ ~(F[s] <= F[T])}
<1>0. \A T \in SUBSET S : F[T] \in Nat
  BY SumFcnNat
<1> SUFFICES ASSUME Bad # {} PROVE FALSE
  OBVIOUS
<1>1. PICK T \in Bad : \A U \in Bad : U \subseteq T => U = T
  <2>1. Bad \in SUBSET SUBSET S
    OBVIOUS
  <2> HIDE DEF Bad
  <2> QED BY <2>1, MinimalSubset
<1>2. T # s
  BY <1>0
<1>3. PICK e \in T : e \notin s
  BY <1>1, <1>2
<1>4. F[T] = w[e] + F[T \ {e}]
  BY SumFcnRemove
<1>5. T \ {e} \in SUBSET S /\ T \ {e} \notin Bad /\ s \subseteq T \ {e}
  BY <1>1, <1>3
<1>6. F[s] <= F[T \ {e}]
  BY <1>5
<1>7. w[e] \in Nat /\ F[s] \in Nat /\ F[T \ {e}] \in Nat
  BY <1>0, <1>5
<1>8. F[s] <= F[T]
  <2> HIDE DEF F
  <2> QED BY <1>4, <1>6, <1>7
<1> QED BY <1>8

\* What an instance requests is a natural.
LEMMA LimitFcnNat ==
  ASSUME NEW insts, NEW d \in Dim
  PROVE  \A i \in Inst : LimitFcn(insts, d)[i] \in Nat
BY LimitAssumption DEF LimitFcn, LimitOf

\* And so is what is committed on a node.
LEMMA AllocatedNat ==
  ASSUME NEW insts, NEW n, NEW d \in Dim
  PROVE  Allocated(insts, n, d) \in Nat
<1>1. On(insts, n) \in SUBSET Inst
  BY DEF On
<1> QED BY <1>1, InstAssumption, AllocatedSum, LimitFcnNat, SumFcnNat

\* Instances that come to a node, when none leaves it, take nothing back.
LEMMA AllocatedMonotone ==
  ASSUME NEW before, NEW after, NEW n, NEW d \in Dim,
         \A i \in Inst : after[i].limited = before[i].limited,
         \A i \in Inst : before[i].node = n => after[i].node = n
  PROVE  Allocated(before, n, d) <= Allocated(after, n, d)
<1>1. LimitFcn(after, d) = LimitFcn(before, d)
  BY DEF LimitFcn, LimitOf
<1>2. On(after, n) \in SUBSET Inst /\ On(before, n) \in SUBSET On(after, n)
  BY DEF On
<1> QED BY <1>1, <1>2, InstAssumption, AllocatedSum, LimitFcnNat, SumFcnMonotone

\* One instance that comes to a node adds what it requests.
LEMMA AllocatedAdd ==
  ASSUME NEW before, NEW after, NEW n, NEW d \in Dim, NEW i \in Inst,
         \A j \in Inst : after[j].limited = before[j].limited,
         \A j \in Inst \ {i} : after[j].node = before[j].node,
         before[i].node # n, after[i].node = n
  PROVE  Allocated(after, n, d) = LimitOf(before, i, d) + Allocated(before, n, d)
<1>1. LimitFcn(after, d) = LimitFcn(before, d)
  BY DEF LimitFcn, LimitOf
<1>2. /\ On(after, n) \in SUBSET Inst /\ i \in On(after, n)
      /\ On(before, n) = On(after, n) \ {i}
  BY DEF On
<1>3. LimitFcn(before, d)[i] = LimitOf(before, i, d)
  BY DEF LimitFcn
<1> QED BY <1>1, <1>2, <1>3, InstAssumption, AllocatedSum, LimitFcnNat, SumFcnRemove

-----------------------------------------------------------------------------
(* The order of the candidates.                                             *)

\* A positive factor cancels.
LEMMA Cancel ==
  ASSUME NEW x \in Nat, NEW y \in Nat, NEW v \in Nat \ {0}
  PROVE  /\ x * v >= y * v <=> x >= y
         /\ x * v > y * v <=> x > y
<1>1. x >= y => x * v >= y * v
  OBVIOUS
<1>2. x > y => x * v > y * v
  OBVIOUS
<1>3. y > x => y * v > x * v
  OBVIOUS
<1>4. y >= x => y * v >= x * v
  OBVIOUS
<1>5. x * v \in Nat /\ y * v \in Nat
  OBVIOUS
<1> QED BY <1>1, <1>2, <1>3, <1>4, <1>5

\* Fractions s/p >= t/q >= u/r, compared by cross products.
LEMMA RatioTransitive ==
  ASSUME NEW s \in Nat, NEW t \in Nat, NEW u \in Nat,
         NEW p \in Nat \ {0}, NEW q \in Nat \ {0}, NEW r \in Nat \ {0},
         s * q >= t * p, t * r >= u * q
  PROVE  /\ s * r >= u * p
         /\ s * q > t * p \/ t * r > u * q => s * r > u * p
<1>1. /\ (s * q) * r >= (t * p) * r
      /\ s * q > t * p => (s * q) * r > (t * p) * r
  BY Cancel
<1>2. /\ (t * r) * p >= (u * q) * p
      /\ t * r > u * q => (t * r) * p > (u * q) * p
  BY Cancel
<1>3. (s * q) * r = (s * r) * q /\ (t * p) * r = (t * r) * p /\ (u * q) * p = (u * p) * q
  OBVIOUS
<1>4. /\ (s * r) * q \in Nat /\ (t * r) * p \in Nat /\ (u * p) * q \in Nat
      /\ s * r \in Nat /\ u * p \in Nat
  OBVIOUS
<1>5. /\ (s * r) * q >= (u * p) * q
      /\ s * q > t * p \/ t * r > u * q => (s * r) * q > (u * p) * q
  BY <1>1, <1>2, <1>3, <1>4
<1> QED BY <1>4, <1>5, Cancel

\* A node the order is about: all its figures are known and positive.
Sized(n) == n \in Name /\ \A d \in Dim : Capacity[n][d] \in Nat \ {0}

\* Scores are naturals, and the products they are compared with positive.
LEMMA ScoresTyped ==
  ASSUME NEW insts, NEW n, Sized(n)
  PROVE  Score(insts, n) \in Nat /\ Volume(n) \in Nat \ {0}
<1>1. \A d \in Dim : Allocated(insts, n, d) \in Nat
  BY AllocatedNat
<1>2. /\ Allocated(insts, n, "cpu") \in Nat /\ Allocated(insts, n, "memory") \in Nat
      /\ Allocated(insts, n, "disk") \in Nat
  BY <1>1 DEF Dim
<1>3. /\ Capacity[n]["cpu"] \in Nat \ {0} /\ Capacity[n]["memory"] \in Nat \ {0}
      /\ Capacity[n]["disk"] \in Nat \ {0}
  BY DEF Sized, Dim
<1>4. \A a, b, c \in Nat \ {0} : a * b * c \in Nat \ {0}
  OBVIOUS
<1>5. \A a, b, c \in Nat : a * b * c \in Nat
  OBVIOUS
<1>6. Volume(n) \in Nat \ {0}
  BY <1>3, <1>4 DEF Volume
<1>7. Score(insts, n) \in Nat
  BY <1>2, <1>3, <1>5 DEF Score
<1> QED BY <1>6, <1>7

\* The order of the sort is a strict total order of such nodes.
LEMMA PrecedesOrder ==
  ASSUME NEW insts, NEW a, NEW b, NEW c, Sized(a), Sized(b), Sized(c)
  PROVE  /\ ~ Precedes(insts, a, a)
         /\ a # b => Precedes(insts, a, b) \/ Precedes(insts, b, a)
         /\ Precedes(insts, a, b) /\ Precedes(insts, b, c) => Precedes(insts, a, c)
<1>1. /\ Score(insts, a) \in Nat /\ Score(insts, b) \in Nat /\ Score(insts, c) \in Nat
      /\ Volume(a) \in Nat \ {0} /\ Volume(b) \in Nat \ {0} /\ Volume(c) \in Nat \ {0}
  BY ScoresTyped
<1>2. a \in Nat /\ b \in Nat /\ c \in Nat
  BY NameAssumption DEF Sized
<1>3. \A x, y \in Nat : x * y \in Nat
  OBVIOUS
<1>4. ~ Precedes(insts, a, a)
  BY <1>1, <1>2, <1>3 DEF Precedes
<1>5. a # b => Precedes(insts, a, b) \/ Precedes(insts, b, a)
  BY <1>1, <1>2, <1>3 DEF Precedes
<1>6. ASSUME Precedes(insts, a, b), Precedes(insts, b, c)
      PROVE  Precedes(insts, a, c)
  <2>1. /\ Score(insts, a) * Volume(b) >= Score(insts, b) * Volume(a)
        /\ Score(insts, b) * Volume(c) >= Score(insts, c) * Volume(b)
        /\ \/ Score(insts, a) * Volume(b) > Score(insts, b) * Volume(a)
           \/ Score(insts, b) * Volume(c) > Score(insts, c) * Volume(b)
           \/ a < b /\ b < c
    BY <1>1, <1>3, <1>6 DEF Precedes
  <2>2. /\ Score(insts, a) * Volume(c) >= Score(insts, c) * Volume(a)
        /\ \/ Score(insts, a) * Volume(c) > Score(insts, c) * Volume(a)
           \/ a < b /\ b < c
    BY <1>1, <2>1, RatioTransitive
  <2>3. Score(insts, a) * Volume(c) \in Nat /\ Score(insts, c) * Volume(a) \in Nat
    BY <1>1, <1>3
  <2> QED BY <1>2, <2>2, <2>3 DEF Precedes
<1> QED BY <1>4, <1>5, <1>6

\* A finite set of such nodes has a first one.
LEMMA FirstExists ==
  ASSUME NEW insts, NEW E, IsFiniteSet(E), E # {}, \A n \in E : Sized(n)
  PROVE  \E a \in E : \A b \in E \ {a} : Precedes(insts, a, b)
<1> DEFINE Ahead(a) == {b \in E : Precedes(insts, b, a)}
           T == {Ahead(a) : a \in E}
<1>1. PICK x \in T : \A y \in T : y \subseteq x => y = x
  <2>1. T \in SUBSET SUBSET E /\ T # {}
    OBVIOUS
  <2> HIDE DEF T
  <2> QED BY <2>1, MinimalSubset
<1>2. PICK a \in E : x = Ahead(a)
  BY <1>1
<1>3. ASSUME NEW b \in Ahead(a) PROVE FALSE
  <2>1. Ahead(b) \subseteq Ahead(a)
    BY PrecedesOrder
  <2>2. Ahead(b) = Ahead(a)
    BY <1>1, <1>2, <2>1
  <2>3. b \in Ahead(b)
    BY <2>2
  <2> QED BY <2>3, PrecedesOrder
<1>4. \A b \in E \ {a} : Precedes(insts, a, b)
  BY <1>3, PrecedesOrder
<1> QED BY <1>4

\* binpacking.go: what is eligible has figures, so the order is defined on it.
LEMMA EligibleSized ==
  ASSUME NEW table, NEW insts, NEW i, NEW n \in Eligible(table, insts, i)
  PROVE  Sized(n)
<1>1. n \in Name /\ \A d \in Dim : CapacityOf(table, n, d) > 0
  BY DEF Eligible
<1>2. \A d \in Dim : Capacity[n][d] \in Nat
  BY <1>1, CapacityAssumption
<1> QED BY <1>1, <1>2 DEF CapacityOf, Sized

\* binpacking.go, Schedule, for any tables: ErrNoCapacity only when no node is
\* eligible; otherwise an eligible node that comes before every other one in the
\* order of the sort, so that the head of the sorted list is well defined.
THEOREM ScheduleIsFirst ==
  ASSUME IsFiniteSet(Name), NEW table, NEW insts, NEW i
  PROVE  LET E == Eligible(table, insts, i)
             a == Schedule(table, insts, i)
         IN  IF E = {} THEN a = NoName
             ELSE a \in E /\ a # NoName /\ \A b \in E \ {a} : Precedes(insts, a, b)
<1> DEFINE E == Eligible(table, insts, i)
           a == Schedule(table, insts, i)
<1>1. CASE E = {}
  BY <1>1 DEF Schedule
<1>2. CASE E # {}
  <2>1. E \subseteq Name /\ IsFiniteSet(E)
    BY FS_Subset DEF Eligible
  <2>2. \E b \in E : \A c \in E \ {b} : Precedes(insts, b, c)
    <3>1. \A n \in E : Sized(n)
      BY EligibleSized
    <3> HIDE DEF E
    <3> QED BY <1>2, <2>1, <3>1, FirstExists
  <2>3. a = CHOOSE b \in E : \A c \in E \ {b} : Precedes(insts, b, c)
    BY <1>2 DEF Schedule
  <2>4. a \in E /\ \A b \in E \ {a} : Precedes(insts, a, b)
    <3> HIDE DEF E, a
    <3> QED BY <2>2, <2>3
  <2>5. a # NoName
    BY <2>1, <2>4, NameAssumption DEF NoName
  <2> QED BY <1>2, <2>4, <2>5
<1> QED BY <1>1, <1>2

\* Placing instances makes no room.
LEMMA EligibleShrinks ==
  ASSUME NEW table, NEW before, NEW after, NEW i \in Inst,
         \A j \in Inst : after[j].limited = before[j].limited,
         \A j \in Inst : before[j].node \in Name => after[j].node = before[j].node
  PROVE  Eligible(table, after, i) \subseteq Eligible(table, before, i)
<1> SUFFICES ASSUME NEW n \in Eligible(table, after, i)
             PROVE  n \in Eligible(table, before, i)
  OBVIOUS
<1>1. /\ n \in Name /\ table[n].status = "online"
      /\ \A d \in Dim : /\ CapacityOf(table, n, d) > 0
                        /\ CapacityOf(table, n, d) - Allocated(after, n, d) >= LimitOf(after, i, d)
  BY DEF Eligible
<1>2. ASSUME NEW d \in Dim
      PROVE  CapacityOf(table, n, d) - Allocated(before, n, d) >= LimitOf(before, i, d)
  <2>1. Allocated(before, n, d) <= Allocated(after, n, d)
    BY <1>1, AllocatedMonotone
  <2>2. LimitOf(before, i, d) = LimitOf(after, i, d)
    BY DEF LimitOf
  <2>3. LimitOf(after, i, d) \in Nat /\ CapacityOf(table, n, d) \in Nat
    BY <1>1, LimitAssumption, CapacityAssumption DEF LimitOf, CapacityOf
  <2>4. Allocated(before, n, d) \in Nat /\ Allocated(after, n, d) \in Nat
    BY AllocatedNat
  <2> QED BY <1>1, <2>1, <2>2, <2>3, <2>4
<1> QED BY <1>1, <1>2 DEF Eligible

\* What fits is within the capacity once it is placed.
LEMMA FitsWithin ==
  ASSUME NEW table, NEW before, NEW after, NEW i \in Inst,
         NEW n \in Eligible(table, before, i), NEW d \in Dim,
         \A j \in Inst : after[j].limited = before[j].limited,
         \A j \in Inst \ {i} : after[j].node = before[j].node,
         before[i].node # n, after[i].node = n
  PROVE  Allocated(after, n, d) <= CapacityOf(table, n, d)
<1>1. Allocated(after, n, d) = LimitOf(before, i, d) + Allocated(before, n, d)
  BY AllocatedAdd
<1>2. n \in Name /\ CapacityOf(table, n, d) - Allocated(before, n, d) >= LimitOf(before, i, d)
  BY DEF Eligible
<1>3. LimitOf(before, i, d) \in Nat /\ CapacityOf(table, n, d) \in Nat
  BY <1>2, LimitAssumption, CapacityAssumption DEF LimitOf, CapacityOf
<1>4. Allocated(before, n, d) \in Nat
  BY AllocatedNat
<1> QED BY <1>1, <1>2, <1>3, <1>4

-----------------------------------------------------------------------------
(* A pass.                                                                  *)

\* The locals of scheduleCluster.
PlaceType ==
  [Manager -> [nodes : [Name -> Row], instances : [Inst -> InstRow],
               todo : SUBSET Inst, scaleOutRequired : BOOLEAN]]

\* The locals of a manager that schedules nothing are well typed.
LEMMA NothingTyped ==
  NotScheduling \in [nodes : [Name -> Row], instances : [Inst -> InstRow],
                          todo : SUBSET Inst, scaleOutRequired : BOOLEAN]
BY DEF NotScheduling, NoRow, NoInst, NoName, Row, InstRow

\* What the pass of a manager that runs alone knows while it schedules.
Planned(m) ==
  /\ pc[m] \in {"list", "loop"} => place[m].nodes = nodes
  /\ pc[m] \in {"schedule", "list"} => ~ place[m].scaleOutRequired
  /\ pc[m] = "loop" =>
       /\ \A i \in Inst :
            /\ place[m].instances[i].limited = instances[i].limited
            /\ place[m].instances[i].node \in Name => instances[i].node = place[m].instances[i].node
       /\ \A i \in place[m].todo : Waiting(i) /\ place[m].instances[i] = instances[i]
       /\ ~ SQLStore => place[m].instances = instances
  /\ pc[m] = "scheduled" => place[m].todo = {}
  /\ pc[m] \in {"loop", "scheduled"} =>
       /\ place[m].scaleOutRequired =>
            \E i \in Inst \ place[m].todo : Waiting(i) /\ Eligible(nodes, instances, i) = {}
       /\ faults = 0 =>
            \A i \in Inst \ place[m].todo :
              Waiting(i) => Eligible(nodes, instances, i) = {} /\ place[m].scaleOutRequired

\* What is chosen is a node that has room by the lists of the pass.
LEMMA ChosenFits ==
  ASSUME IsFiniteSet(Name), NEW m, NEW i
  PROVE  IF Chosen(m, i) = NoName
           THEN Eligible(place[m].nodes, place[m].instances, i) = {}
           ELSE Chosen(m, i) \in Eligible(place[m].nodes, place[m].instances, i)
BY ScheduleIsFirst DEF Chosen

\* Every step of scheduleCluster keeps the types.
LEMMA PlacementTypes ==
  ASSUME IsFiniteSet(Name), instances \in [Inst -> InstRow], place \in PlaceType,
         nodes \in [Name -> Row], NEW m \in Manager, PlacementStep(m)
  PROVE  instances' \in [Inst -> InstRow] /\ place' \in PlaceType
<1>1. CASE ListNodesToSchedule(m)
  BY <1>1 DEF ListNodesToSchedule, PlaceType
<1>2. CASE ListInstancesToSchedule(m)
  BY <1>2 DEF ListInstancesToSchedule, PlaceType
<1>3. CASE ListFails(m)
  BY <1>3, NothingTyped DEF ListFails, PlaceType
<1>4. CASE ScheduleReturns(m)
  BY <1>4 DEF ScheduleReturns
<1>5. ASSUME NEW i \in Inst, Chosen(m, i) # NoName
      PROVE  PlacedRow(m, i) \in InstRow
  <2>1. Chosen(m, i) \in Name
    BY <1>5, ChosenFits DEF Eligible
  <2>2. place[m].instances[i] \in InstRow
    BY DEF PlaceType
  <2> QED BY <2>1, <2>2 DEF PlacedRow, InstRow
<1>6. ASSUME NEW i \in Inst, PlaceInstance(m, i)
      PROVE  instances' \in [Inst -> InstRow] /\ place' \in PlaceType
  <2>1. PlacedRow(m, i) \in InstRow
    BY <1>5, <1>6 DEF PlaceInstance, NoName
  <2>2. instances' \in [Inst -> InstRow]
    BY <1>6, <2>1 DEF PlaceInstance, WriteInst
  <2>3. place' = [place EXCEPT ![m].todo = @ \ {i}, ![m].instances[i] = PlacedRow(m, i)]
    BY <1>6 DEF PlaceInstance
  <2>4. place' \in PlaceType
    <3>1. [place[m].instances EXCEPT ![i] = PlacedRow(m, i)] \in [Inst -> InstRow]
      BY <2>1 DEF PlaceType
    <3> DEFINE row == [place[m] EXCEPT !.todo = @ \ {i}, !.instances[i] = PlacedRow(m, i)]
    <3>2. place[m] \in [nodes : [Name -> Row], instances : [Inst -> InstRow],
                        todo : SUBSET Inst, scaleOutRequired : BOOLEAN]
      BY DEF PlaceType
    <3>3. row = [place[m] EXCEPT !.todo = place[m].todo \ {i},
                                 !.instances = [place[m].instances EXCEPT ![i] = PlacedRow(m, i)]]
      BY <3>2
    <3>4. row \in [nodes : [Name -> Row], instances : [Inst -> InstRow],
                   todo : SUBSET Inst, scaleOutRequired : BOOLEAN]
      BY <3>1, <3>2, <3>3
    <3>5. place' = [place EXCEPT ![m] = row]
      BY <2>3 DEF PlaceType
    <3> HIDE DEF row
    <3> QED BY <3>4, <3>5 DEF PlaceType
  <2> QED BY <2>2, <2>4
<1>7. ASSUME NEW i \in Inst, PlaceFails(m, i)
      PROVE  instances' \in [Inst -> InstRow] /\ place' \in PlaceType
  <2>1. PlacedRow(m, i) \in InstRow
    BY <1>5, <1>7 DEF PlaceFails, NoName
  <2>2. instances' \in [Inst -> InstRow]
    BY <1>7, <2>1 DEF PlaceFails, LostInst, WriteInst
  <2>3. place' \in PlaceType
    BY <1>7 DEF PlaceFails, PlaceType
  <2> QED BY <2>2, <2>3
<1>8. ASSUME NEW i \in Inst, NoCapacity(m, i)
      PROVE  instances' \in [Inst -> InstRow] /\ place' \in PlaceType
  BY <1>8 DEF NoCapacity, PlaceType
<1>9. QED
  BY <1>1, <1>2, <1>3, <1>4, <1>6, <1>7, <1>8 DEF PlacementStep

\* What the steps of a pass do to the table when an instance is placed: only its
\* node changes, and it had none.
OnlyPlaced(i) ==
  /\ \A j \in Inst : instances'[j].limited = instances[j].limited /\ instances'[j].status = instances[j].status
  /\ \A j \in Inst \ {i} : instances'[j] = instances[j]
  /\ instances[i].node = NoName

\* UpdateInstance of the copy places the instance and changes nothing else.
LEMMA PlacedRowIs ==
  ASSUME IsFiniteSet(Name), instances \in [Inst -> InstRow], place \in PlaceType,
         NEW m \in Manager, NEW i \in place[m].todo, Planned(m), pc[m] = "loop",
         WriteInst(i, PlacedRow(m, i))
  PROVE  OnlyPlaced(i) /\ instances'[i].node = Chosen(m, i)
<1>1. i \in Inst /\ place[m].instances[i] = instances[i] /\ instances[i].node = NoName
  BY DEF PlaceType, Planned, Waiting
<1>2. instances' = [instances EXCEPT ![i] = [instances[i] EXCEPT !.node = Chosen(m, i)]]
  BY <1>1 DEF WriteInst, PlacedRow
<1>3. instances[i] \in InstRow
  BY <1>1
<1>4. /\ instances'[i].node = Chosen(m, i)
      /\ instances'[i].limited = instances[i].limited /\ instances'[i].status = instances[i].status
  BY <1>1, <1>2, <1>3 DEF InstRow
<1>5. \A j \in Inst \ {i} : instances'[j] = instances[j]
  BY <1>2
<1> QED BY <1>1, <1>4, <1>5 DEF OnlyPlaced

\* An instance that fits nowhere fits nowhere after it.
LEMMA StillNoRoom ==
  ASSUME NEW i \in Inst, OnlyPlaced(i), NEW j \in Inst, Eligible(nodes, instances, j) = {}
  PROVE  Eligible(nodes, instances', j) = {}
<1>1. \A k \in Inst : instances[k].node \in Name => instances'[k].node = instances[k].node
  BY NameAssumption DEF OnlyPlaced, NoName
<1>2. \A k \in Inst : instances'[k].limited = instances[k].limited
  BY DEF OnlyPlaced
<1>3. Eligible(nodes, instances', j) \subseteq Eligible(nodes, instances, j)
  BY <1>1, <1>2, EligibleShrinks
<1> QED BY <1>3

\* Every step of scheduleCluster keeps what the pass knows.
LEMMA PlannedStep ==
  ASSUME IsFiniteSet(Name), instances \in [Inst -> InstRow], place \in PlaceType,
         nodes \in [Name -> Row], faults \in Nat, NEW S, pc \in [Manager -> S],
         NEW m \in Manager, Planned(m), PlacementStep(m)
  PROVE  Planned(m)'
<1>1. CASE ListNodesToSchedule(m)
  BY <1>1 DEF ListNodesToSchedule, PlaceType, Planned
<1>2. CASE ListInstancesToSchedule(m)
  <2>1. /\ pc[m] = "list" /\ pc'[m] = "loop" /\ nodes' = nodes /\ instances' = instances
        /\ place'[m].nodes = place[m].nodes /\ place'[m].instances = instances
        /\ place'[m].todo = {i \in Inst : Waiting(i)} /\ faults' = faults
        /\ place'[m].scaleOutRequired = place[m].scaleOutRequired
    BY <1>2 DEF ListInstancesToSchedule, PlaceType, Waiting, NoName
  <2>2. \A i \in Inst : Waiting(i)' <=> Waiting(i)
    BY <2>1 DEF Waiting
  <2> QED BY <2>1, <2>2 DEF Planned
<1>3. CASE ListFails(m)
  <2>1. /\ pc'[m] = "scheduled" /\ place'[m] = NotScheduling /\ faults' # 0
    BY <1>3 DEF ListFails, PlaceType, Failing
  <2> QED BY <2>1 DEF Planned, NotScheduling
<1>4. CASE ScheduleReturns(m)
  <2>1. /\ pc[m] = "loop" /\ pc'[m] = "scheduled" /\ place[m].todo = {}
        /\ nodes' = nodes /\ instances' = instances /\ place' = place /\ faults' = faults
    BY <1>4 DEF ScheduleReturns
  <2>2. \A i \in Inst : Waiting(i)' <=> Waiting(i)
    BY <2>1 DEF Waiting
  <2> QED BY <2>1, <2>2 DEF Planned
<1>5. ASSUME NEW i \in Inst, PlaceInstance(m, i)
      PROVE  Planned(m)'
  <2>1. /\ pc[m] = "loop" /\ pc' = pc /\ i \in place[m].todo /\ nodes' = nodes /\ faults' = faults
        /\ Chosen(m, i) # NoName /\ WriteInst(i, PlacedRow(m, i))
        /\ place'[m].nodes = place[m].nodes /\ place'[m].todo = place[m].todo \ {i}
        /\ place'[m].instances = [place[m].instances EXCEPT ![i] = PlacedRow(m, i)]
        /\ place'[m].scaleOutRequired = place[m].scaleOutRequired
    BY <1>5 DEF PlaceInstance, PlaceType, NoName
  <2>2. OnlyPlaced(i) /\ instances'[i].node = Chosen(m, i)
    BY <2>1, PlacedRowIs
  <2>3. place[m].instances \in [Inst -> InstRow] /\ place[m].todo \subseteq Inst
    BY DEF PlaceType
  <2>4. instances'[i] = PlacedRow(m, i) /\ place'[m].instances[i] = PlacedRow(m, i)
    BY <2>1, <2>3 DEF WriteInst
  <2>5. \A j \in Inst \ {i} : place'[m].instances[j] = place[m].instances[j]
    BY <2>1, <2>3
  <2>6. /\ ~ Waiting(i)'
        /\ \A j \in Inst \ {i} : Waiting(j)' <=> Waiting(j)
    BY <2>1, <2>2 DEF Waiting, OnlyPlaced
  <2>7. \A j \in Inst : Eligible(nodes, instances, j) = {} => Eligible(nodes', instances', j) = {}
    BY <2>1, <2>2, StillNoRoom
  <2>8. \A j \in Inst :
          /\ place'[m].instances[j].limited = instances'[j].limited
          /\ place'[m].instances[j].node \in Name => instances'[j].node = place'[m].instances[j].node
    BY <2>1, <2>2, <2>4, <2>5 DEF Planned, OnlyPlaced
  <2>9. ~ SQLStore => place'[m].instances = instances'
    BY <2>1 DEF Planned, WriteInst
  <2>10. \A j \in place'[m].todo : Waiting(j)' /\ place'[m].instances[j] = instances'[j]
    BY <2>1, <2>2, <2>3, <2>5, <2>6 DEF Planned, OnlyPlaced
  <2>11. place'[m].scaleOutRequired =>
           \E j \in Inst \ place'[m].todo : Waiting(j)' /\ Eligible(nodes', instances', j) = {}
    <3> SUFFICES ASSUME place[m].scaleOutRequired
                 PROVE  \E j \in Inst \ place'[m].todo : Waiting(j)' /\ Eligible(nodes', instances', j) = {}
      BY <2>1
    <3>1. PICK j \in Inst \ place[m].todo : Waiting(j) /\ Eligible(nodes, instances, j) = {}
      BY <2>1 DEF Planned
    <3> QED BY <3>1, <2>1, <2>6, <2>7
  <2>12. faults' = 0 =>
           \A j \in Inst \ place'[m].todo :
             Waiting(j)' => Eligible(nodes', instances', j) = {} /\ place'[m].scaleOutRequired
    BY <2>1, <2>6, <2>7 DEF Planned
  <2> QED BY <2>1, <2>8, <2>9, <2>10, <2>11, <2>12 DEF Planned
<1>6. ASSUME NEW i \in Inst, PlaceFails(m, i)
      PROVE  Planned(m)'
  <2>1. /\ pc[m] = "loop" /\ pc' = pc /\ i \in place[m].todo /\ nodes' = nodes /\ faults' # 0
        /\ Chosen(m, i) # NoName
        /\ \/ instances' = instances
           \/ SQLStore /\ WriteInst(i, PlacedRow(m, i))
        /\ place'[m].nodes = place[m].nodes /\ place'[m].todo = place[m].todo \ {i}
        /\ place'[m].instances = place[m].instances
        /\ place'[m].scaleOutRequired = place[m].scaleOutRequired
    BY <1>6 DEF PlaceFails, PlaceType, NoName, Failing, LostInst
  <2>2. CASE instances' = instances
    <3>1. \A j \in Inst : Waiting(j)' <=> Waiting(j)
      BY <2>2 DEF Waiting
    <3>2. \A j \in place'[m].todo : j \in Inst /\ Waiting(j)' /\ place'[m].instances[j] = instances'[j]
      BY <2>1, <2>2, <3>1 DEF Planned, PlaceType
    <3>3. place'[m].scaleOutRequired =>
             \E j \in Inst \ place'[m].todo : Waiting(j)' /\ Eligible(nodes', instances', j) = {}
      BY <2>1, <2>2, <3>1 DEF Planned
    <3>4. /\ \A j \in Inst :
                /\ place'[m].instances[j].limited = instances'[j].limited
                /\ place'[m].instances[j].node \in Name => instances'[j].node = place'[m].instances[j].node
          /\ ~ SQLStore => place'[m].instances = instances'
      BY <2>1, <2>2 DEF Planned
    <3> QED BY <2>1, <2>2, <3>2, <3>3, <3>4 DEF Planned
  <2>3. CASE SQLStore /\ WriteInst(i, PlacedRow(m, i))
    <3>1. OnlyPlaced(i) /\ instances'[i].node = Chosen(m, i)
      BY <2>1, <2>3, PlacedRowIs
    <3>2. place[m].todo \subseteq Inst /\ place[m].instances[i] = instances[i]
      BY <2>1 DEF PlaceType, Planned
    <3>3. \A j \in Inst \ {i} : Waiting(j)' <=> Waiting(j)
      BY <3>1 DEF Waiting, OnlyPlaced
    <3>4. \A j \in Inst : Eligible(nodes, instances, j) = {} => Eligible(nodes', instances', j) = {}
      BY <2>1, <3>1, StillNoRoom
    <3>5. \A j \in Inst :
            /\ place'[m].instances[j].limited = instances'[j].limited
            /\ place'[m].instances[j].node \in Name => instances'[j].node = place'[m].instances[j].node
      BY <2>1, <3>1, <3>2, NameAssumption DEF Planned, OnlyPlaced, NoName
    <3>6. \A j \in place'[m].todo : Waiting(j)' /\ place'[m].instances[j] = instances'[j]
      BY <2>1, <3>1, <3>2, <3>3 DEF Planned, OnlyPlaced
    <3>7. place'[m].scaleOutRequired =>
             \E j \in Inst \ place'[m].todo : Waiting(j)' /\ Eligible(nodes', instances', j) = {}
      <4> SUFFICES ASSUME place[m].scaleOutRequired
                   PROVE  \E j \in Inst \ place'[m].todo : Waiting(j)' /\ Eligible(nodes', instances', j) = {}
        BY <2>1
      <4>1. PICK j \in Inst \ place[m].todo : Waiting(j) /\ Eligible(nodes, instances, j) = {}
        BY <2>1 DEF Planned
      <4> QED BY <4>1, <2>1, <3>3, <3>4
    <3> QED BY <2>1, <2>3, <3>5, <3>6, <3>7 DEF Planned
  <2> QED BY <2>1, <2>2, <2>3
<1>7. ASSUME NEW i \in Inst, NoCapacity(m, i)
      PROVE  Planned(m)'
  <2>1. /\ pc[m] = "loop" /\ pc' = pc /\ i \in place[m].todo /\ nodes' = nodes /\ faults' = faults
        /\ Chosen(m, i) = NoName /\ instances' = instances
        /\ place'[m].nodes = place[m].nodes /\ place'[m].todo = place[m].todo \ {i}
        /\ place'[m].instances = place[m].instances /\ place'[m].scaleOutRequired
    BY <1>7 DEF NoCapacity, PlaceType, NoName
  <2>2. \A j \in Inst : Waiting(j)' <=> Waiting(j)
    BY <2>1 DEF Waiting
  <2>3. Eligible(nodes, place[m].instances, i) = {}
    BY <2>1, ChosenFits DEF Planned
  <2>4. Eligible(nodes, instances, i) \subseteq Eligible(nodes, place[m].instances, i)
    BY <2>1, EligibleShrinks DEF Planned
  <2>5. Waiting(i) /\ Eligible(nodes, instances, i) = {}
    BY <2>1, <2>3, <2>4 DEF Planned
  <2>6. place[m].todo \subseteq Inst
    BY DEF PlaceType
  <2> QED BY <2>1, <2>2, <2>5, <2>6 DEF Planned
<1>8. QED
  BY <1>1, <1>2, <1>3, <1>4, <1>5, <1>6, <1>7 DEF PlacementStep

-----------------------------------------------------------------------------
(* Placements the local list misses.                                        *)

\* The instances whose row is not where the local list has them, and that they are
\* no more than the calls that failed.
Missed(m) == {j \in Inst : instances[j].node # place[m].instances[j].node}
MissedFew(m) == pc[m] = "loop" => Cardinality(Missed(m)) <= faults

\* A subset of a finite set has no more elements, and one element adds at most one.
LEMMA FewerOrOneMore ==
  ASSUME NEW S, IsFiniteSet(S), NEW T, NEW e
  PROVE  /\ Cardinality(S) \in Nat
         /\ T \subseteq S => Cardinality(T) <= Cardinality(S)
         /\ T \subseteq S \cup {e} => Cardinality(T) <= Cardinality(S) + 1
<1>1. Cardinality(S) \in Nat
  BY FS_CardinalityType
<1>2. T \subseteq S => Cardinality(T) <= Cardinality(S)
  BY FS_Subset
<1>3. IsFiniteSet(S \cup {e}) /\ Cardinality(S \cup {e}) <= Cardinality(S) + 1
  BY <1>1, FS_AddElement
<1>4. ASSUME T \subseteq S \cup {e} PROVE Cardinality(T) <= Cardinality(S) + 1
  <2>1. Cardinality(T) <= Cardinality(S \cup {e}) /\ Cardinality(T) \in Nat
        /\ Cardinality(S \cup {e}) \in Nat
    BY <1>3, <1>4, FS_Subset, FS_CardinalityType
  <2> QED BY <1>1, <1>3, <2>1
<1> QED BY <1>1, <1>2, <1>4

\* Only a failed UpdateInstance makes the list miss one, and it counts a fault.
LEMMA MissedStep ==
  ASSUME place \in PlaceType, instances \in [Inst -> InstRow], faults \in Nat,
         NEW S, pc \in [Manager -> S],
         NEW m \in Manager, MissedFew(m), PlacementStep(m)
  PROVE  MissedFew(m)'
<1>0. IsFiniteSet(Missed(m))
  BY InstAssumption, FS_Subset DEF Missed
<1>1. CASE ListNodesToSchedule(m) \/ ListFails(m) \/ ScheduleReturns(m)
  BY <1>1 DEF ListNodesToSchedule, ListFails, ScheduleReturns, MissedFew
<1>2. CASE ListInstancesToSchedule(m)
  <2>1. place'[m].instances = instances' /\ faults' = faults
    BY <1>2 DEF ListInstancesToSchedule, PlaceType
  <2>2. Missed(m)' = {}
    BY <2>1 DEF Missed
  <2>3. Cardinality(Missed(m)') <= faults'
    BY <2>1, <2>2, FS_EmptySet
  <2> QED BY <2>3 DEF MissedFew
<1>3. ASSUME NEW i \in Inst, PlaceInstance(m, i)
      PROVE  MissedFew(m)'
  <2>1. /\ pc[m] = "loop" /\ faults' = faults
        /\ instances' = [instances EXCEPT ![i] = PlacedRow(m, i)]
        /\ place'[m].instances = [place[m].instances EXCEPT ![i] = PlacedRow(m, i)]
    BY <1>3 DEF PlaceInstance, WriteInst, PlaceType
  <2>2. Missed(m)' \subseteq Missed(m)
    BY <2>1 DEF Missed, PlaceType
  <2>3. Cardinality(Missed(m)') <= Cardinality(Missed(m))
    BY <1>0, <2>2, FewerOrOneMore
  <2>4. Cardinality(Missed(m)) <= faults
    BY <2>1 DEF MissedFew
  <2>5. Cardinality(Missed(m)) \in Nat /\ Cardinality(Missed(m)') \in Nat
    BY <1>0, <2>2, FS_Subset, FS_CardinalityType
  <2>6. Cardinality(Missed(m)') <= faults
    BY <2>3, <2>4, <2>5
  <2> QED BY <2>1, <2>6 DEF MissedFew
<1>4. ASSUME NEW i \in Inst, PlaceFails(m, i)
      PROVE  MissedFew(m)'
  <2>1. /\ pc[m] = "loop" /\ faults' = faults + 1
        /\ instances' = instances \/ instances' = [instances EXCEPT ![i] = PlacedRow(m, i)]
        /\ place'[m].instances = place[m].instances
    BY <1>4 DEF PlaceFails, LostInst, WriteInst, Failing, PlaceType
  <2>2. Missed(m)' \subseteq Missed(m) \cup {i}
    BY <2>1 DEF Missed
  <2>3. Cardinality(Missed(m)') <= Cardinality(Missed(m)) + 1 /\ Cardinality(Missed(m)) \in Nat
    BY <1>0, <2>2, FewerOrOneMore
  <2>4. Cardinality(Missed(m)) <= faults
    BY <2>1 DEF MissedFew
  <2>5. Cardinality(Missed(m)) + 1 <= faults + 1
    BY <2>3, <2>4
  <2>6. IsFiniteSet(Missed(m)') /\ Cardinality(Missed(m)') \in Nat
    BY <1>0, <2>2, FS_Subset, FS_AddElement, FS_CardinalityType
  <2>7. Cardinality(Missed(m)') <= faults + 1
    BY <2>3, <2>5, <2>6
  <2> QED BY <2>1, <2>7 DEF MissedFew
<1>5. ASSUME NEW i \in Inst, NoCapacity(m, i)
      PROVE  MissedFew(m)'
  <2>1. /\ pc' = pc /\ faults' = faults /\ instances' = instances
        /\ place'[m].instances = place[m].instances
    BY <1>5 DEF NoCapacity, PlaceType
  <2>2. Missed(m)' = Missed(m)
    BY <2>1 DEF Missed
  <2> QED BY <2>1, <2>2 DEF MissedFew
<1>6. QED
  BY <1>1, <1>2, <1>3, <1>4, <1>5 DEF PlacementStep

\* What fits by the local list fits by the rows but for the ones it misses.
LEMMA ChosenFitsBut ==
  ASSUME IsFiniteSet(Name), instances \in [Inst -> InstRow], place \in PlaceType,
         NEW m \in Manager, NEW i \in place[m].todo,
         pc[m] = "loop", Planned(m), MissedFew(m), Chosen(m, i) # NoName
  PROVE  FitsBut(i, Chosen(m, i))
<1>0. i \in Inst
  BY DEF PlaceType
<1> DEFINE before == Without(Missed(m))
           after == place[m].instances
<1>1. Missed(m) \in SUBSET (Inst \ {i})
  BY DEF Missed, Planned
<1>2. \A j \in Inst : after[j].limited = before[j].limited
  BY DEF Without, Planned
<1>3. \A j \in Inst : before[j].node \in Name => after[j].node = before[j].node
  <2> SUFFICES ASSUME NEW j \in Inst, before[j].node \in Name
               PROVE  after[j].node = before[j].node
    OBVIOUS
  <2>1. CASE j \in Missed(m)
    <3>1. before[j] = [instances[j] EXCEPT !.node = NoName] /\ instances[j] \in InstRow
      BY <2>1 DEF Without
    <3>2. before[j].node = NoName
      BY <3>1 DEF InstRow
    <3> QED BY <3>2, NameAssumption DEF NoName
  <2>2. CASE j \notin Missed(m)
    BY <2>2 DEF Without, Missed
  <2> QED BY <2>1, <2>2
<1>4. Eligible(nodes, after, i) \subseteq Eligible(nodes, before, i)
  <2> HIDE DEF before, after
  <2> QED BY <1>0, <1>2, <1>3, EligibleShrinks
<1>5. Chosen(m, i) \in Eligible(nodes, after, i)
  BY ChosenFits DEF Planned
<1>6. Cardinality(Missed(m)) <= faults
  BY DEF MissedFew
<1>7. CASE SQLStore
  BY <1>1, <1>4, <1>5, <1>6, <1>7 DEF FitsBut, LostAnswers
<1>8. CASE ~ SQLStore
  <2>1. Without({}) = instances
    BY DEF Without
  <2>2. Chosen(m, i) \in Eligible(nodes, Without({}), i)
    BY <1>5, <1>8, <2>1 DEF Planned
  <2>3. Cardinality({}) <= LostAnswers
    BY <1>8, FS_EmptySet DEF LostAnswers
  <2> QED BY <2>2, <2>3 DEF FitsBut
<1> QED BY <1>7, <1>8

\* While no answer can have been lost, what is chosen fits by the rows.
LEMMA ChosenFitsRows ==
  ASSUME IsFiniteSet(Name), instances \in [Inst -> InstRow], place \in PlaceType,
         NEW m \in Manager, NEW i \in place[m].todo, faults \in Nat,
         pc[m] = "loop", Planned(m), MissedFew(m), Chosen(m, i) # NoName,
         ~ SQLStore \/ faults = 0
  PROVE  Chosen(m, i) \in Eligible(nodes, instances, i)
<1>1. LostAnswers = 0
  BY DEF LostAnswers
<1>2. PICK hidden \in SUBSET (Inst \ {i}) :
        Cardinality(hidden) <= 0 /\ Chosen(m, i) \in Eligible(nodes, Without(hidden), i)
  BY <1>1, ChosenFitsBut DEF FitsBut
<1>3. IsFiniteSet(hidden)
  BY InstAssumption, FS_Subset
<1>4. hidden = {}
  BY <1>2, <1>3, FS_CardinalityType, FS_EmptySet
<1>5. Without(hidden) = instances
  BY <1>4 DEF Without
<1> QED BY <1>2, <1>5

\* An instance that neither comes to a node nor leaves it changes nothing there.
LEMMA AllocatedSame ==
  ASSUME NEW before, NEW after, NEW n, NEW d \in Dim,
         \A i \in Inst : after[i].limited = before[i].limited,
         \A i \in Inst : before[i].node = n <=> after[i].node = n
  PROVE  Allocated(after, n, d) = Allocated(before, n, d)
<1>1. Allocated(before, n, d) <= Allocated(after, n, d)
  BY AllocatedMonotone
<1>2. Allocated(after, n, d) <= Allocated(before, n, d)
  BY AllocatedMonotone
<1>3. Allocated(before, n, d) \in Nat /\ Allocated(after, n, d) \in Nat
  BY AllocatedNat
<1> QED BY <1>1, <1>2, <1>3

\* So a step of scheduleCluster commits more of a node only within its capacity.
LEMMA StepStaysWithin ==
  ASSUME IsFiniteSet(Name), instances \in [Inst -> InstRow], place \in PlaceType,
         NEW m \in Manager, faults \in Nat, Planned(m), MissedFew(m),
         PlacementStep(m), ~ SQLStore \/ faults = 0,
         NEW n \in Name, NEW d \in Dim
  PROVE  \/ Allocated(instances', n, d) = Allocated(instances, n, d)
         \/ Allocated(instances', n, d) <= CapacityOf(nodes, n, d)
<1>1. CASE instances' = instances
  BY <1>1
<1>2. ASSUME NEW i \in Inst, pc[m] = "loop", i \in place[m].todo,
             Chosen(m, i) # NoName, WriteInst(i, PlacedRow(m, i))
      PROVE  \/ Allocated(instances', n, d) = Allocated(instances, n, d)
             \/ Allocated(instances', n, d) <= CapacityOf(nodes, n, d)
  <2>1. OnlyPlaced(i) /\ instances'[i].node = Chosen(m, i)
    BY <1>2, PlacedRowIs
  <2>2. /\ \A j \in Inst : instances'[j].limited = instances[j].limited
        /\ \A j \in Inst \ {i} : instances'[j].node = instances[j].node
        /\ instances[i].node # n
    BY <2>1, NameAssumption DEF OnlyPlaced, NoName
  <2>3. CASE n = Chosen(m, i)
    <3>1. n \in Eligible(nodes, instances, i)
      BY <1>2, <2>3, ChosenFitsRows
    <3>2. instances'[i].node = n
      BY <2>1, <2>3
    <3> QED BY <2>2, <3>1, <3>2, FitsWithin
  <2>4. CASE n # Chosen(m, i)
    <3>1. \A j \in Inst : instances[j].node = n <=> instances'[j].node = n
      BY <2>1, <2>2, <2>4
    <3> QED BY <2>2, <3>1, AllocatedSame
  <2> QED BY <2>3, <2>4
<1>3. ASSUME NEW i \in Inst, PlaceInstance(m, i)
      PROVE  pc[m] = "loop" /\ i \in place[m].todo /\ Chosen(m, i) # NoName
             /\ WriteInst(i, PlacedRow(m, i))
  BY <1>3 DEF PlaceInstance, NoName
<1>4. ASSUME NEW i \in Inst, PlaceFails(m, i), instances' # instances
      PROVE  pc[m] = "loop" /\ i \in place[m].todo /\ Chosen(m, i) # NoName
             /\ WriteInst(i, PlacedRow(m, i))
  BY <1>4 DEF PlaceFails, LostInst, NoName
<1>5. \/ instances' = instances
      \/ \E i \in Inst : PlaceInstance(m, i) \/ PlaceFails(m, i)
  BY DEF PlacementStep, ListNodesToSchedule, ListInstancesToSchedule, ListFails,
     ScheduleReturns, NoCapacity
<1> QED BY <1>1, <1>2, <1>3, <1>4, <1>5

-----------------------------------------------------------------------------
(* The specification: one manager, any syncs before each pass.              *)

\* One manager process has the cluster to itself.
OneManager == \A m, k \in Manager : m = k

\* The inductive invariant: the types, and what each pass knows.
PlacementInv ==
  /\ nodes \in [Name -> Row] /\ pc \in [Manager -> Step] /\ faults \in Nat
  /\ instances \in [Inst -> InstRow] /\ place \in PlaceType
  /\ \A m \in Manager : Planned(m) /\ MissedFew(m)

\* It holds before the first pass.
LEMMA PlacementInit == Init => PlacementInv
<1> SUFFICES ASSUME Init PROVE PlacementInv
  OBVIOUS
<1>1. nodes \in [Name -> Row] /\ instances \in [Inst -> InstRow]
  BY DEF Init, NoRow, NoInst, NoName, Row, InstRow
<1>2. pc \in [Manager -> Step] /\ faults \in Nat
  BY DEF Init, Step
<1>3. place \in PlaceType
  BY NothingTyped DEF Init, PlaceType
<1>4. \A m \in Manager : Planned(m) /\ MissedFew(m)
  BY DEF Init, Planned, MissedFew
<1> QED BY <1>1, <1>2, <1>3, <1>4 DEF PlacementInv

\* Every step keeps it, the syncs before a pass included.
LEMMA PlacementInvStep ==
  ASSUME IsFiniteSet(Name), OneManager, PlacementInv, [Next]_vars
  PROVE  PlacementInv'
<1>1. CASE UNCHANGED vars
  BY <1>1 DEF vars, shared, PlacementInv, Planned, Waiting, MissedFew, Missed
<1>2. ASSUME NEW m \in Manager, Resync(m)
      PROVE  PlacementInv'
  <2>1. nodes' \in [Name -> Row]
    <3>1. {NoRow} \cup [status : {"online", "offline"}, tracked : {TRUE},
                             sized : IF SQLStore THEN {TRUE} ELSE BOOLEAN] \subseteq Row
      <4>1. (IF SQLStore THEN {TRUE} ELSE BOOLEAN) \subseteq BOOLEAN
        OBVIOUS
      <4>2. NoRow \in Row
        BY DEF NoRow, Row, NodeStatus
      <4>3. \A T \in SUBSET BOOLEAN :
              [status : {"online", "offline"}, tracked : {TRUE}, sized : T] \subseteq Row
        BY DEF Row, NodeStatus
      <4> QED BY <4>1, <4>2, <4>3
    <3> QED BY <1>2, <3>1 DEF Resync, NodeTables
  <2>2. instances' \in [Inst -> InstRow]
    <3>1. Rows(nodes') \cup {NoName} \subseteq Name \cup {NoName}
      BY DEF Rows, NoName
    <3>2. [status : {"running"}, node : Rows(nodes') \cup {NoName},
           limited : IF SQLStore THEN {TRUE} ELSE BOOLEAN] \subseteq InstRow
      BY <3>1 DEF InstRow, InstStatus
    <3> QED BY <1>2, <3>2 DEF Resync
  <2>3. place' \in PlaceType
    BY <1>2, NothingTyped DEF Resync, PlacementInv, PlaceType
  <2>4. pc' \in [Manager -> Step] /\ pc'[m] = "schedule"
    BY <1>2 DEF Resync, PlacementInv, Step
  <2>5. place'[m] = NotScheduling
    BY <1>2 DEF Resync, PlacementInv, PlaceType
  <2>6. Planned(m)' /\ MissedFew(m)'
    BY <2>4, <2>5 DEF Planned, MissedFew, NotScheduling
  <2>7. \A k \in Manager : Planned(k)' /\ MissedFew(k)'
    BY <2>6 DEF OneManager
  <2>8. faults' \in Nat
    BY <1>2 DEF Resync, PlacementInv
  <2> QED BY <2>1, <2>2, <2>3, <2>4, <2>7, <2>8 DEF PlacementInv
<1>3. ASSUME NEW m \in Manager, PlacementStep(m)
      PROVE  PlacementInv'
  <2>1. instances' \in [Inst -> InstRow] /\ place' \in PlaceType
    BY <1>3, PlacementTypes DEF PlacementInv
  <2>2. Planned(m)' /\ MissedFew(m)'
    BY <1>3, PlannedStep, MissedStep DEF PlacementInv
  <2>3. \A k \in Manager : Planned(k)' /\ MissedFew(k)'
    BY <2>2 DEF OneManager
  <2>4. /\ nodes' = nodes /\ faults' \in {faults, faults + 1}
        /\ \E s \in Step : pc' = [pc EXCEPT ![m] = s] \/ pc' = pc
    BY <1>3 DEF PlacementStep, ListNodesToSchedule, ListInstancesToSchedule,
      ListFails, ScheduleReturns, PlaceInstance, PlaceFails, NoCapacity,
      Failing, Step
  <2> QED BY <2>1, <2>3, <2>4 DEF PlacementInv
<1>4. ASSUME NEW m \in Manager, RestOfPass(m)
      PROVE  PlacementInv'
  <2>1. pc' = [pc EXCEPT ![m] = "idle"] /\ UNCHANGED <<nodes, faults, instances, place>>
    BY <1>4 DEF RestOfPass
  <2>2. Planned(m)' /\ MissedFew(m)'
    BY <2>1 DEF Planned, MissedFew, PlacementInv
  <2>3. \A k \in Manager : Planned(k)' /\ MissedFew(k)'
    BY <2>2 DEF OneManager
  <2> QED BY <2>1, <2>3 DEF PlacementInv, Step
<1>5. QED
  BY <1>1, <1>2, <1>3, <1>4 DEF Next

\* What a pass knows is an invariant of scheduling.
THEOREM PlacementInvariant ==
  ASSUME IsFiniteSet(Name), OneManager
  PROVE  Spec => []PlacementInv
<1>1. PlacementInv /\ [Next]_vars => PlacementInv'
  BY PlacementInvStep
<1> QED BY PlacementInit, <1>1, PTL DEF Spec

\* orchestrator.go:272-273: a pass asks for a scale-out only when, at its end, some
\* instance without a node fits nowhere.
THEOREM ScaleOutIsRequired ==
  ASSUME IsFiniteSet(Name), OneManager
  PROVE  Spec => []ScaleOutRequiredIsReal
<1>1. PlacementInv => ScaleOutRequiredIsReal
  <2> SUFFICES ASSUME PlacementInv, NEW m \in Manager, pc[m] = "scheduled", place[m].scaleOutRequired
               PROVE  \E i \in Inst : Waiting(i) /\ Eligible(nodes, instances, i) = {}
    BY DEF ScaleOutRequiredIsReal
  <2>1. \E i \in Inst : Waiting(i) /\ Eligible(nodes, instances, i) = {}
    BY DEF PlacementInv, Planned
  <2> QED BY <2>1 DEF Waiting, NoName
<1> QED BY <1>1, PlacementInvariant, PTL

\* The loop of scheduleCluster leaves no instance that fits somewhere without a
\* node, unless a listing or the recording of its placement failed.
THEOREM NothingIsLeftOut ==
  ASSUME IsFiniteSet(Name), OneManager
  PROVE  Spec => []NothingLeftOut
<1>1. PlacementInv => NothingLeftOut
  <2> SUFFICES ASSUME PlacementInv, NEW m \in Manager, pc[m] = "scheduled", faults = 0,
                      NEW i \in Inst, Waiting(i)
               PROVE  Eligible(nodes, instances, i) = {} /\ place[m].scaleOutRequired
    BY DEF NothingLeftOut
  <2>1. Waiting(i)
    BY DEF Waiting, NoName
  <2> QED BY <2>1 DEF PlacementInv, Planned
<1> QED BY <1>1, PlacementInvariant, PTL

\* A step that places an instance places it where the scheduler chose, by the
\* table as it is.
LEMMA PlacedIsChosen ==
  ASSUME IsFiniteSet(Name), OneManager, ~ SQLStore, PlacementInv, Next,
         NEW i \in Inst, Placed(i)
  PROVE  /\ OnlyPlaced(i)
         /\ instances'[i].node = Schedule(nodes, instances, i)
         /\ instances'[i].node \in Eligible(nodes, instances, i)
<1>1. PICK m \in Manager : pc[m] = "loop" /\ PlacementStep(m)
  BY DEF Placed, Next, OneManager, Resync, RestOfPass
<1>2. PICK j \in Inst : PlaceInstance(m, j)
  BY <1>1 DEF PlacementStep, ListNodesToSchedule, ListInstancesToSchedule,
      ListFails, ScheduleReturns, PlaceFails, NoCapacity, LostInst, Placed
<1>3. j \in place[m].todo /\ WriteInst(j, PlacedRow(m, j)) /\ Chosen(m, j) # NoName
  BY <1>2 DEF PlaceInstance, NoName
<1>4. OnlyPlaced(j) /\ instances'[j].node = Chosen(m, j)
  BY <1>1, <1>3, PlacedRowIs DEF PlacementInv
<1>5. i = j
  BY <1>4 DEF OnlyPlaced, Placed
<1>6. place[m].nodes = nodes /\ place[m].instances = instances
  BY <1>1 DEF PlacementInv, Planned
<1>7. Chosen(m, j) = Schedule(nodes, instances, i)
  BY <1>5, <1>6 DEF Chosen
<1>8. Chosen(m, j) \in Eligible(nodes, instances, i)
  BY <1>3, <1>5, <1>6, ChosenFits
<1> QED BY <1>4, <1>5, <1>7, <1>8

\* orchestrator.go:321-338: a placement lands on a node that has room for it by the rows
\* at that moment; on the SQL store, but for no more instances than there were failed
\* calls: those whose recorded placement was never answered.
THEOREM EveryPlacementFits ==
  ASSUME IsFiniteSet(Name), OneManager
  PROVE  Spec => PlacementFits
<1>1. ASSUME PlacementInv, Next, NEW i \in Inst, Placed(i)
      PROVE  FitsBut(i, instances'[i].node)
  <2>1. PICK m \in Manager : pc[m] = "loop" /\ PlacementStep(m)
    BY <1>1 DEF Placed, Next, OneManager, Resync, RestOfPass
  <2>2. PICK j \in Inst : PlaceInstance(m, j) \/ PlaceFails(m, j)
    BY <1>1, <2>1 DEF PlacementStep, ListNodesToSchedule, ListInstancesToSchedule,
       ListFails, ScheduleReturns, NoCapacity, Placed
  <2>3. /\ j \in place[m].todo /\ Chosen(m, j) # NoName
        /\ WriteInst(j, PlacedRow(m, j))
    BY <1>1, <2>2 DEF PlaceInstance, PlaceFails, LostInst, Placed, NoName
  <2>4. OnlyPlaced(j) /\ instances'[j].node = Chosen(m, j)
    BY <1>1, <2>1, <2>3, PlacedRowIs DEF PlacementInv
  <2>5. i = j
    BY <1>1, <2>4 DEF OnlyPlaced, Placed
  <2>6. FitsBut(j, Chosen(m, j))
    BY <1>1, <2>1, <2>3, ChosenFitsBut DEF PlacementInv
  <2> QED BY <2>4, <2>5, <2>6
<1>2. PlacementInv /\ [Next]_vars => [\A i \in Inst : Placed(i) => FitsBut(i, instances'[i].node)]_vars
  BY <1>1
<1> QED BY <1>2, PlacementInvariant, PTL DEF Spec, PlacementFits

\* It is a fullest node that has room.
LEMMA ChosenIsFullest ==
  ASSUME IsFiniteSet(Name), NEW table, NEW insts, NEW i, NEW n \in Eligible(table, insts, i)
  PROVE  LET a == Schedule(table, insts, i)
         IN  Score(insts, n) * Volume(a) <= Score(insts, a) * Volume(n)
<1> DEFINE a == Schedule(table, insts, i)
<1>1. a \in Eligible(table, insts, i) /\ (n # a => Precedes(insts, a, n))
  BY ScheduleIsFirst
<1>2. Sized(a) /\ Sized(n)
  BY <1>1, EligibleSized
<1>3. /\ Score(insts, n) \in Nat /\ Score(insts, a) \in Nat
      /\ Volume(n) \in Nat \ {0} /\ Volume(a) \in Nat \ {0}
  BY <1>2, ScoresTyped
<1>4. Score(insts, n) * Volume(a) \in Nat /\ Score(insts, a) * Volume(n) \in Nat
  <2>1. \A x, y \in Nat : x * y \in Nat
    OBVIOUS
  <2> HIDE DEF a
  <2> QED BY <1>3, <2>1
<1>5. Score(insts, n) * Volume(a) <= Score(insts, a) * Volume(n)
  <2> HIDE DEF a
  <2>1. CASE n = a
    BY <1>4, <2>1
  <2>2. CASE n # a
    BY <1>1, <1>4, <2>2 DEF Precedes
  <2> QED BY <2>1, <2>2
<1> QED BY <1>5

\* ADR-006: and on a fullest one of them.
THEOREM EveryPlacementOnFullest ==
  ASSUME IsFiniteSet(Name), OneManager, ~ SQLStore
  PROVE  Spec => PlacedOnFullest
<1> DEFINE Fullest(i) ==
      \A n \in Eligible(nodes, instances, i) :
        LET chosen == instances'[i].node
        IN  Score(instances, n) * Volume(chosen)
              <= Score(instances, chosen) * Volume(n)
<1>1. ASSUME PlacementInv, Next, NEW i \in Inst, Placed(i)
      PROVE  Fullest(i)
  BY <1>1, PlacedIsChosen, ChosenIsFullest
<1>2. PlacementInv /\ [Next]_vars =>
        [\A i \in Inst : Placed(i) => Fullest(i)]_vars
  BY <1>1
<1> QED BY <1>2, PlacementInvariant, PTL DEF Spec, PlacedOnFullest

\* So that, in each dimension, what the instances on the chosen node request stays
\* within its capacity once the placement is recorded.
THEOREM NoNodeOvercommitted ==
  ASSUME IsFiniteSet(Name), OneManager, ~ SQLStore
  PROVE  Spec =>
           [][\A i \in Inst : Placed(i) =>
                \A d \in Dim : Allocated(instances', instances'[i].node, d)
                                 <= CapacityOf(nodes, instances'[i].node, d)]_vars
<1>1. ASSUME PlacementInv, Next, NEW i \in Inst, Placed(i), NEW d \in Dim
      PROVE  Allocated(instances', instances'[i].node, d) <= CapacityOf(nodes, instances'[i].node, d)
  <2> DEFINE n == instances'[i].node
  <2>1. OnlyPlaced(i) /\ n \in Eligible(nodes, instances, i)
    BY <1>1, PlacedIsChosen
  <2>2. n # NoName
    BY <2>1, NameAssumption DEF Eligible, NoName
  <2>3. /\ \A j \in Inst : instances'[j].limited = instances[j].limited
        /\ \A j \in Inst \ {i} : instances'[j].node = instances[j].node
        /\ instances[i].node # n
    BY <2>1, <2>2 DEF OnlyPlaced
  <2> QED BY <2>1, <2>3, FitsWithin
<1>2. PlacementInv /\ [Next]_vars =>
        [\A i \in Inst : Placed(i) =>
                \A d \in Dim : Allocated(instances', instances'[i].node, d)
                                 <= CapacityOf(nodes, instances'[i].node, d)]_vars
  BY <1>1
<1> QED BY <1>2, PlacementInvariant, PTL DEF Spec
=============================================================================
