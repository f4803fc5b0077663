----------------------------- MODULE SumProofs -----------------------------
(***************************************************************************)
(* Facts about the sum of a function over its finite domain (SumFunction   *)
(* of Functions), which the books of the pools and of the wallets are      *)
(* stated with.                                                            *)
(*                                                                         *)
(* No prover here instantiates an induction theorem, which takes a         *)
(* predicate.  What is used instead takes a set: every non-empty set of    *)
(* subsets of a finite set has a minimal one, and so the set of the        *)
(* counterexamples to a claim is empty when none of them is minimal.       *)
(***************************************************************************)
EXTENDS FiniteSetTheorems, TLAPS

LEMMA SmallestSubset ==
  ASSUME NEW S, IsFiniteSet(S), NEW B, \A T \in B : T \subseteq S, B # {}
  PROVE  \E T \in B : \A U \in B : U \subseteq T => U = T
<1>1. B \subseteq FiniteSubsetsOf(S)
  BY FS_FiniteSubsetsOfFinite
<1>2. PICK T \in B : \A U \in B : ~ (<<U, T>> \in StrictSubsetOrdering(S))
  BY <1>1, FS_StrictSubsetOrderingWellFounded, WFMin
<1>. QED BY <1>2 DEF StrictSubsetOrdering

(* Induction over the natural numbers, for a set: of the intervals 0 .. n  *)
(* whose n is left out, a minimal one would have an n - 1 left out too.    *)
LEMMA EveryNat ==
  ASSUME NEW B \in SUBSET Nat, 0 \in B, \A n \in B : n + 1 \in B
  PROVE  B = Nat
<1>. SUFFICES ASSUME NEW n \in Nat \ B PROVE FALSE
  OBVIOUS
<1> DEFINE F == {I \in SUBSET (0 .. n) : \E m \in Nat \ B : I = 0 .. m}
<1>1. 0 .. n \in F
  OBVIOUS
<1>2. IsFiniteSet(0 .. n)
  BY FS_Interval
<1>3. PICK I \in F : \A J \in F : J \subseteq I => J = I
  <2> DEFINE S == 0 .. n
  <2>1. (\A J \in F : J \subseteq S) /\ F # {} /\ IsFiniteSet(S)
    BY <1>1, <1>2
  <2> HIDE DEF F, S
  <2>. QED BY <2>1, SmallestSubset
<1>4. PICK m \in Nat \ B : I = 0 .. m /\ I \in SUBSET (0 .. n)
  BY <1>3
<1>5. m - 1 \in Nat \ B
  BY <1>4
<1>6. (0 .. m - 1) \in F /\ (0 .. m - 1) \subseteq I
  BY <1>4, <1>5
<1>7. m \in I /\ m \notin 0 .. m - 1
  BY <1>4
<1>. QED BY <1>3, <1>6, <1>7

-----------------------------------------------------------------------------
(* SumFunction takes the elements out of the domain in an order CHOOSE     *)
(* picks; g, its recursion, has a value at every subset of the domain.     *)

Recursion(f, g, T) ==
  IF T = {} THEN 0 ELSE LET x == CHOOSE y \in T : TRUE IN f[x] + g[T \ {x}]

UpTo(S, n) == {T \in SUBSET S : Cardinality(T) <= n}

LEMMA RecursionExists ==
  ASSUME NEW f, IsFiniteSet(DOMAIN f)
  PROVE  \E g : g = [T \in SUBSET DOMAIN f |-> Recursion(f, g, T)]
<1> DEFINE S == DOMAIN f
           Defined(n) == \E g : g = [T \in UpTo(S, n) |-> Recursion(f, g, T)]
           B == {n \in Nat : Defined(n)}
<1>1. \A T \in SUBSET S : /\ Cardinality(T) \in Nat
                          /\ \A x \in T : Cardinality(T \ {x}) = Cardinality(T) - 1
                          /\ Cardinality(T) = 0 <=> T = {}
  BY FS_Subset, FS_CardinalityType, FS_RemoveElement, FS_EmptySet
<1>2. 0 \in B
  <2> DEFINE g == [T \in UpTo(S, 0) |-> 0]
  <2>1. \A T \in UpTo(S, 0) : T = {}
    BY <1>1 DEF UpTo
  <2>2. g = [T \in UpTo(S, 0) |-> Recursion(f, g, T)]
    BY <2>1 DEF Recursion
  <2>3. Defined(0)
    BY <2>2
  <2>. QED BY <2>3
<1>3. ASSUME NEW n \in B PROVE n + 1 \in B
  <2>1. PICK g : g = [T \in UpTo(S, n) |-> Recursion(f, g, T)]
    BY <1>3
  <2> DEFINE h == [T \in UpTo(S, n + 1) |-> IF T \in UpTo(S, n) THEN g[T]
                                            ELSE Recursion(f, g, T)]
  <2>2. ASSUME NEW T \in UpTo(S, n + 1), T # {}
        PROVE  LET x == CHOOSE y \in T : TRUE IN h[T \ {x}] = g[T \ {x}]
    <3> DEFINE x == CHOOSE y \in T : TRUE
    <3>1. x \in T
      BY <2>2
    <3> HIDE DEF x
    <3>2. T \ {x} \in UpTo(S, n) /\ T \ {x} \in UpTo(S, n + 1)
      BY <1>1, <3>1 DEF UpTo
    <3>. QED BY <3>2 DEF x
  <2>3. ASSUME NEW T \in UpTo(S, n + 1)
        PROVE  h[T] = Recursion(f, h, T)
    <3>1. Recursion(f, h, T) = Recursion(f, g, T)
      <4> HIDE DEF h
      <4>. QED BY <2>2 DEF Recursion
    <3>2. T \in UpTo(S, n) => g[T] = Recursion(f, g, T)
      BY <2>1
    <3>. QED BY <3>1, <3>2
  <2>4. h = [T \in UpTo(S, n + 1) |-> Recursion(f, h, T)]
    BY <2>3
  <2>5. Defined(n + 1)
    <3> HIDE DEF h
    <3>. QED BY <2>4
  <2>. QED BY <2>5
<1>4. B = Nat
  <2> HIDE DEF Defined
  <2>. QED BY <1>2, <1>3, EveryNat
<1>5. Defined(Cardinality(S))
  BY <1>1, <1>4
<1>6. UpTo(S, Cardinality(S)) = SUBSET S
  BY FS_Subset DEF UpTo
<1>. QED BY <1>5, <1>6

Sums(f, g) ==
  /\ g \in [SUBSET DOMAIN f -> Int]
  /\ g[{}] = 0
  /\ \A T \in SUBSET DOMAIN f : \A x \in T : g[T] = f[x] + g[T \ {x}]

(* Whatever element is taken out first, the sum is the same.               *)
LEMMA SumOfParts ==
  ASSUME NEW S, IsFiniteSet(S), NEW f \in [S -> Int]
  PROVE  \E g : Sums(f, g) /\ SumFunction(f) = g[S]
<1> DEFINE g == CHOOSE h : h = [T \in SUBSET S |-> Recursion(f, h, T)]
<1>1. SumFunction(f) = g[S]
  BY DEF SumFunction, SumFunctionOnSet, FoldFunctionOnSet, MapThenFoldSet, Recursion
<1>2. g = [T \in SUBSET S |-> Recursion(f, g, T)]
  <2>1. \E h : h = [T \in SUBSET S |-> Recursion(f, h, T)]
    BY RecursionExists
  <2>. QED BY <2>1
<1> HIDE DEF g
<1>3. g[{}] = 0
  BY <1>2 DEF Recursion
<1>4. \A T \in SUBSET S : T # {} => \E x \in T : g[T] = f[x] + g[T \ {x}]
  BY <1>2 DEF Recursion
<1>5. \A T \in SUBSET S : g[T] \in Int
  <2> DEFINE B == {T \in SUBSET S : g[T] \notin Int}
  <2>. SUFFICES ASSUME B # {} PROVE FALSE
    OBVIOUS
  <2>1. PICK T \in B : \A U \in B : U \subseteq T => U = T
    <3>1. \A T \in B : T \subseteq S
      OBVIOUS
    <3> HIDE DEF B
    <3>. QED BY <3>1, SmallestSubset
  <2>2. PICK x \in T : g[T] = f[x] + g[T \ {x}]
    <3>1. T \in SUBSET S /\ g[T] \notin Int
      BY <2>1
    <3>2. T # {}
      BY <1>3, <3>1
    <3>. QED BY <1>4, <3>1, <3>2
  <2>3. g[T \ {x}] \in Int
    BY <2>1
  <2>4. f[x] \in Int
    OBVIOUS
  <2>. QED BY <2>2, <2>3, <2>4
<1>6. \A T \in SUBSET S : \A x \in T : g[T] = f[x] + g[T \ {x}]
  <2> DEFINE Sound(T) == \A x \in T : g[T] = f[x] + g[T \ {x}]
             B == {T \in SUBSET S : ~Sound(T)}
  <2>. SUFFICES ASSUME B # {} PROVE FALSE
    OBVIOUS
  <2>1. PICK T \in B : \A U \in B : U \subseteq T => U = T
    <3>1. \A T \in B : T \subseteq S
      OBVIOUS
    <3> HIDE DEF B
    <3>. QED BY <3>1, SmallestSubset
  <2>2. PICK x \in T : g[T] # f[x] + g[T \ {x}]
    BY <2>1
  <2>3. PICK y \in T : g[T] = f[y] + g[T \ {y}]
    BY <1>4, <2>1
  <2>4. x # y
    BY <2>2, <2>3
  <2>5. Sound(T \ {x}) /\ Sound(T \ {y})
    <3>1. T \ {x} \notin B /\ T \ {y} \notin B
      BY <2>1
    <3>. QED BY <3>1
  <2> DEFINE rest == g[(T \ {x}) \ {y}]
  <2>6. (T \ {x}) \ {y} = (T \ {y}) \ {x}
    OBVIOUS
  <2>7. g[T \ {x}] = f[y] + rest /\ g[T \ {y}] = f[x] + rest
    BY <2>4, <2>5, <2>6
  <2>8. f[x] \in Int /\ f[y] \in Int /\ rest \in Int
    BY <1>5
  <2>9. g[T] = f[y] + (f[x] + rest) /\ g[T] # f[x] + (f[y] + rest)
    BY <2>2, <2>3, <2>7
  <2> HIDE DEF rest
  <2>. QED BY <2>8, <2>9
<1>. QED BY <1>1, <1>2, <1>3, <1>5, <1>6 DEF Sums

-----------------------------------------------------------------------------
(* Sums of functions that agree, are ordered, or are added up.             *)

LEMMA PartsAgree ==
  ASSUME NEW S, IsFiniteSet(S), NEW f, NEW g, NEW pf, NEW pg,
         Sums(f, pf), Sums(g, pg), S \subseteq DOMAIN f, S \subseteq DOMAIN g,
         \A x \in S : f[x] = g[x]
  PROVE  pf[S] = pg[S]
<1> DEFINE B == {T \in SUBSET S : pf[T] # pg[T]}
<1>. SUFFICES ASSUME B # {} PROVE FALSE
  OBVIOUS
<1>1. PICK T \in B : \A U \in B : U \subseteq T => U = T
  <2>1. \A T \in B : T \subseteq S
    OBVIOUS
  <2> HIDE DEF B
  <2>. QED BY <2>1, SmallestSubset
<1>2. T \in SUBSET S /\ pf[T] # pg[T]
  BY <1>1
<1>3. PICK x \in T : TRUE
  <2>1. pf[{}] = pg[{}]
    BY DEF Sums
  <2>. QED BY <1>2, <2>1
<1>4. pf[T \ {x}] = pg[T \ {x}]
  BY <1>1
<1>5. pf[T] = f[x] + pf[T \ {x}] /\ pg[T] = g[x] + pg[T \ {x}]
  BY <1>2 DEF Sums
<1>. QED BY <1>2, <1>4, <1>5

LEMMA PartsOrdered ==
  ASSUME NEW S, IsFiniteSet(S), NEW f \in [S -> Int], NEW g \in [S -> Int],
         NEW pf, NEW pg, Sums(f, pf), Sums(g, pg), \A x \in S : f[x] <= g[x]
  PROVE  pf[S] <= pg[S]
<1> DEFINE B == {T \in SUBSET S : ~ (pf[T] <= pg[T])}
<1>. SUFFICES ASSUME B # {} PROVE FALSE
  OBVIOUS
<1>1. PICK T \in B : \A U \in B : U \subseteq T => U = T
  <2>1. \A T \in B : T \subseteq S
    OBVIOUS
  <2> HIDE DEF B
  <2>. QED BY <2>1, SmallestSubset
<1>2. T \in SUBSET S /\ ~ (pf[T] <= pg[T])
  BY <1>1
<1>3. PICK x \in T : TRUE
  <2>1. pf[{}] = 0 /\ pg[{}] = 0
    BY DEF Sums
  <2>. QED BY <1>2, <2>1
<1> DEFINE a == pf[T \ {x}]
           b == pg[T \ {x}]
<1>4. a <= b
  BY <1>1
<1>5. pf[T] = f[x] + a /\ pg[T] = g[x] + b
  BY <1>2 DEF Sums
<1>6. a \in Int /\ b \in Int /\ f[x] \in Int /\ g[x] \in Int /\ f[x] <= g[x]
  BY <1>2 DEF Sums
<1> HIDE DEF a, b
<1>. QED BY <1>2, <1>4, <1>5, <1>6

LEMMA PartsAdded ==
  ASSUME NEW S, IsFiniteSet(S), NEW f \in [S -> Int], NEW g \in [S -> Int],
         NEW h \in [S -> Int], NEW pf, NEW pg, NEW ph,
         Sums(f, pf), Sums(g, pg), Sums(h, ph), \A x \in S : h[x] = f[x] + g[x]
  PROVE  ph[S] = pf[S] + pg[S]
<1> DEFINE B == {T \in SUBSET S : ph[T] # pf[T] + pg[T]}
<1>. SUFFICES ASSUME B # {} PROVE FALSE
  OBVIOUS
<1>1. PICK T \in B : \A U \in B : U \subseteq T => U = T
  <2>1. \A T \in B : T \subseteq S
    OBVIOUS
  <2> HIDE DEF B
  <2>. QED BY <2>1, SmallestSubset
<1>2. T \in SUBSET S /\ ph[T] # pf[T] + pg[T]
  BY <1>1
<1>3. PICK x \in T : TRUE
  <2>1. ph[{}] = pf[{}] + pg[{}]
    BY DEF Sums
  <2>. QED BY <1>2, <2>1
<1> DEFINE a == pf[T \ {x}]
           b == pg[T \ {x}]
           c == ph[T \ {x}]
<1>4. c = a + b
  BY <1>1
<1>5. pf[T] = f[x] + a /\ pg[T] = g[x] + b /\ ph[T] = h[x] + c
  BY <1>2 DEF Sums
<1>6. /\ a \in Int /\ b \in Int /\ c \in Int
      /\ f[x] \in Int /\ g[x] \in Int /\ h[x] = f[x] + g[x]
  BY <1>2 DEF Sums
<1> HIDE DEF a, b, c
<1>. QED BY <1>2, <1>4, <1>5, <1>6

LEMMA PartsScaled ==
  ASSUME NEW S, IsFiniteSet(S), NEW f \in [S -> Int], NEW g \in [S -> Int],
         NEW k \in Int, NEW pf, NEW pg, Sums(f, pf), Sums(g, pg),
         \A x \in S : g[x] = k * f[x]
  PROVE  pg[S] = k * pf[S]
<1> DEFINE B == {T \in SUBSET S : pg[T] # k * pf[T]}
<1>. SUFFICES ASSUME B # {} PROVE FALSE
  OBVIOUS
<1>1. PICK T \in B : \A U \in B : U \subseteq T => U = T
  <2>1. \A T \in B : T \subseteq S
    OBVIOUS
  <2> HIDE DEF B
  <2>. QED BY <2>1, SmallestSubset
<1>2. T \in SUBSET S /\ pg[T] # k * pf[T]
  BY <1>1
<1>3. PICK x \in T : TRUE
  <2>1. pf[{}] = 0 /\ pg[{}] = 0
    BY DEF Sums
  <2>. QED BY <1>2, <2>1
<1> DEFINE a == pf[T \ {x}]
           b == pg[T \ {x}]
           v == f[x]
<1>4. b = k * a
  BY <1>1
<1>5. pf[T] = v + a /\ pg[T] = k * v + b
  BY <1>2 DEF Sums
<1>6. a \in Int /\ b \in Int /\ v \in Int
  BY <1>2 DEF Sums
<1> HIDE DEF a, b, v
<1>7. k * (v + a) = k * v + k * a
  BY <1>6
<1>. QED BY <1>2, <1>4, <1>5, <1>7

-----------------------------------------------------------------------------
(* The same of SumFunction.                                                *)

LEMMA SumType ==
  ASSUME NEW S, IsFiniteSet(S), NEW f \in [S -> Int]
  PROVE  SumFunction(f) \in Int
<1>1. PICK g : Sums(f, g) /\ SumFunction(f) = g[S]
  BY SumOfParts
<1>. QED BY <1>1 DEF Sums

LEMMA SumMonotonic ==
  ASSUME NEW S, IsFiniteSet(S), NEW f \in [S -> Int], NEW g \in [S -> Int],
         \A x \in S : f[x] <= g[x]
  PROVE  SumFunction(f) <= SumFunction(g)
<1>1. PICK pf : Sums(f, pf) /\ SumFunction(f) = pf[S]
  BY SumOfParts
<1>2. PICK pg : Sums(g, pg) /\ SumFunction(g) = pg[S]
  BY SumOfParts
<1>. QED BY <1>1, <1>2, PartsOrdered

LEMMA SumAdded ==
  ASSUME NEW S, IsFiniteSet(S), NEW f \in [S -> Int], NEW g \in [S -> Int],
         NEW h \in [S -> Int], \A x \in S : h[x] = f[x] + g[x]
  PROVE  SumFunction(h) = SumFunction(f) + SumFunction(g)
<1>1. PICK pf : Sums(f, pf) /\ SumFunction(f) = pf[S]
  BY SumOfParts
<1>2. PICK pg : Sums(g, pg) /\ SumFunction(g) = pg[S]
  BY SumOfParts
<1>3. PICK ph : Sums(h, ph) /\ SumFunction(h) = ph[S]
  BY SumOfParts
<1>. QED BY <1>1, <1>2, <1>3, PartsAdded

LEMMA SumScaled ==
  ASSUME NEW S, IsFiniteSet(S), NEW f \in [S -> Int], NEW g \in [S -> Int],
         NEW k \in Int, \A x \in S : g[x] = k * f[x]
  PROVE  SumFunction(g) = k * SumFunction(f)
<1>1. PICK pf : Sums(f, pf) /\ SumFunction(f) = pf[S]
  BY SumOfParts
<1>2. PICK pg : Sums(g, pg) /\ SumFunction(g) = pg[S]
  BY SumOfParts
<1>. QED BY <1>1, <1>2, PartsScaled

LEMMA SumOfZeros ==
  ASSUME NEW S, IsFiniteSet(S), NEW f \in [S -> Int], \A x \in S : f[x] = 0
  PROVE  SumFunction(f) = 0
<1>1. SumFunction(f) = 0 * SumFunction(f)
  BY SumScaled
<1>. QED BY <1>1, SumType

LEMMA SumNat ==
  ASSUME NEW S, IsFiniteSet(S), NEW f \in [S -> Nat]
  PROVE  SumFunction(f) \in Nat
<1> DEFINE z == [x \in S |-> 0]
<1>1. f \in [S -> Int] /\ z \in [S -> Int] /\ \A x \in S : z[x] = 0 /\ z[x] <= f[x]
  OBVIOUS
<1> HIDE DEF z
<1>2. SumFunction(z) = 0 /\ SumFunction(z) <= SumFunction(f)
  BY <1>1, SumOfZeros, SumMonotonic
<1>3. SumFunction(f) \in Int
  BY <1>1, SumType
<1>. QED BY <1>2, <1>3

(* The functions differ at one place only.                                 *)
LEMMA SumChanged ==
  ASSUME NEW S, IsFiniteSet(S), NEW f \in [S -> Int], NEW g \in [S -> Int],
         NEW x \in S, \A y \in S : y # x => g[y] = f[y]
  PROVE  SumFunction(g) = SumFunction(f) - f[x] + g[x]
<1>1. PICK pf : Sums(f, pf) /\ SumFunction(f) = pf[S]
  BY SumOfParts
<1>2. PICK pg : Sums(g, pg) /\ SumFunction(g) = pg[S]
  BY SumOfParts
<1> DEFINE R == S \ {x}
<1>3. /\ IsFiniteSet(R) /\ R \subseteq DOMAIN f /\ R \subseteq DOMAIN g
      /\ \A y \in R : f[y] = g[y]
  BY FS_RemoveElement
<1>4. pf[S] = f[x] + pf[R] /\ pg[S] = g[x] + pg[R] /\ pf[R] \in Int
  BY <1>1, <1>2 DEF Sums
<1> HIDE DEF R
<1>5. pf[R] = pg[R]
  BY <1>1, <1>2, <1>3, PartsAgree
<1>6. f[x] \in Int /\ g[x] \in Int
  OBVIOUS
<1>. QED BY <1>1, <1>2, <1>4, <1>5, <1>6

(* ... or g has one more place.                                            *)
LEMMA SumExtended ==
  ASSUME NEW S, IsFiniteSet(S), NEW x, x \notin S, NEW f \in [S -> Int],
         NEW g \in [S \cup {x} -> Int], \A y \in S : g[y] = f[y]
  PROVE  SumFunction(g) = SumFunction(f) + g[x]
<1> DEFINE R == S \cup {x}
<1>1. IsFiniteSet(R) /\ g \in [R -> Int] /\ x \in R /\ R \ {x} = S
  BY FS_AddElement
<1>2. PICK pf : Sums(f, pf) /\ SumFunction(f) = pf[S]
  BY SumOfParts
<1> HIDE DEF R
<1>3. PICK pg : Sums(g, pg) /\ SumFunction(g) = pg[R]
  BY <1>1, SumOfParts
<1>4. pg[R] = g[x] + pg[S] /\ pf[S] \in Int
  BY <1>1, <1>2, <1>3 DEF Sums
<1>5. pf[S] = pg[S]
  BY <1>1, <1>2, <1>3, PartsAgree
<1>6. g[x] \in Int
  BY <1>1
<1>. QED BY <1>2, <1>3, <1>4, <1>5, <1>6

(* No share of a total, truncated, exceeds its part: together they do not  *)
(* exceed the total.                                                       *)
LEMMA SumOfShares ==
  ASSUME NEW S, IsFiniteSet(S), NEW f \in [S -> Nat], NEW a \in [S -> Nat],
         NEW k \in Nat, NEW d \in Nat, \A x \in S : d * f[x] <= k * a[x]
  PROVE  d * SumFunction(f) <= k * SumFunction(a)
<1> DEFINE df == [x \in S |-> d * f[x]]
           ka == [x \in S |-> k * a[x]]
<1>1. /\ f \in [S -> Int] /\ a \in [S -> Int] /\ k \in Int /\ d \in Int
      /\ df \in [S -> Int] /\ ka \in [S -> Int]
      /\ \A x \in S : df[x] = d * f[x] /\ ka[x] = k * a[x] /\ df[x] <= ka[x]
  OBVIOUS
<1> HIDE DEF df, ka
<1>2. SumFunction(df) = d * SumFunction(f) /\ SumFunction(ka) = k * SumFunction(a)
  BY <1>1, SumScaled
<1>3. SumFunction(df) <= SumFunction(ka)
  BY <1>1, SumMonotonic
<1>. QED BY <1>2, <1>3
=============================================================================
