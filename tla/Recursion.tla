------------------------------ MODULE Recursion ------------------------------
(***************************************************************************)
(* Induction and recursion in a form the provers can use: a predicate is a *)
(* set, and the step of a recursive definition is a constant of this       *)
(* module, given its value by INSTANCE.                                    *)
(***************************************************************************)
EXTENDS Integers, FiniteSets, FiniteSetTheorems, WellFoundedInduction, TLAPS

\* Step(c, g, x): the value at x of a function that g is as far as x needs it,
\* in the context c.
CONSTANT Step(_, _, _)

-----------------------------------------------------------------------------
(***************************************************************************)
(* What holds of 0, and of the successor of each number it holds of, holds *)
(* of every number.                                                        *)
(***************************************************************************)
LEMMA Induction ==
  ASSUME NEW P, 0 \in P, \A n \in Nat : n \in P => n + 1 \in P
  PROVE  Nat \subseteq P
<1> DEFINE R == OpToRel(<, Nat)
<1> SUFFICES ASSUME Nat \ P # {} PROVE FALSE
  OBVIOUS
<1>1. IsWellFoundedOn(R, Nat)
  BY NatLessThanWellFounded
<1>2. \A x, y \in Nat : y < x => <<y, x>> \in R
  BY DEF OpToRel
<1> HIDE DEF R
<1>3. PICK x \in Nat \ P : \A y \in Nat \ P : <<y, x>> \notin R
  BY <1>1, WFMin
<1>4. \A y \in Nat \ P : ~(y < x)
  BY <1>2, <1>3
<1>5. x # 0 /\ x \in Nat /\ x \notin P
  OBVIOUS
<1>6. x - 1 \in Nat /\ x - 1 < x /\ (x - 1) + 1 = x
  BY <1>5
<1>7. x - 1 \in P
  BY <1>4, <1>6
<1>8. (x - 1) + 1 \in P
  BY <1>6, <1>7
<1> QED BY <1>5, <1>6, <1>8

(***************************************************************************)
(* What holds of the empty set, and of a subset of the finite set S as     *)
(* soon as it holds of it without any one of its elements, holds of S and  *)
(* of all its subsets.                                                     *)
(***************************************************************************)
LEMMA SetInduction ==
  ASSUME NEW S, IsFiniteSet(S), NEW P, {} \in P,
         \A T \in SUBSET S : T # {} /\ (\A x \in T : T \ {x} \in P) => T \in P
  PROVE  SUBSET S \subseteq P
<1> DEFINE N == {n \in Nat : \A T \in SUBSET S : Cardinality(T) = n => T \in P}
<1>1. 0 \in N
  BY FS_Subset, FS_EmptySet
<1>2. ASSUME NEW n \in Nat, n \in N PROVE n + 1 \in N
  <2> SUFFICES ASSUME NEW T \in SUBSET S, Cardinality(T) = n + 1 PROVE T \in P
    OBVIOUS
  <2>1. IsFiniteSet(T) BY FS_Subset
  <2>2. T # {}
    <3>1. Cardinality(T) # 0 OBVIOUS
    <3> QED BY <3>1, FS_EmptySet
  <2>3. ASSUME NEW x \in T PROVE T \ {x} \in P
    <3>1. Cardinality(T \ {x}) = Cardinality(T) - 1
      BY <2>1, FS_RemoveElement
    <3>2. Cardinality(T \ {x}) = n BY <3>1
    <3> QED BY <1>2, <3>2
  <2> QED BY <2>2, <2>3
<1> HIDE DEF N
<1>3. Nat \subseteq N BY <1>1, <1>2, Induction
<1>4. ASSUME NEW T \in SUBSET S PROVE T \in P
  <2>1. IsFiniteSet(T) BY FS_Subset
  <2>2. Cardinality(T) \in N BY <1>3, <2>1, FS_CardinalityType
  <2> QED BY <2>2 DEF N
<1> QED BY <1>4

(***************************************************************************)
(* A set of numbers up to n has a largest element.                         *)
(***************************************************************************)
LEMMA HasMax ==
  ASSUME NEW n \in Nat, NEW T \in SUBSET (1..n), T # {}
  PROVE  \E x \in T : \A y \in T : x >= y
<1> DEFINE N == {k \in Nat : \A U \in SUBSET (1..k) :
                   U # {} => \E x \in U : \A y \in U : x >= y}
<1>1. 0 \in N
  <2>1. 1..0 = {} OBVIOUS
  <2> QED BY <2>1
<1>2. ASSUME NEW k \in Nat, k \in N PROVE k + 1 \in N
  <2> SUFFICES ASSUME NEW U \in SUBSET (1..k + 1), U # {}
               PROVE  \E x \in U : \A y \in U : x >= y
    OBVIOUS
  <2>1. CASE k + 1 \in U
    <3>1. \A y \in U : k + 1 >= y OBVIOUS
    <3> QED BY <2>1, <3>1
  <2>2. CASE k + 1 \notin U
    <3>1. U \in SUBSET (1..k) BY <2>2
    <3> QED BY <1>2, <3>1
  <2> QED BY <2>1, <2>2
<1> HIDE DEF N
<1>3. Nat \subseteq N BY <1>1, <1>2, Induction
<1>4. n \in N BY <1>3
<1> QED BY <1>4 DEF N

-----------------------------------------------------------------------------
Below(S, rank, n) == {x \in S : rank[x] < n}

\* g is the recursive function as far as arguments of a rank below n.
Upto(S, rank, c, n, g) == g = [x \in Below(S, rank, n) |-> Step(c, g, x)]

\* The step at x asks for values at arguments of a smaller rank only.
Descends(S, rank, c) ==
  \A g, h : \A x \in S :
    (\A y \in S : rank[y] < rank[x] => g[y] = h[y]) => Step(c, g, x) = Step(c, h, x)

(***************************************************************************)
(* Two functions that satisfy the definition up to m and up to n agree up  *)
(* to m, the smaller of them.                                              *)
(***************************************************************************)
LEMMA Agree ==
  ASSUME NEW S, NEW rank \in [S -> Nat], NEW c, Descends(S, rank, c),
         NEW m \in Nat, NEW n \in Nat, m <= n,
         NEW g, Upto(S, rank, c, m, g), NEW h, Upto(S, rank, c, n, h)
  PROVE  \A x \in Below(S, rank, m) : g[x] = h[x]
<1> DEFINE N == {k \in Nat : k <= m => \A x \in Below(S, rank, k) : g[x] = h[x]}
<1>1. 0 \in N BY DEF Below
<1>2. ASSUME NEW k \in Nat, k \in N PROVE k + 1 \in N
  <2> SUFFICES ASSUME k + 1 <= m, NEW x \in Below(S, rank, k + 1) PROVE g[x] = h[x]
    OBVIOUS
  <2>1. x \in S /\ rank[x] <= k /\ x \in Below(S, rank, m) /\ x \in Below(S, rank, n)
    BY DEF Below
  <2>2. g[x] = Step(c, g, x) /\ h[x] = Step(c, h, x)
    BY <2>1 DEF Upto
  <2>3. \A y \in S : rank[y] < rank[x] => g[y] = h[y]
    BY <1>2, <2>1 DEF Below
  <2> QED BY <2>1, <2>2, <2>3 DEF Descends
<1> HIDE DEF N
<1>3. Nat \subseteq N BY <1>1, <1>2, Induction
<1>4. m \in N BY <1>3
<1> QED BY <1>4 DEF N

(***************************************************************************)
(* There is a function up to every rank.                                   *)
(***************************************************************************)
LEMMA ExistsUpto ==
  ASSUME NEW S, NEW rank \in [S -> Nat], NEW c, Descends(S, rank, c)
  PROVE  \A n \in Nat : \E g : Upto(S, rank, c, n, g)
<1> DEFINE N == {n \in Nat : \E g : Upto(S, rank, c, n, g)}
<1>1. 0 \in N
  <2>1. Below(S, rank, 0) = {} BY DEF Below
  <2>2. [x \in {} |-> 0] = [x \in {} |-> Step(c, [y \in {} |-> 0], x)] OBVIOUS
  <2> QED BY <2>1, <2>2 DEF Upto
<1>2. ASSUME NEW n \in Nat, n \in N PROVE n + 1 \in N
  <2>1. PICK g : Upto(S, rank, c, n, g) BY <1>2
  <2> DEFINE h == [x \in Below(S, rank, n + 1) |-> Step(c, g, x)]
  <2>2. ASSUME NEW x \in Below(S, rank, n + 1) PROVE Step(c, g, x) = Step(c, h, x)
    <3>1. ASSUME NEW y \in S, rank[y] < rank[x] PROVE g[y] = h[y]
      <4>1. y \in Below(S, rank, n) /\ y \in Below(S, rank, n + 1)
        BY <2>2, <3>1 DEF Below
      <4> QED BY <2>1, <4>1 DEF Upto
    <3> HIDE DEF h
    <3>2. x \in S BY DEF Below
    <3> QED BY <3>1, <3>2 DEF Descends
  <2>3. h = [x \in Below(S, rank, n + 1) |-> Step(c, h, x)]
    BY <2>2
  <2> HIDE DEF h
  <2> QED BY <2>3 DEF Upto
<1> HIDE DEF N
<1>3. Nat \subseteq N BY <1>1, <1>2, Induction
<1> QED BY <1>3 DEF N

\* g satisfies the recursive definition on S.
Solves(S, c, g) == g = [x \in S |-> Step(c, g, x)]

(***************************************************************************)
(* A definition whose step descends defines a function.                    *)
(***************************************************************************)
THEOREM RecursiveFunction ==
  ASSUME NEW S, NEW rank \in [S -> Nat], NEW c, Descends(S, rank, c)
  PROVE  \E g : Solves(S, c, g)
<1> DEFINE G(n) == CHOOSE g : Upto(S, rank, c, n, g)
           F == [x \in S |-> G(rank[x] + 1)[x]]
<1>1. \A n \in Nat : Upto(S, rank, c, n, G(n))
  BY ExistsUpto
<1> HIDE DEF G
<1>2. ASSUME NEW x \in S PROVE F[x] = Step(c, F, x)
  <2> DEFINE n == rank[x] + 1
  <2>1. n \in Nat /\ x \in Below(S, rank, n) BY DEF Below
  <2>2. F[x] = Step(c, G(n), x)
    BY <1>1, <2>1 DEF Upto
  <2>3. ASSUME NEW y \in S, rank[y] < rank[x] PROVE F[y] = G(n)[y]
    <3>1. rank[y] + 1 \in Nat /\ rank[y] + 1 <= n /\ y \in Below(S, rank, rank[y] + 1)
      BY <2>3 DEF Below
    <3> HIDE DEF n
    <3>2. G(rank[y] + 1)[y] = G(n)[y]
      BY <1>1, <2>1, <3>1, Agree
    <3> QED BY <3>2
  <2> HIDE DEF F, n
  <2>4. Step(c, G(n), x) = Step(c, F, x)
    BY <2>3 DEF Descends
  <2> QED BY <2>2, <2>4
<1>3. F = [x \in S |-> Step(c, F, x)]
  BY <1>2
<1> HIDE DEF F
<1> QED BY <1>3 DEF Solves

\* The step at x asks for the value at its predecessor only.
ByPredecessor(S, c) ==
  \A g, h : \A x \in S :
    (x # 0 /\ x - 1 \in S => g[x - 1] = h[x - 1]) => Step(c, g, x) = Step(c, h, x)

(***************************************************************************)
(* Recursion on numbers: a tree level by level, a loop round by round.     *)
(***************************************************************************)
THEOREM RecursionByPredecessor ==
  ASSUME NEW S \in SUBSET Nat, NEW c, ByPredecessor(S, c)
  PROVE  \E g : Solves(S, c, g)
<1> DEFINE rank == [x \in S |-> x]
<1>1. rank \in [S -> Nat]
  OBVIOUS
<1>2. Descends(S, rank, c)
  <2> SUFFICES ASSUME NEW g, NEW h, NEW x \in S,
                      \A y \in S : rank[y] < rank[x] => g[y] = h[y]
               PROVE  Step(c, g, x) = Step(c, h, x)
    BY DEF Descends
  <2>1. ASSUME x # 0, x - 1 \in S PROVE g[x - 1] = h[x - 1]
    <3>1. x \in Nat /\ x - 1 < x OBVIOUS
    <3>2. rank[x - 1] < rank[x] BY <2>1, <3>1
    <3> QED BY <2>1, <3>2
  <2> QED BY <2>1 DEF ByPredecessor
<1> HIDE DEF rank
<1> QED BY <1>1, <1>2, RecursiveFunction
=============================================================================
