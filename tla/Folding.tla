------------------------------- MODULE Folding -------------------------------
(***************************************************************************)
(* What a fold over a finite set computes, for every set: the folds of the *)
(* community modules are this one, with an operation and a way to choose   *)
(* the next element, which are given their values by INSTANCE.             *)
(***************************************************************************)
EXTENDS Integers, Sequences, FiniteSets, FiniteSetTheorems, TLAPS

CONSTANTS op(_, _), choose(_)

\* The definition of MapThenFoldSet, with a function for what is folded.
Fold(base, f, S) ==
  LET iter[s \in SUBSET S] ==
        IF s = {} THEN base
        ELSE LET x == choose(s)
             IN  op(f[x], iter[s \ {x}])
  IN  iter[S]

Chooses(S) == \A T \in SUBSET S : T # {} => choose(T) \in T

ClosedOn(V) == \A u, v \in V : op(u, v) \in V

CommutesOn(V) ==
  /\ \A u, v \in V : op(u, v) = op(v, u)
  /\ \A u, v, w \in V : op(u, op(v, w)) = op(op(u, v), w)

\* One step of iter, in the context of a base and a function.
FoldStep(c, g, s) ==
  IF s = {} THEN c.base ELSE op(c.f[choose(s)], g[s \ {choose(s)}])

Context(base, f) == [base |-> base, f |-> f]

Rec == INSTANCE Recursion WITH Step <- FoldStep

Iter(base, f, S) == CHOOSE g : Rec!Solves(SUBSET S, Context(base, f), g)

(***************************************************************************)
(* Fold evaluates a function that satisfies its recursive definition.      *)
(***************************************************************************)
LEMMA IterDefined ==
  ASSUME NEW S, IsFiniteSet(S), Chooses(S), NEW base, NEW f
  PROVE  /\ Fold(base, f, S) = Iter(base, f, S)[S]
         /\ Iter(base, f, S)[{}] = base
         /\ \A s \in SUBSET S : s # {} =>
              Iter(base, f, S)[s] = op(f[choose(s)], Iter(base, f, S)[s \ {choose(s)}])
<1> DEFINE c == Context(base, f)
           rank == [s \in SUBSET S |-> Cardinality(s)]
<1>1. Fold(base, f, S) = Iter(base, f, S)[S]
  BY DEF Fold, Iter, FoldStep, Context, Rec!Solves
<1>2. rank \in [SUBSET S -> Nat]
  BY FS_Subset, FS_CardinalityType
<1>3. Rec!Descends(SUBSET S, rank, c)
  <2> SUFFICES ASSUME NEW g, NEW h, NEW s \in SUBSET S,
                      \A t \in SUBSET S : rank[t] < rank[s] => g[t] = h[t]
               PROVE  FoldStep(c, g, s) = FoldStep(c, h, s)
    BY DEF Rec!Descends
  <2>1. CASE s = {} BY <2>1 DEF FoldStep
  <2>2. CASE s # {}
    <3>1. choose(s) \in s BY <2>2 DEF Chooses
    <3>2. IsFiniteSet(s) BY FS_Subset
    <3>3. Cardinality(s) \in Nat /\ Cardinality(s \ {choose(s)}) = Cardinality(s) - 1
      BY <3>1, <3>2, FS_RemoveElement, FS_CardinalityType
    <3>4. s \ {choose(s)} \in SUBSET S /\ rank[s \ {choose(s)}] < rank[s]
      BY <3>3
    <3>5. g[s \ {choose(s)}] = h[s \ {choose(s)}]
      BY <3>4
    <3> QED BY <2>2, <3>5 DEF FoldStep
  <2> QED BY <2>1, <2>2
<1> HIDE DEF rank, c
<1>4. \E g : Rec!Solves(SUBSET S, c, g)
  BY <1>2, <1>3, Rec!RecursiveFunction
<1>5. Rec!Solves(SUBSET S, c, Iter(base, f, S))
  BY <1>4 DEF Iter, c
<1>6. ASSUME NEW s \in SUBSET S PROVE Iter(base, f, S)[s] = FoldStep(c, Iter(base, f, S), s)
  BY <1>5 DEF Rec!Solves
<1>7. Iter(base, f, S)[{}] = base
  BY <1>6 DEF FoldStep, Context, c
<1>8. ASSUME NEW s \in SUBSET S, s # {}
      PROVE  Iter(base, f, S)[s] = op(f[choose(s)], Iter(base, f, S)[s \ {choose(s)}])
  BY <1>6, <1>8 DEF FoldStep, Context, c
<1> QED BY <1>1, <1>7, <1>8

(***************************************************************************)
(* A fold over a subset is a value of the same function.                   *)
(***************************************************************************)
LEMMA IterAgrees ==
  ASSUME NEW S, IsFiniteSet(S), Chooses(S), NEW base, NEW f, NEW h,
         NEW T \in SUBSET S, \A x \in T : f[x] = h[x]
  PROVE  Iter(base, f, S)[T] = Fold(base, h, T)
<1>1. IsFiniteSet(T) /\ Chooses(T)
  BY FS_Subset DEF Chooses
<1>0. Rec!IsFiniteSet(T)
  BY <1>1 DEF IsFiniteSet, Rec!IsFiniteSet
<1> DEFINE P == {U \in SUBSET T : Iter(base, f, S)[U] = Iter(base, h, T)[U]}
<1>2. {} \in P
  <2>1. Iter(base, f, S)[{}] = base BY IterDefined
  <2>2. Iter(base, h, T)[{}] = base BY <1>1, IterDefined
  <2> QED BY <2>1, <2>2
<1>3. ASSUME NEW U \in SUBSET T, U # {}, \A x \in U : U \ {x} \in P PROVE U \in P
  <2>1. choose(U) \in U BY <1>1, <1>3 DEF Chooses
  <2>2. f[choose(U)] = h[choose(U)] BY <2>1
  <2>3. Iter(base, f, S)[U \ {choose(U)}] = Iter(base, h, T)[U \ {choose(U)}]
    BY <1>3, <2>1
  <2>4. Iter(base, f, S)[U] = op(f[choose(U)], Iter(base, f, S)[U \ {choose(U)}])
    BY <1>3, IterDefined
  <2>5. Iter(base, h, T)[U] = op(h[choose(U)], Iter(base, h, T)[U \ {choose(U)}])
    <3>1. \A s \in SUBSET T : s # {} =>
            Iter(base, h, T)[s] = op(h[choose(s)], Iter(base, h, T)[s \ {choose(s)}])
      BY <1>1, IterDefined
    <3> QED BY <1>3, <3>1
  <2> QED BY <1>3, <2>2, <2>3, <2>4, <2>5
<1> HIDE DEF P
<1>4. SUBSET T \subseteq P BY <1>0, <1>2, <1>3, Rec!SetInduction
<1>5. T \in P BY <1>4
<1> QED BY <1>1, <1>5, IterDefined DEF P

(***************************************************************************)
(* The fold of nothing.                                                    *)
(***************************************************************************)
THEOREM FoldEmpty ==
  ASSUME NEW base, NEW f
  PROVE  Fold(base, f, {}) = base
<1>1. Chooses({}) BY DEF Chooses
<1> QED BY <1>1, IterDefined, FS_EmptySet

(***************************************************************************)
(* The element chosen is taken out of the fold.                            *)
(***************************************************************************)
THEOREM FoldChosen ==
  ASSUME NEW S, IsFiniteSet(S), Chooses(S), S # {}, NEW base, NEW f
  PROVE  Fold(base, f, S) = op(f[choose(S)], Fold(base, f, S \ {choose(S)}))
<1>1. Fold(base, f, S) = op(f[choose(S)], Iter(base, f, S)[S \ {choose(S)}])
  <2>1. Fold(base, f, S) = Iter(base, f, S)[S]
    BY IterDefined
  <2>2. Iter(base, f, S)[S] = op(f[choose(S)], Iter(base, f, S)[S \ {choose(S)}])
    BY IterDefined
  <2> QED BY <2>1, <2>2
<1>2. Iter(base, f, S)[S \ {choose(S)}] = Fold(base, f, S \ {choose(S)})
  <2>1. S \ {choose(S)} \in SUBSET S OBVIOUS
  <2>2. \A x \in S \ {choose(S)} : f[x] = f[x] OBVIOUS
  <2> HIDE DEF Fold
  <2> QED BY <2>1, <2>2, IterAgrees
<1> QED BY <1>1, <1>2

(***************************************************************************)
(* The fold depends on the values of the function on the set only.         *)
(***************************************************************************)
THEOREM FoldExtensional ==
  ASSUME NEW S, IsFiniteSet(S), Chooses(S), NEW base, NEW f, NEW h,
         \A x \in S : f[x] = h[x]
  PROVE  Fold(base, f, S) = Fold(base, h, S)
BY IterDefined, IterAgrees

(***************************************************************************)
(* An operation that is closed on a set of values folds into that set.     *)
(***************************************************************************)
THEOREM FoldType ==
  ASSUME NEW S, IsFiniteSet(S), Chooses(S), NEW V, NEW base \in V, NEW f,
         \A x \in S : f[x] \in V, ClosedOn(V)
  PROVE  Fold(base, f, S) \in V
<1>0. Rec!IsFiniteSet(S)
  BY DEF IsFiniteSet, Rec!IsFiniteSet
<1> DEFINE P == {T \in SUBSET S : Iter(base, f, S)[T] \in V}
<1>1. {} \in P
  <2>1. Iter(base, f, S)[{}] = base BY IterDefined
  <2> QED BY <2>1
<1>2. ASSUME NEW T \in SUBSET S, T # {}, \A x \in T : T \ {x} \in P PROVE T \in P
  <2>1. choose(T) \in T BY <1>2 DEF Chooses
  <2>2. f[choose(T)] \in V /\ Iter(base, f, S)[T \ {choose(T)}] \in V
    BY <1>2, <2>1
  <2>3. Iter(base, f, S)[T] = op(f[choose(T)], Iter(base, f, S)[T \ {choose(T)}])
    <3>1. IsFiniteSet(S) /\ Chooses(S) OBVIOUS
    <3>2. \A s \in SUBSET S : s # {} =>
            Iter(base, f, S)[s] = op(f[choose(s)], Iter(base, f, S)[s \ {choose(s)}])
      BY ONLY <3>1, IterDefined
    <3> QED BY <1>2, <3>2
  <2> QED BY <1>2, <2>2, <2>3 DEF ClosedOn
<1> HIDE DEF P
<1>3. SUBSET S \subseteq P BY ONLY <1>0, <1>1, <1>2, Rec!SetInduction
<1>4. S \in P BY <1>3
<1> QED BY <1>4, IterDefined DEF P

(***************************************************************************)
(* The order of two operands of nested operations does not matter.         *)
(***************************************************************************)
LEMMA Exchange ==
  ASSUME NEW V, CommutesOn(V),
         NEW x \in V, NEW y \in V, NEW r \in V
  PROVE  op(y, op(x, r)) = op(x, op(y, r))
<1>1. op(y, op(x, r)) = op(op(y, x), r) BY DEF CommutesOn
<1>2. op(x, op(y, r)) = op(op(x, y), r) BY DEF CommutesOn
<1>3. op(y, x) = op(x, y) BY DEF CommutesOn
<1> QED BY <1>1, <1>2, <1>3

(***************************************************************************)
(* Of an associative and commutative operation, any element may be taken   *)
(* out of the fold.                                                        *)
(***************************************************************************)
THEOREM FoldAnyElement ==
  ASSUME NEW S, IsFiniteSet(S), Chooses(S), NEW V, NEW base \in V, NEW f,
         \A x \in S : f[x] \in V, ClosedOn(V), CommutesOn(V),
         NEW e \in S
  PROVE  Fold(base, f, S) = op(f[e], Fold(base, f, S \ {e}))
<1>0. Rec!IsFiniteSet(S)
  BY DEF IsFiniteSet, Rec!IsFiniteSet
<1> DEFINE P == {T \in SUBSET S : \A x \in T :
                   Fold(base, f, T) = op(f[x], Fold(base, f, T \ {x}))}
<1>1. {} \in P OBVIOUS
<1>2. \A T \in SUBSET S : IsFiniteSet(T) /\ Chooses(T) /\ Fold(base, f, T) \in V
  <2> SUFFICES ASSUME NEW T \in SUBSET S
               PROVE  IsFiniteSet(T) /\ Chooses(T) /\ Fold(base, f, T) \in V
    OBVIOUS
  <2>1. IsFiniteSet(T) /\ Chooses(T) BY FS_Subset DEF Chooses
  <2>2. \A x \in T : f[x] \in V OBVIOUS
  <2> QED BY <2>1, <2>2, FoldType
<1>3. ASSUME NEW T \in SUBSET S, T # {}, \A x \in T : T \ {x} \in P PROVE T \in P
  <2> DEFINE y == choose(T)
  <2>1. y \in T BY <1>2, <1>3 DEF Chooses
  <2>2. Fold(base, f, T) = op(f[y], Fold(base, f, T \ {y}))
    BY <1>2, <1>3, FoldChosen
  <2> HIDE DEF y
  <2> SUFFICES ASSUME NEW x \in T, x # y
               PROVE  Fold(base, f, T) = op(f[x], Fold(base, f, T \ {x}))
    BY <2>2
  <2> DEFINE rest == (T \ {y}) \ {x}
  <2>3. Fold(base, f, T \ {y}) = op(f[x], Fold(base, f, rest))
    BY <1>3, <2>1
  <2>4. Fold(base, f, T \ {x}) = op(f[y], Fold(base, f, rest))
    <3>1. rest = (T \ {x}) \ {y} OBVIOUS
    <3> HIDE DEF rest
    <3>2. T \ {x} \in P /\ y \in T \ {x} BY <1>3, <2>1
    <3> QED BY <3>1, <3>2
  <2>5. Fold(base, f, rest) \in V /\ f[x] \in V /\ f[y] \in V
    BY <1>2, <2>1
  <2>6. op(f[y], op(f[x], Fold(base, f, rest))) = op(f[x], op(f[y], Fold(base, f, rest)))
    <3> DEFINE r == Fold(base, f, rest)
               a == f[x]
               b == f[y]
    <3>1. r \in V /\ a \in V /\ b \in V BY <2>5
    <3> HIDE DEF r, a, b, rest
    <3>2. op(b, op(a, r)) = op(a, op(b, r)) BY <3>1, Exchange
    <3> QED BY <3>2 DEF r, a, b
  <2> HIDE DEF rest
  <2> QED BY <2>2, <2>3, <2>4, <2>6
<1> HIDE DEF P
<1>4. SUBSET S \subseteq P BY ONLY <1>0, <1>1, <1>3, Rec!SetInduction
<1>5. S \in P BY <1>4
<1> QED BY <1>5 DEF P

(***************************************************************************)
(* Of indices chosen from the last one down, as FoldLeft does, the fold of *)
(* a longer sequence is one more operation on the fold of the sequence.    *)
(***************************************************************************)
THEOREM FoldAppend ==
  ASSUME NEW E, NEW s \in Seq(E), NEW e \in E, NEW base,
         Chooses(1..Len(s) + 1), choose(1..Len(s) + 1) = Len(s) + 1
  PROVE  Fold(base, Append(s, e), 1..Len(s) + 1)
           = op(e, Fold(base, s, 1..Len(s)))
<1> DEFINE n == Len(s)
           t == Append(s, e)
<1>1. /\ n \in Nat /\ t[n + 1] = e
      /\ \A i \in 1..n : t[i] = s[i]
  OBVIOUS
<1> HIDE DEF n, t
<1>2. /\ (1..n + 1) \ {n + 1} = 1..n
      /\ 1..n \in SUBSET (1..n + 1) /\ 1..n + 1 # {}
  <2>1. n \in Nat BY <1>1
  <2> QED BY <2>1
<1>3. IsFiniteSet(1..n) /\ IsFiniteSet(1..n + 1)
  BY <1>1, FS_Interval
<1>4. choose(1..n + 1) = n + 1 /\ Chooses(1..n + 1)
  BY DEF n
<1>5. Chooses(1..n)
  BY <1>2, <1>4 DEF Chooses
<1>6. Fold(base, t, 1..n + 1) = op(t[n + 1], Fold(base, t, 1..n))
  BY <1>2, <1>3, <1>4, FoldChosen
<1>7. Fold(base, t, 1..n) = Fold(base, s, 1..n)
  BY <1>1, <1>3, <1>5, FoldExtensional
<1> QED BY <1>1, <1>6, <1>7 DEF n, t
=============================================================================
