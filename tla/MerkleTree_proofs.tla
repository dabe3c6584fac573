------------------------- MODULE MerkleTree_proofs -------------------------
(***************************************************************************)
(* What holds of the contract's tree and of the client's for every depth   *)
(* and every number of insertions.                                         *)
(***************************************************************************)
EXTENDS ClientTree, TLAPS

-----------------------------------------------------------------------------
(* The recursive functions of the model satisfy their definitions. *)

PowStep(c, g, n) == IF n = 0 THEN 1 ELSE 2 * g[n - 1]
PowRec == INSTANCE Recursion WITH Step <- PowStep

ZeroStep(c, g, l) == IF l = 0 THEN ZeroLeaf ELSE HashNode(g[l - 1], g[l - 1])
ZeroRec == INSTANCE Recursion WITH Step <- ZeroStep

\* c: the leaves.
NodeStep(c, g, l) ==
  [i \in Nat |->
     IF l = 0
     THEN IF i < Len(c) THEN c[i + 1] ELSE ZeroLeaf
     ELSE HashNode(g[l - 1][2 * i], g[l - 1][2 * i + 1])]
NodeRec == INSTANCE Recursion WITH Step <- NodeStep

(***************************************************************************)
(* Powers of two.                                                          *)
(***************************************************************************)
LEMMA Pow2Def ==
  /\ Pow2[0] = 1
  /\ \A n \in Nat : Pow2[n + 1] = 2 * Pow2[n]
<1>1. PowRec!ByPredecessor(Nat, 0)
  BY DEF PowRec!ByPredecessor, PowStep
<1>2. \E g : PowRec!Solves(Nat, 0, g)
  BY <1>1, PowRec!RecursionByPredecessor
<1>3. \E g : g = [n \in Nat |-> IF n = 0 THEN 1 ELSE 2 * g[n - 1]]
  BY <1>2 DEF PowRec!Solves, PowStep
<1>4. Pow2 = [n \in Nat |-> IF n = 0 THEN 1 ELSE 2 * Pow2[n - 1]]
  BY <1>3 DEF Pow2
<1>5. \A n \in Nat : Pow2[n] = IF n = 0 THEN 1 ELSE 2 * Pow2[n - 1]
  BY <1>4
<1> QED BY <1>5

(***************************************************************************)
(* The roots of the empty subtrees.                                        *)
(***************************************************************************)
LEMMA ZerosDef ==
  /\ Zeros[0] = ZeroLeaf
  /\ \A l \in 0..TREE_DEPTH - 1 : Zeros[l + 1] = <<Zeros[l], Zeros[l]>>
<1>1. ZeroRec!ByPredecessor(Levels, 0)
  BY DepthAssumption DEF ZeroRec!ByPredecessor, ZeroStep, Levels
<1>2. \E g : ZeroRec!Solves(Levels, 0, g)
  BY <1>1, ZeroRec!RecursionByPredecessor, DepthAssumption DEF Levels
<1>3. \E g : g = [l \in Levels |-> IF l = 0 THEN ZeroLeaf ELSE HashNode(g[l - 1], g[l - 1])]
  BY <1>2 DEF ZeroRec!Solves, ZeroStep
<1>4. Zeros = [l \in Levels |-> IF l = 0 THEN ZeroLeaf ELSE HashNode(Zeros[l - 1], Zeros[l - 1])]
  BY <1>3 DEF Zeros
<1>5. \A l \in Levels : Zeros[l] = IF l = 0 THEN ZeroLeaf ELSE <<Zeros[l - 1], Zeros[l - 1]>>
  BY <1>4 DEF HashNode
<1>6. ASSUME NEW l \in 0..TREE_DEPTH - 1 PROVE Zeros[l + 1] = <<Zeros[l], Zeros[l]>>
  <2>1. l + 1 \in Levels /\ l + 1 # 0 /\ (l + 1) - 1 = l
    BY DepthAssumption DEF Levels
  <2>2. Zeros[l + 1] = <<Zeros[(l + 1) - 1], Zeros[(l + 1) - 1]>>
    BY <1>5, <2>1
  <2> QED BY <2>1, <2>2
<1>7. Zeros[0] = ZeroLeaf
  <2>1. 0 \in Levels BY DepthAssumption DEF Levels
  <2>2. Zeros[0] = IF 0 = 0 THEN ZeroLeaf ELSE <<Zeros[0 - 1], Zeros[0 - 1]>>
    BY <1>5, <2>1
  <2> QED BY <2>2
<1> QED BY <1>6, <1>7

(***************************************************************************)
(* The nodes of the reference tree.                                        *)
(***************************************************************************)
LEMMA NodeOfDef ==
  ASSUME NEW s
  PROVE  /\ \A i \in Nat : NodeOf(s, 0, i) = IF i < Len(s) THEN s[i + 1] ELSE ZeroLeaf
         /\ \A l \in 0..TREE_DEPTH - 1, i \in Nat :
              NodeOf(s, l + 1, i) = <<NodeOf(s, l, 2 * i), NodeOf(s, l, 2 * i + 1)>>
<1> DEFINE F == CHOOSE g : g = [l \in Levels |->
                  [i \in Nat |->
                     IF l = 0
                     THEN IF i < Len(s) THEN s[i + 1] ELSE ZeroLeaf
                     ELSE HashNode(g[l - 1][2 * i], g[l - 1][2 * i + 1])]]
<1>1. NodeRec!ByPredecessor(Levels, s)
  <2> SUFFICES ASSUME NEW g, NEW h, NEW l \in Levels,
                      l # 0 /\ l - 1 \in Levels => g[l - 1] = h[l - 1]
               PROVE  NodeStep(s, g, l) = NodeStep(s, h, l)
    BY DEF NodeRec!ByPredecessor
  <2>1. l # 0 => g[l - 1] = h[l - 1]
    BY DepthAssumption DEF Levels
  <2> QED BY <2>1 DEF NodeStep
<1>2. \E g : NodeRec!Solves(Levels, s, g)
  BY <1>1, NodeRec!RecursionByPredecessor, DepthAssumption DEF Levels
<1>3. \E g : g = [l \in Levels |->
               [i \in Nat |->
                  IF l = 0
                  THEN IF i < Len(s) THEN s[i + 1] ELSE ZeroLeaf
                  ELSE HashNode(g[l - 1][2 * i], g[l - 1][2 * i + 1])]]
  BY <1>2 DEF NodeRec!Solves, NodeStep
<1>4. F = [l \in Levels |->
             [i \in Nat |->
                IF l = 0
                THEN IF i < Len(s) THEN s[i + 1] ELSE ZeroLeaf
                ELSE HashNode(F[l - 1][2 * i], F[l - 1][2 * i + 1])]]
  BY <1>3
<1>5. \A l, i : NodeOf(s, l, i) = F[l][i]
  BY DEF NodeOf
<1> HIDE DEF F
<1>6. \A i \in Nat : F[0][i] = IF i < Len(s) THEN s[i + 1] ELSE ZeroLeaf
  <2>1. 0 \in Levels BY DepthAssumption DEF Levels
  <2>2. F[0] = [j \in Nat |->
                  IF 0 = 0
                  THEN IF j < Len(s) THEN s[j + 1] ELSE ZeroLeaf
                  ELSE HashNode(F[0 - 1][2 * j], F[0 - 1][2 * j + 1])]
    BY <1>4, <2>1
  <2> QED BY <2>2
<1>7. ASSUME NEW l \in 0..TREE_DEPTH - 1, NEW i \in Nat
      PROVE  F[l + 1][i] = <<F[l][2 * i], F[l][2 * i + 1]>>
  <2>1. l + 1 \in Levels /\ l + 1 # 0 /\ (l + 1) - 1 = l
    BY DepthAssumption DEF Levels
  <2>2. F[l + 1] = [j \in Nat |->
                      IF l + 1 = 0
                      THEN IF j < Len(s) THEN s[j + 1] ELSE ZeroLeaf
                      ELSE HashNode(F[(l + 1) - 1][2 * j], F[(l + 1) - 1][2 * j + 1])]
    BY <1>4, <2>1
  <2>3. F[l + 1][i] = HashNode(F[(l + 1) - 1][2 * i], F[(l + 1) - 1][2 * i + 1])
    BY <2>1, <2>2
  <2> QED BY <2>1, <2>3 DEF HashNode
<1>8. \A i \in Nat : NodeOf(s, 0, i) = IF i < Len(s) THEN s[i + 1] ELSE ZeroLeaf
  BY <1>5, <1>6
<1>9. ASSUME NEW l \in 0..TREE_DEPTH - 1, NEW i \in Nat
      PROVE  NodeOf(s, l + 1, i) = <<NodeOf(s, l, 2 * i), NodeOf(s, l, 2 * i + 1)>>
  <2>1. /\ NodeOf(s, l + 1, i) = F[l + 1][i]
        /\ NodeOf(s, l, 2 * i) = F[l][2 * i]
        /\ NodeOf(s, l, 2 * i + 1) = F[l][2 * i + 1]
    BY <1>5
  <2> QED BY <1>7, <2>1
<1> QED BY <1>8, <1>9

-----------------------------------------------------------------------------
(***************************************************************************)
(* Induction on the levels of the tree.                                    *)
(***************************************************************************)
LEMMA LevelInduction ==
  ASSUME NEW P, 0 \in P, \A l \in 0..TREE_DEPTH - 1 : l \in P => l + 1 \in P
  PROVE  Levels \subseteq P
<1> DEFINE Q == {n \in Nat : n <= TREE_DEPTH => n \in P}
<1>1. 0 \in Q OBVIOUS
<1>2. ASSUME NEW n \in Nat, n \in Q PROVE n + 1 \in Q
  <2> SUFFICES ASSUME n + 1 <= TREE_DEPTH PROVE n + 1 \in P
    OBVIOUS
  <2>1. n \in 0..TREE_DEPTH - 1 /\ n \in P
    BY <1>2, DepthAssumption
  <2> QED BY <2>1
<1> HIDE DEF Q
<1>3. Nat \subseteq Q BY <1>1, <1>2, PowRec!Induction
<1> QED BY <1>3, DepthAssumption DEF Q, Levels

(***************************************************************************)
(* Powers of two are positive.                                             *)
(***************************************************************************)
LEMMA Pow2Type == \A n \in Nat : Pow2[n] \in Nat \ {0}
<1> DEFINE P == {n \in Nat : Pow2[n] \in Nat \ {0}}
<1>1. 0 \in P BY Pow2Def
<1>2. ASSUME NEW n \in Nat, n \in P PROVE n + 1 \in P
  BY <1>2, Pow2Def
<1> HIDE DEF P
<1>3. Nat \subseteq P BY <1>1, <1>2, PowRec!Induction
<1> QED BY <1>3 DEF P

\* The index, at level l, of the node above leaf k.
Pos(k, l) == k \div Pow2[l]

(***************************************************************************)
(* The leaves under a node are consecutive.                                *)
(***************************************************************************)
LEMMA PosRange ==
  ASSUME NEW k \in Nat, NEW l \in Nat
  PROVE  Pos(k, l) * Pow2[l] <= k /\ k < (Pos(k, l) + 1) * Pow2[l]
<1> DEFINE p == Pow2[l]
<1>1. p \in Nat /\ p > 0
  BY Pow2Type
<1> HIDE DEF p
<1>2. (k \div p) * p <= k /\ k < ((k \div p) + 1) * p
  BY <1>1
<1> QED BY <1>2 DEF Pos, p

(***************************************************************************)
(* One level up, a position is halved: the bit lost says which child the   *)
(* node is.                                                                *)
(***************************************************************************)
LEMMA PosStep ==
  ASSUME NEW k \in Nat, NEW l \in Nat
  PROVE  /\ Pos(k, 0) = k
         /\ Pos(k, l) \in Nat /\ Pos(k, l + 1) \in Nat /\ Bit(k, l) \in {0, 1}
         /\ Pos(k, l) = 2 * Pos(k, l + 1) + Bit(k, l)
<1> DEFINE p == Pow2[l]
           q == k \div p
<1>1. p \in Nat /\ p > 0 /\ Pow2[l + 1] = 2 * p /\ Pow2[0] = 1
  BY Pow2Def, Pow2Type
<1>2. Pos(k, 0) = k
  <2>1. k \div 1 = k OBVIOUS
  <2> QED BY <1>1, <2>1 DEF Pos
<1>3. Pos(k, l) = q /\ Bit(k, l) = q % 2 /\ Pos(k, l + 1) = k \div (2 * p)
  BY <1>1 DEF Pos, Bit
<1> HIDE DEF p
<1>4. q \in Nat
  BY <1>1
<1>5. k \div (2 * p) = q \div 2
  BY <1>1
<1> HIDE DEF q
<1>6. q % 2 \in {0, 1} /\ q = 2 * (q \div 2) + (q % 2) /\ q \div 2 \in Nat
  BY <1>4
<1>7. Pos(k, l) = 2 * Pos(k, l + 1) + Bit(k, l)
  BY <1>3, <1>5, <1>6
<1> QED BY <1>2, <1>3, <1>4, <1>5, <1>6, <1>7

(***************************************************************************)
(* A leaf below 2^n has, l levels up, a position below 2^(n - l).          *)
(***************************************************************************)
LEMMA PosBound ==
  ASSUME NEW n \in Nat, NEW k \in Nat, k < Pow2[n]
  PROVE  \A l \in 0..n : Pos(k, l) < Pow2[n - l]
<1> DEFINE P == {l \in Nat : l <= n => Pos(k, l) < Pow2[n - l]}
<1>1. 0 \in P
  <2>1. n - 0 = n /\ Pos(k, 0) = k BY PosStep
  <2> QED BY <2>1
<1>2. ASSUME NEW l \in Nat, l \in P PROVE l + 1 \in P
  <2> SUFFICES ASSUME l + 1 <= n PROVE Pos(k, l + 1) < Pow2[n - (l + 1)]
    OBVIOUS
  <2> DEFINE m == n - (l + 1)
  <2>1. m \in Nat /\ n - l = m + 1
    OBVIOUS
  <2>2. Pos(k, l) < Pow2[m + 1]
    BY <1>2, <2>1
  <2> HIDE DEF m
  <2>3. Pow2[m + 1] = 2 * Pow2[m] /\ Pow2[m] \in Nat
    BY <2>1, Pow2Def, Pow2Type
  <2>4. /\ Pos(k, l) = 2 * Pos(k, l + 1) + Bit(k, l)
        /\ Pos(k, l) \in Nat /\ Bit(k, l) \in {0, 1} /\ Pos(k, l + 1) \in Nat
    BY PosStep
  <2>5. Pos(k, l + 1) < Pow2[m]
    BY <2>1, <2>2, <2>3, <2>4
  <2> QED BY <2>5 DEF m
<1> HIDE DEF P
<1>3. Nat \subseteq P BY <1>1, <1>2, PowRec!Induction
<1> QED BY <1>3 DEF P

(***************************************************************************)
(* The root is above every leaf.                                           *)
(***************************************************************************)
LEMMA PosTop ==
  ASSUME NEW k \in Nat, k < TreeCapacity
  PROVE  Pos(k, TREE_DEPTH) = 0
<1>1. Pos(k, TREE_DEPTH) < Pow2[TREE_DEPTH - TREE_DEPTH]
  <2>1. TREE_DEPTH \in 0..TREE_DEPTH /\ TREE_DEPTH \in Nat BY DepthAssumption
  <2>2. k < Pow2[TREE_DEPTH] BY DEF TreeCapacity
  <2> QED BY <2>1, <2>2, PosBound
<1>2. TREE_DEPTH - TREE_DEPTH = 0 /\ Pos(k, TREE_DEPTH) \in Nat
  <2>1. TREE_DEPTH \in Nat BY DepthAssumption
  <2>2. Pos(k, TREE_DEPTH) \in Nat BY <2>1, PosStep
  <2> QED BY <2>1, <2>2
<1>3. Pos(k, TREE_DEPTH) < 1
  BY <1>1, <1>2, Pow2Def
<1> QED BY <1>2, <1>3

-----------------------------------------------------------------------------
(***************************************************************************)
(* A subtree that starts after the last leaf is empty.                     *)
(***************************************************************************)
LEMMA EmptyNode ==
  ASSUME NEW s, Len(s) \in Nat
  PROVE  \A l \in Levels, i \in Nat :
           i * Pow2[l] >= Len(s) => NodeOf(s, l, i) = Zeros[l]
<1> DEFINE P == {l \in Levels : \A i \in Nat :
                   i * Pow2[l] >= Len(s) => NodeOf(s, l, i) = Zeros[l]}
<1>1. 0 \in P
  <2>1. 0 \in Levels BY DepthAssumption DEF Levels
  <2>2. ASSUME NEW i \in Nat, i * Pow2[0] >= Len(s) PROVE NodeOf(s, 0, i) = Zeros[0]
    <3>1. i * Pow2[0] = i BY Pow2Def
    <3>2. ~(i < Len(s)) BY <2>2, <3>1
    <3> QED BY <3>2, NodeOfDef, ZerosDef
  <2> QED BY <2>1, <2>2
<1>2. ASSUME NEW l \in 0..TREE_DEPTH - 1, l \in P PROVE l + 1 \in P
  <2>1. l + 1 \in Levels /\ l \in Nat BY DepthAssumption DEF Levels
  <2>2. ASSUME NEW i \in Nat, i * Pow2[l + 1] >= Len(s)
        PROVE  NodeOf(s, l + 1, i) = Zeros[l + 1]
    <3> DEFINE p == Pow2[l]
    <3>1. p \in Nat /\ Pow2[l + 1] = 2 * p
      BY <2>1, Pow2Def, Pow2Type
    <3> HIDE DEF p
    <3>2. (2 * i) * p >= Len(s) /\ (2 * i + 1) * p >= Len(s)
      <4>1. i * (2 * p) = (2 * i) * p /\ (2 * i + 1) * p = (2 * i) * p + p
        BY <3>1
      <4>2. (2 * i) * p \in Nat BY <3>1
      <4> QED BY <2>2, <3>1, <4>1, <4>2
    <3>3. 2 * i \in Nat /\ 2 * i + 1 \in Nat
      OBVIOUS
    <3>4. NodeOf(s, l, 2 * i) = Zeros[l] /\ NodeOf(s, l, 2 * i + 1) = Zeros[l]
      BY <1>2, <3>2, <3>3 DEF p
    <3> QED BY <3>4, NodeOfDef, ZerosDef
  <2> QED BY <2>1, <2>2
<1> HIDE DEF P
<1>3. Levels \subseteq P BY <1>1, <1>2, LevelInduction
<1> QED BY <1>3 DEF P

(***************************************************************************)
(* A new leaf changes the nodes above it only.                             *)
(***************************************************************************)
LEMMA AppendNode ==
  ASSUME NEW E, NEW s \in Seq(E), NEW c \in E
  PROVE  \A l \in Levels, i \in Nat :
           i # Pos(Len(s), l) => NodeOf(Append(s, c), l, i) = NodeOf(s, l, i)
<1> DEFINE t == Append(s, c)
           k == Len(s)
           P == {l \in Levels : \A i \in Nat :
                   i # Pos(k, l) => NodeOf(t, l, i) = NodeOf(s, l, i)}
<1>0. /\ k \in Nat /\ Len(t) = k + 1
      /\ \A i \in 0..k - 1 : t[i + 1] = s[i + 1]
  OBVIOUS
<1> HIDE DEF t, k
<1>1. 0 \in P
  <2>1. 0 \in Levels BY DepthAssumption DEF Levels
  <2>2. ASSUME NEW i \in Nat, i # Pos(k, 0) PROVE NodeOf(t, 0, i) = NodeOf(s, 0, i)
    <3>1. i # k BY <1>0, <2>2, PosStep
    <3>2. /\ NodeOf(t, 0, i) = IF i < Len(t) THEN t[i + 1] ELSE ZeroLeaf
          /\ NodeOf(s, 0, i) = IF i < Len(s) THEN s[i + 1] ELSE ZeroLeaf
      BY NodeOfDef
    <3>3. i < Len(t) <=> i < k
      BY <1>0, <3>1
    <3>4. i < k => t[i + 1] = s[i + 1]
      BY <1>0
    <3> QED BY <3>2, <3>3, <3>4 DEF k
  <2> QED BY <2>1, <2>2
<1>2. ASSUME NEW l \in 0..TREE_DEPTH - 1, l \in P PROVE l + 1 \in P
  <2>1. l + 1 \in Levels /\ l \in Nat BY DepthAssumption DEF Levels
  <2>2. ASSUME NEW i \in Nat, i # Pos(k, l + 1)
        PROVE  NodeOf(t, l + 1, i) = NodeOf(s, l + 1, i)
    <3>1. /\ Pos(k, l) = 2 * Pos(k, l + 1) + Bit(k, l)
          /\ Bit(k, l) \in {0, 1} /\ Pos(k, l + 1) \in Nat
      BY <1>0, <2>1, PosStep
    <3>2. /\ 2 * i # Pos(k, l) /\ 2 * i + 1 # Pos(k, l)
          /\ 2 * i \in Nat /\ 2 * i + 1 \in Nat
      BY <2>2, <3>1
    <3>3. /\ NodeOf(t, l, 2 * i) = NodeOf(s, l, 2 * i)
          /\ NodeOf(t, l, 2 * i + 1) = NodeOf(s, l, 2 * i + 1)
      BY <1>2, <3>2
    <3>4. /\ NodeOf(t, l + 1, i) = <<NodeOf(t, l, 2 * i), NodeOf(t, l, 2 * i + 1)>>
          /\ NodeOf(s, l + 1, i) = <<NodeOf(s, l, 2 * i), NodeOf(s, l, 2 * i + 1)>>
      BY NodeOfDef
    <3> QED BY <3>3, <3>4
  <2> QED BY <2>1, <2>2
<1> HIDE DEF P
<1>3. Levels \subseteq P BY <1>1, <1>2, LevelInduction
<1> QED BY <1>3 DEF P, t, k

-----------------------------------------------------------------------------
(* The contract's tree.                                                    *)

\* c: the leaf, its index and the filled subtrees insert starts from.
ClimbStep(c, g, l) ==
  IF l = 0 THEN [hash |-> c.leaf, filled |-> c.filled]
  ELSE IF Bit(c.index, l - 1) = 0
       THEN [hash |-> HashNode(g[l - 1].hash, Zeros[l - 1]),
             filled |-> [g[l - 1].filled EXCEPT ![l - 1] = g[l - 1].hash]]
       ELSE [hash |-> HashNode(g[l - 1].filled[l - 1], g[l - 1].hash),
             filled |-> g[l - 1].filled]
ClimbRec == INSTANCE Recursion WITH Step <- ClimbStep

\* at[l]: what the first l iterations of the loop of insert leave.
Climbs(at, leaf, index, filled) ==
  /\ at[0] = [hash |-> leaf, filled |-> filled]
  /\ \A l \in 0..TREE_DEPTH - 1 :
       at[l + 1] = IF Bit(index, l) = 0
                   THEN [hash |-> <<at[l].hash, Zeros[l]>>,
                         filled |-> [at[l].filled EXCEPT ![l] = at[l].hash]]
                   ELSE [hash |-> <<at[l].filled[l], at[l].hash>>,
                         filled |-> at[l].filled]

(***************************************************************************)
(* The loop of insert, one iteration at a time.                            *)
(***************************************************************************)
LEMMA ClimbDef ==
  ASSUME NEW leaf, NEW index, NEW filled
  PROVE  \E at : /\ Climbs(at, leaf, index, filled)
                 /\ Climb(leaf, index, filled) = at[TREE_DEPTH]
<1> DEFINE c == [leaf |-> leaf, index |-> index, filled |-> filled]
           Eq(g) == g = [l \in Levels |->
                      IF l = 0 THEN [hash |-> leaf, filled |-> filled]
                      ELSE IF Bit(index, l - 1) = 0
                           THEN [hash |-> HashNode(g[l - 1].hash, Zeros[l - 1]),
                                 filled |-> [g[l - 1].filled EXCEPT ![l - 1] = g[l - 1].hash]]
                           ELSE [hash |-> HashNode(g[l - 1].filled[l - 1], g[l - 1].hash),
                                 filled |-> g[l - 1].filled]]
           F == CHOOSE g : Eq(g)
<1>1. ClimbRec!ByPredecessor(Levels, c)
  <2> SUFFICES ASSUME NEW g, NEW h, NEW l \in Levels,
                      l # 0 /\ l - 1 \in Levels => g[l - 1] = h[l - 1]
               PROVE  ClimbStep(c, g, l) = ClimbStep(c, h, l)
    BY DEF ClimbRec!ByPredecessor
  <2>1. l # 0 => g[l - 1] = h[l - 1]
    BY DepthAssumption DEF Levels
  <2> HIDE DEF c
  <2> QED BY <2>1 DEF ClimbStep
<1>2. \E g : ClimbRec!Solves(Levels, c, g)
  <2> HIDE DEF c
  <2> QED BY <1>1, ClimbRec!RecursionByPredecessor, DepthAssumption DEF Levels
<1>3. \E g : Eq(g)
  BY <1>2 DEF ClimbRec!Solves, ClimbStep
<1>4. Eq(F)
  BY <1>3
<1>5. Climb(leaf, index, filled) = F[TREE_DEPTH]
  BY DEF Climb
<1> HIDE DEF F
<1>6. F[0] = [hash |-> leaf, filled |-> filled]
  <2>1. 0 \in Levels BY DepthAssumption DEF Levels
  <2> QED BY <1>4, <2>1
<1>7. ASSUME NEW l \in 0..TREE_DEPTH - 1
      PROVE  F[l + 1] = IF Bit(index, l) = 0
                        THEN [hash |-> <<F[l].hash, Zeros[l]>>,
                              filled |-> [F[l].filled EXCEPT ![l] = F[l].hash]]
                        ELSE [hash |-> <<F[l].filled[l], F[l].hash>>,
                              filled |-> F[l].filled]
  <2>1. l + 1 \in Levels /\ l + 1 # 0 /\ (l + 1) - 1 = l
    BY DepthAssumption DEF Levels
  <2> DEFINE m == l + 1
  <2>2. F[m] = IF m = 0 THEN [hash |-> leaf, filled |-> filled]
               ELSE IF Bit(index, m - 1) = 0
                    THEN [hash |-> HashNode(F[m - 1].hash, Zeros[m - 1]),
                          filled |-> [F[m - 1].filled EXCEPT ![m - 1] = F[m - 1].hash]]
                    ELSE [hash |-> HashNode(F[m - 1].filled[m - 1], F[m - 1].hash),
                          filled |-> F[m - 1].filled]
    <3>1. m \in Levels BY <2>1
    <3> HIDE DEF m
    <3> QED BY <1>4, <3>1
  <2>3. m - 1 = l /\ m # 0 BY <2>1
  <2> HIDE DEF m
  <2>4. F[m] = IF Bit(index, l) = 0
               THEN [hash |-> HashNode(F[l].hash, Zeros[l]),
                     filled |-> [F[l].filled EXCEPT ![l] = F[l].hash]]
               ELSE [hash |-> HashNode(F[l].filled[l], F[l].hash),
                     filled |-> F[l].filled]
    BY <2>2, <2>3
  <2> QED BY <2>4 DEF HashNode, m
<1>8. Climbs(F, leaf, index, filled)
  BY <1>6, <1>7 DEF Climbs
<1> QED BY <1>5, <1>8

\* Where the loop will read filledSubtrees, it holds the node left of the path.
LeftKept(filled, s) ==
  \A l \in 0..TREE_DEPTH - 1 :
    Bit(Len(s), l) = 1 => filled[l] = NodeOf(s, l, Pos(Len(s), l) - 1)

\* The loop has computed the node above the new leaf of t and kept those that
\* are left children.
Climbed(a, l, t, k, filled) ==
  /\ a.hash = NodeOf(t, l, Pos(k, l))
  /\ DOMAIN a.filled = 0..TREE_DEPTH - 1
  /\ \A j \in 0..TREE_DEPTH - 1 :
       a.filled[j] = IF j < l /\ Bit(k, j) = 0 THEN NodeOf(t, j, Pos(k, j))
                     ELSE filled[j]

(***************************************************************************)
(* Every iteration computes the node of the tree with the new leaf.        *)
(***************************************************************************)
LEMMA ClimbHash ==
  ASSUME NEW E, NEW s \in Seq(E), NEW leaf \in E,
         NEW filled, DOMAIN filled = 0..TREE_DEPTH - 1, LeftKept(filled, s),
         NEW at, Climbs(at, leaf, Len(s), filled)
  PROVE  \A l \in Levels : Climbed(at[l], l, Append(s, leaf), Len(s), filled)
<1> DEFINE t == Append(s, leaf)
           k == Len(s)
           P == {l \in Levels : Climbed(at[l], l, t, k, filled)}
<1>0. k \in Nat /\ Len(t) = k + 1 /\ t[k + 1] = leaf
  OBVIOUS
<1>1. 0 \in P
  <2>1. 0 \in Levels BY DepthAssumption DEF Levels
  <2>2. at[0].hash = leaf /\ at[0].filled = filled
    BY DEF Climbs
  <2> HIDE DEF t, k
  <2>3. NodeOf(t, 0, k) = leaf
    <3>1. NodeOf(t, 0, k) = IF k < Len(t) THEN t[k + 1] ELSE ZeroLeaf
      BY <1>0, NodeOfDef
    <3> QED BY <1>0, <3>1
  <2>4. Pos(k, 0) = k BY <1>0, PosStep
  <2>5. \A j \in 0..TREE_DEPTH - 1 : ~(j < 0)
    OBVIOUS
  <2> QED BY <2>1, <2>2, <2>3, <2>4, <2>5 DEF Climbed
<1>2. ASSUME NEW l \in 0..TREE_DEPTH - 1, l \in P PROVE l + 1 \in P
  <2>1. l + 1 \in Levels /\ l \in Levels /\ l \in Nat /\ ~(l < l)
    BY DepthAssumption DEF Levels
  <2> DEFINE p == Pos(k, l)
             q == Pos(k, l + 1)
             a == at[l]
             b == at[l + 1]
  <2>2. /\ p \in Nat /\ q \in Nat /\ Bit(k, l) \in {0, 1} /\ p = 2 * q + Bit(k, l)
    BY <1>0, <2>1, PosStep
  <2>3. Climbed(a, l, t, k, filled) BY <1>2
  <2>4. b = IF Bit(k, l) = 0
            THEN [hash |-> <<a.hash, Zeros[l]>>,
                  filled |-> [a.filled EXCEPT ![l] = a.hash]]
            ELSE [hash |-> <<a.filled[l], a.hash>>, filled |-> a.filled]
    BY DEF Climbs
  <2>5. NodeOf(t, l + 1, q) = <<NodeOf(t, l, 2 * q), NodeOf(t, l, 2 * q + 1)>>
    BY <2>2, NodeOfDef
  <2>6. \A i \in Nat : i # p => NodeOf(t, l, i) = NodeOf(s, l, i)
    BY <2>1, AppendNode
  <2>7. Bit(k, l) = 0 => NodeOf(t, l, p + 1) = Zeros[l]
    <3>1. (p + 1) * Pow2[l] >= Len(t)
      <4>1. k < (p + 1) * Pow2[l] BY <1>0, <2>1, PosRange
      <4>2. Pow2[l] \in Nat BY <2>1, Pow2Type
      <4> DEFINE x == Pow2[l]
      <4>3. (p + 1) * x \in Nat BY <2>2, <4>2
      <4> HIDE DEF p, t, k, x
      <4> QED BY <1>0, <4>1, <4>3 DEF x
    <3> HIDE DEF p, t
    <3> QED BY <1>0, <2>1, <2>2, <3>1, EmptyNode
  <2>8. Bit(k, l) = 1 => filled[l] = NodeOf(s, l, p - 1)
    BY DEF LeftKept
  <2> HIDE DEF t, k, p, q, a
  <2>9. b.hash = NodeOf(t, l + 1, q) /\ DOMAIN b.filled = 0..TREE_DEPTH - 1
    <3>1. CASE Bit(k, l) = 0
      <4>1. 2 * q = p /\ 2 * q + 1 = p + 1 BY <2>2, <3>1
      <4>2. b.hash = <<a.hash, Zeros[l]>> /\ DOMAIN b.filled = DOMAIN a.filled
        BY <2>4, <3>1
      <4>3. a.hash = NodeOf(t, l, p) /\ DOMAIN a.filled = 0..TREE_DEPTH - 1
        BY <2>3 DEF Climbed, p
      <4> QED BY <2>5, <2>7, <3>1, <4>1, <4>2, <4>3
    <3>2. CASE Bit(k, l) = 1
      <4>1. 2 * q = p - 1 /\ 2 * q + 1 = p /\ p - 1 \in Nat /\ p - 1 # p
        BY <2>2, <3>2
      <4>2. b.hash = <<a.filled[l], a.hash>> /\ b.filled = a.filled
        BY <2>4, <3>2
      <4>3. a.hash = NodeOf(t, l, p) /\ DOMAIN a.filled = 0..TREE_DEPTH - 1
        BY <2>3 DEF Climbed, p
      <4>4. a.filled[l] = filled[l]
        BY <2>1, <2>3 DEF Climbed
      <4>5. filled[l] = NodeOf(t, l, p - 1)
        BY <2>6, <2>8, <3>2, <4>1
      <4> QED BY <2>5, <4>1, <4>2, <4>3, <4>4, <4>5
    <3> QED BY <2>2, <3>1, <3>2
  <2>10. ASSUME NEW j \in 0..TREE_DEPTH - 1
         PROVE  b.filled[j] = IF j < l + 1 /\ Bit(k, j) = 0 THEN NodeOf(t, j, Pos(k, j))
                              ELSE filled[j]
    <3>1. a.filled[j] = IF j < l /\ Bit(k, j) = 0 THEN NodeOf(t, j, Pos(k, j))
                        ELSE filled[j]
      BY <2>3 DEF Climbed
    <3>2. j < l + 1 <=> j < l \/ j = l BY <2>1
    <3>3. CASE j # l
      <4>1. b.filled[j] = a.filled[j] BY <2>4, <3>3
      <4> QED BY <3>1, <3>2, <3>3, <4>1
    <3>4. CASE j = l /\ Bit(k, l) = 0
      <4>1. b.filled[l] = a.hash
        <5>1. DOMAIN a.filled = 0..TREE_DEPTH - 1 BY <2>3 DEF Climbed
        <5>2. b.filled = [a.filled EXCEPT ![l] = a.hash] BY <2>4, <3>4
        <5>3. l \in DOMAIN a.filled BY <5>1
        <5> QED BY <5>2, <5>3
      <4>2. a.hash = NodeOf(t, l, Pos(k, l)) BY <2>3 DEF Climbed
      <4> QED BY <3>2, <3>4, <4>1, <4>2
    <3>5. CASE j = l /\ Bit(k, l) # 0
      <4>1. b.filled[j] = a.filled[j] BY <2>4, <3>5
      <4> QED BY <3>1, <3>5, <4>1
    <3> QED BY <3>3, <3>4, <3>5
  <2>11. Climbed(b, l + 1, t, k, filled)
    BY <2>9, <2>10 DEF Climbed, q
  <2> QED BY <2>1, <2>11
<1> HIDE DEF P
<1>3. Levels \subseteq P BY <1>1, <1>2, LevelInduction
<1> QED BY <1>3 DEF P

(***************************************************************************)
(* The next leaf's path is the last one's or the one to its right.         *)
(***************************************************************************)
LEMMA PosNext ==
  ASSUME NEW k \in Nat, NEW l \in Nat
  PROVE  Pos(k + 1, l) = Pos(k, l) \/ Pos(k + 1, l) = Pos(k, l) + 1
<1> DEFINE p == Pow2[l]
<1>1. p \in Nat /\ p > 0 BY Pow2Type
<1> HIDE DEF p
<1>2. (k + 1) \div p = k \div p \/ (k + 1) \div p = (k \div p) + 1
  BY <1>1
<1> QED BY <1>2 DEF Pos, p

(***************************************************************************)
(* The nodes kept for the tree with the new leaf: where the path has moved *)
(* to a right child, its sibling is the node just computed.                *)
(***************************************************************************)
LEMMA ClimbKeeps ==
  ASSUME NEW E, NEW s \in Seq(E), NEW leaf \in E,
         NEW filled, LeftKept(filled, s),
         NEW a, Climbed(a, TREE_DEPTH, Append(s, leaf), Len(s), filled)
  PROVE  LeftKept(a.filled, Append(s, leaf))
<1> DEFINE t == Append(s, leaf)
           k == Len(s)
<1>1. k \in Nat /\ Len(t) = k + 1
  OBVIOUS
<1> SUFFICES ASSUME NEW l \in 0..TREE_DEPTH - 1, Bit(k + 1, l) = 1
             PROVE  a.filled[l] = NodeOf(t, l, Pos(k + 1, l) - 1)
  BY <1>1 DEF LeftKept
<1>2. l \in Nat /\ l < TREE_DEPTH /\ l \in Levels
  BY DepthAssumption DEF Levels
<1>3. a.filled[l] = IF Bit(k, l) = 0 THEN NodeOf(t, l, Pos(k, l)) ELSE filled[l]
  BY <1>2 DEF Climbed
<1>4. /\ Pos(k, l) \in Nat /\ Pos(k, l + 1) \in Nat /\ Bit(k, l) \in {0, 1}
      /\ Pos(k, l) = 2 * Pos(k, l + 1) + Bit(k, l)
  BY <1>1, <1>2, PosStep
<1>5. /\ Pos(k + 1, l) \in Nat /\ Pos(k + 1, l + 1) \in Nat
      /\ Pos(k + 1, l) = 2 * Pos(k + 1, l + 1) + 1
  <2> DEFINE n == k + 1
  <2>1. n \in Nat /\ Bit(n, l) = 1 BY <1>1
  <2> HIDE DEF n
  <2>2. /\ Pos(n, l) \in Nat /\ Pos(n, l + 1) \in Nat
        /\ Pos(n, l) = 2 * Pos(n, l + 1) + Bit(n, l)
    BY <1>2, <2>1, PosStep
  <2> QED BY <2>1, <2>2 DEF n
<1>8. Bit(k, l) = 1 => filled[l] = NodeOf(s, l, Pos(k, l) - 1)
  BY DEF LeftKept
<1> HIDE DEF t, k
<1>6. CASE Pos(k + 1, l) = Pos(k, l)
  <2>1. Bit(k, l) = 1 /\ Pos(k, l) - 1 \in Nat /\ Pos(k, l) - 1 # Pos(k, l)
    BY <1>4, <1>5, <1>6
  <2>2. filled[l] = NodeOf(s, l, Pos(k, l) - 1)
    BY <1>8, <2>1
  <2>3. NodeOf(t, l, Pos(k, l) - 1) = NodeOf(s, l, Pos(k, l) - 1)
    BY <1>2, <2>1, AppendNode DEF t, k
  <2> QED BY <1>3, <1>6, <2>1, <2>2, <2>3
<1>7. CASE Pos(k + 1, l) = Pos(k, l) + 1
  <2>1. Bit(k, l) = 0 /\ Pos(k + 1, l) - 1 = Pos(k, l)
    BY <1>4, <1>5, <1>7
  <2> QED BY <1>3, <2>1
<1> QED BY <1>1, <1>2, <1>6, <1>7, PosNext

(***************************************************************************)
(* A tree with nothing inserted.                                           *)
(***************************************************************************)
LEMMA EmptyRoot == ReferenceRoot(<< >>) = Zeros[TREE_DEPTH]
<1>1. TREE_DEPTH \in Levels /\ 0 \in Nat BY DepthAssumption DEF Levels
<1>2. Len(<< >>) = 0 /\ 0 * Pow2[TREE_DEPTH] >= 0
  <2>1. Pow2[TREE_DEPTH] \in Nat BY DepthAssumption, Pow2Type
  <2> QED BY <2>1
<1>3. NodeOf(<< >>, TREE_DEPTH, 0) = Zeros[TREE_DEPTH]
  BY <1>1, <1>2, EmptyNode
<1> QED BY <1>3 DEF ReferenceRoot

(***************************************************************************)
(* The inductive invariant of the contract's tree: besides the root, the   *)
(* left nodes insert reads are those of the tree over what was inserted.   *)
(***************************************************************************)
TreeInv ==
  /\ TreeTypeOK
  /\ RootIsReference
  /\ LeftKept(filledSubtrees, inserted)

(***************************************************************************)
(* It holds of the empty tree.                                             *)
(***************************************************************************)
LEMMA TreeInitInv == TreeInit => TreeInv
<1> SUFFICES ASSUME TreeInit PROVE TreeInv
  OBVIOUS
<1>1. TreeCapacity \in Nat /\ TreeCapacity > 0
  BY DepthAssumption, Pow2Type DEF TreeCapacity
<1>2. TreeTypeOK
  BY <1>1 DEF TreeInit, TreeTypeOK
<1>3. RootIsReference
  BY EmptyRoot DEF TreeInit, RootIsReference
<1>4. LeftKept(filledSubtrees, inserted)
  <2> SUFFICES ASSUME NEW l \in 0..TREE_DEPTH - 1 PROVE Bit(Len(inserted), l) = 0
    BY DEF LeftKept
  <2>1. Len(inserted) = 0 BY DEF TreeInit
  <2>2. l \in Nat BY DepthAssumption
  <2>3. Pow2[l] \in Nat /\ Pow2[l] > 0 BY <2>2, Pow2Type
  <2>4. (0 \div Pow2[l]) % 2 = 0
    <3> DEFINE p == Pow2[l]
    <3> HIDE DEF p
    <3>1. p \in Nat /\ p > 0 BY <2>3 DEF p
    <3>2. 0 \div p = 0 BY <3>1
    <3>3. 0 % 2 = 0 OBVIOUS
    <3> QED BY <3>2, <3>3 DEF p
  <2> QED BY <2>1, <2>4 DEF Bit
<1> QED BY <1>2, <1>3, <1>4 DEF TreeInv

(***************************************************************************)
(* Every insertion keeps it.                                               *)
(***************************************************************************)
LEMMA InsertInv ==
  ASSUME TreeInv, NEW leaf \in Leaf, Insert(leaf)
  PROVE  TreeInv'
<1> DEFINE s == inserted
           t == Append(s, leaf)
           k == Len(s)
<1>1. /\ s \in Seq(Leaf) /\ k = nextIndex /\ nextIndex \in 0..TreeCapacity
      /\ DOMAIN filledSubtrees = 0..TREE_DEPTH - 1
      /\ LeftKept(filledSubtrees, s)
  BY DEF TreeInv, TreeTypeOK
<1>2. PICK at : /\ Climbs(at, leaf, k, filledSubtrees)
                /\ Climb(leaf, k, filledSubtrees) = at[TREE_DEPTH]
  BY ClimbDef
<1> DEFINE a == at[TREE_DEPTH]
<1>3. Climbed(a, TREE_DEPTH, t, k, filledSubtrees)
  <2>1. TREE_DEPTH \in Levels BY DepthAssumption DEF Levels
  <2> QED BY <1>1, <1>2, <2>1, ClimbHash
<1>4. /\ nextIndex < TreeCapacity
      /\ filledSubtrees' = a.filled
      /\ root' = a.hash
      /\ nextIndex' = nextIndex + 1
      /\ inserted' = t
  BY <1>1, <1>2 DEF Insert, HasRoom
<1>5. /\ nextIndex' \in 0..TreeCapacity /\ inserted' \in Seq(Leaf)
      /\ Len(inserted') = nextIndex'
  <2>1. TreeCapacity \in Nat BY DepthAssumption, Pow2Type DEF TreeCapacity
  <2>2. t \in Seq(Leaf) /\ Len(t) = k + 1 BY <1>1
  <2> HIDE DEF t, k, a
  <2> QED BY <1>1, <1>4, <2>1, <2>2
<1>6. TreeTypeOK'
  <2>1. DOMAIN a.filled = 0..TREE_DEPTH - 1 BY <1>3 DEF Climbed
  <2> HIDE DEF t, k, a
  <2> QED BY <1>4, <1>5, <2>1 DEF TreeTypeOK
<1>7. RootIsReference'
  <2>1. k \in Nat /\ k < TreeCapacity BY <1>1, <1>4
  <2>2. Pos(k, TREE_DEPTH) = 0
    <3> HIDE DEF k
    <3> QED BY <2>1, PosTop
  <2>3. a.hash = NodeOf(t, TREE_DEPTH, 0) BY <1>3, <2>2 DEF Climbed
  <2> HIDE DEF t, k, a
  <2> QED BY <1>4, <2>3 DEF RootIsReference, ReferenceRoot
<1>8. LeftKept(filledSubtrees', inserted')
  <2>1. LeftKept(a.filled, t) BY <1>1, <1>3, ClimbKeeps
  <2> HIDE DEF t, k, a
  <2> QED BY <1>4, <2>1
<1> QED BY <1>6, <1>7, <1>8 DEF TreeInv

(***************************************************************************)
(* A step that leaves the contract alone keeps it.                         *)
(***************************************************************************)
LEMMA TreeStutter == TreeInv /\ UNCHANGED treeVars => TreeInv'
BY DEF TreeInv, TreeTypeOK, RootIsReference, treeVars

(***************************************************************************)
(* The inductive invariant holds of the specification.                     *)
(***************************************************************************)
THEOREM TreeInvariant == TreeSpec => []TreeInv
<1>1. TreeInv /\ [TreeNext]_treeVars => TreeInv'
  BY InsertInv, TreeStutter DEF TreeNext
<1> QED BY <1>1, TreeInitInv, PTL DEF TreeSpec

(***************************************************************************)
(* IncrementalMerkleTree: the state of the contract's tree.                *)
(***************************************************************************)
THEOREM TreeTypeCorrect == TreeSpec => []TreeTypeOK
<1>1. TreeInv => TreeTypeOK BY DEF TreeInv
<1> QED BY <1>1, TreeInvariant, PTL

(***************************************************************************)
(* IncrementalMerkleTree.insert: the root it maintains from one node per   *)
(* level is that of the whole tree over the inserted leaves.               *)
(***************************************************************************)
THEOREM RootCorrect == TreeSpec => []RootIsReference
<1>1. TreeInv => RootIsReference BY DEF TreeInv
<1> QED BY <1>1, TreeInvariant, PTL

-----------------------------------------------------------------------------
(***************************************************************************)
(* A node determines the leaves below it.                                  *)
(***************************************************************************)
LEMMA NodeBinds ==
  ASSUME NEW s, NEW t
  PROVE  \A l \in Levels, i \in Nat :
           NodeOf(s, l, i) = NodeOf(t, l, i)
             => \A k \in Nat : Pos(k, l) = i => NodeOf(s, 0, k) = NodeOf(t, 0, k)
<1> DEFINE Same(k, l) == NodeOf(s, l, k) = NodeOf(t, l, k)
           P == {l \in Levels : \A i \in Nat :
                   Same(i, l) => \A k \in Nat : Pos(k, l) = i => Same(k, 0)}
<1>1. 0 \in P
  <2>1. 0 \in Levels BY DepthAssumption DEF Levels
  <2>2. \A k \in Nat : Pos(k, 0) = k BY PosStep
  <2> HIDE DEF Same
  <2> QED BY <2>1, <2>2
<1>2. ASSUME NEW l \in 0..TREE_DEPTH - 1, l \in P PROVE l + 1 \in P
  <2>1. l + 1 \in Levels /\ l \in Nat BY DepthAssumption DEF Levels
  <2>2. ASSUME NEW i \in Nat, Same(i, l + 1), NEW k \in Nat, Pos(k, l + 1) = i
        PROVE  Same(k, 0)
    <3>1. 2 * i \in Nat /\ 2 * i + 1 \in Nat OBVIOUS
    <3>2. /\ NodeOf(s, l + 1, i) = <<NodeOf(s, l, 2 * i), NodeOf(s, l, 2 * i + 1)>>
          /\ NodeOf(t, l + 1, i) = <<NodeOf(t, l, 2 * i), NodeOf(t, l, 2 * i + 1)>>
      BY NodeOfDef
    <3>3. Same(2 * i, l) /\ Same(2 * i + 1, l)
      BY <2>2, <3>2
    <3> HIDE DEF Same
    <3>4. Pos(k, l) = 2 * i \/ Pos(k, l) = 2 * i + 1
      <4>1. /\ Bit(k, l) \in {0, 1} /\ Pos(k, l) = 2 * i + Bit(k, l)
        BY <2>1, <2>2, PosStep
      <4> QED BY <4>1
    <3>5. \A j \in Nat : Same(j, l) => \A m \in Nat : Pos(m, l) = j => Same(m, 0)
      BY <1>2
    <3> QED BY <3>1, <3>3, <3>4, <3>5
  <2> HIDE DEF Same
  <2> QED BY <2>1, <2>2
<1> HIDE DEF P
<1>3. Levels \subseteq P BY <1>1, <1>2, LevelInduction
<1> QED BY <1>3 DEF P

(***************************************************************************)
(* A root determines the sequence of leaves, its length included.          *)
(***************************************************************************)
LEMMA RootInjective ==
  ASSUME NEW s \in Seq(Leaf), NEW t \in Seq(Leaf),
         Len(s) <= TreeCapacity, Len(t) <= TreeCapacity,
         ReferenceRoot(s) = ReferenceRoot(t)
  PROVE  s = t
<1>1. TREE_DEPTH \in Levels /\ TreeCapacity \in Nat
  BY DepthAssumption, Pow2Type DEF Levels, TreeCapacity
<1>2. ASSUME NEW k \in Nat, k < TreeCapacity PROVE NodeOf(s, 0, k) = NodeOf(t, 0, k)
  <2>1. Pos(k, TREE_DEPTH) = 0 BY <1>2, PosTop
  <2>2. NodeOf(s, TREE_DEPTH, 0) = NodeOf(t, TREE_DEPTH, 0) BY DEF ReferenceRoot
  <2> QED BY <1>1, <2>1, <2>2, NodeBinds
<1>3. /\ \A k \in Nat : NodeOf(s, 0, k) = IF k < Len(s) THEN s[k + 1] ELSE ZeroLeaf
      /\ \A k \in Nat : NodeOf(t, 0, k) = IF k < Len(t) THEN t[k + 1] ELSE ZeroLeaf
  BY NodeOfDef
<1>4. /\ Len(s) \in Nat /\ \A k \in Nat : k < Len(s) => s[k + 1] \in Leaf
      /\ Len(t) \in Nat /\ \A k \in Nat : k < Len(t) => t[k + 1] \in Leaf
  OBVIOUS
<1>5. ~(Len(s) < Len(t))
  <2> SUFFICES ASSUME Len(s) < Len(t) PROVE FALSE
    OBVIOUS
  <2> DEFINE k == Len(s)
  <2>1. k \in Nat /\ k < TreeCapacity /\ k < Len(t) BY <1>1, <1>4
  <2>2. NodeOf(s, 0, k) = ZeroLeaf BY <1>3, <2>1
  <2>3. NodeOf(t, 0, k) = t[k + 1] BY <1>3, <2>1
  <2>4. t[k + 1] \in Leaf BY <1>4, <2>1
  <2> QED BY <1>2, <2>1, <2>2, <2>3, <2>4, LeafAssumption
<1>6. ~(Len(t) < Len(s))
  <2> SUFFICES ASSUME Len(t) < Len(s) PROVE FALSE
    OBVIOUS
  <2> DEFINE k == Len(t)
  <2>1. k \in Nat /\ k < TreeCapacity /\ k < Len(s) BY <1>1, <1>4
  <2>2. NodeOf(t, 0, k) = ZeroLeaf BY <1>3, <2>1
  <2>3. NodeOf(s, 0, k) = s[k + 1] BY <1>3, <2>1
  <2>4. s[k + 1] \in Leaf BY <1>4, <2>1
  <2> QED BY <1>2, <2>1, <2>2, <2>3, <2>4, LeafAssumption
<1>7. Len(s) = Len(t) BY <1>4, <1>5, <1>6
<1>8. ASSUME NEW j \in 1..Len(s) PROVE s[j] = t[j]
  <2>1. PICK k \in Nat : k + 1 = j /\ k < Len(s) /\ k < Len(t) /\ k < TreeCapacity
    <3>1. j - 1 \in Nat /\ (j - 1) + 1 = j BY <1>4
    <3> QED BY <1>1, <1>4, <1>7, <3>1
  <2>2. s[k + 1] = t[k + 1] BY <1>2, <1>3, <2>1
  <2> QED BY <2>1, <2>2
<1> QED BY <1>7, <1>8

(***************************************************************************)
(* IncrementalMerkleTree: the root commits to the leaves and their order.  *)
(***************************************************************************)
THEOREM RootBindsCorrect == TreeSpec => []RootBindsLeaves
<1>1. TreeInv => RootBindsLeaves
  <2> SUFFICES ASSUME TreeInv, NEW s \in Histories, ReferenceRoot(s) = root
               PROVE  s = inserted
    BY DEF RootBindsLeaves
  <2>1. /\ inserted \in Seq(Leaf) /\ Len(inserted) <= TreeCapacity
        /\ root = ReferenceRoot(inserted)
    <3>1. TreeCapacity \in Nat BY DepthAssumption, Pow2Type DEF TreeCapacity
    <3> QED BY <3>1 DEF TreeInv, TreeTypeOK, RootIsReference
  <2>2. s \in Seq(Leaf) /\ Len(s) <= TreeCapacity
    <3>1. PICK n \in 0..TreeCapacity : s \in [1..n -> Leaf] BY DEF Histories
    <3>2. TreeCapacity \in Nat BY DepthAssumption, Pow2Type DEF TreeCapacity
    <3>3. n \in Nat /\ n <= TreeCapacity BY <3>2
    <3>4. s \in Seq(Leaf) /\ Len(s) = n BY <3>1, <3>3
    <3> QED BY <3>3, <3>4
  <2> QED BY <2>1, <2>2, RootInjective
<1> QED BY <1>1, TreeInvariant, PTL

-----------------------------------------------------------------------------
(* The path check of the circuit. *)

\* c: the leaf, its index and the path.
PathStep(c, g, l) ==
  IF l = 0 THEN c.leaf
  ELSE IF IsRight(c.index, l - 1) THEN HashNode(c.path[l], g[l - 1])
  ELSE HashNode(g[l - 1], c.path[l])
PathRec == INSTANCE Recursion WITH Step <- PathStep

\* at[l]: the node the circuit has computed after l levels.
PathNodes(at, leaf, index, path) ==
  /\ at[0] = leaf
  /\ \A l \in 0..TREE_DEPTH - 1 :
       at[l + 1] = IF Bit(index, l) = 1 THEN <<path[l + 1], at[l]>>
                   ELSE <<at[l], path[l + 1]>>

(***************************************************************************)
(* The circuit's root, one level at a time.                                *)
(***************************************************************************)
LEMMA ComputeRootDef ==
  ASSUME NEW leaf, NEW index, NEW path
  PROVE  \E at : /\ PathNodes(at, leaf, index, path)
                 /\ ComputeRoot(leaf, index, path) = at[TREE_DEPTH]
<1> DEFINE c == [leaf |-> leaf, index |-> index, path |-> path]
           Eq(g) == g = [l \in Levels |->
                      IF l = 0 THEN leaf
                      ELSE IF IsRight(index, l - 1) THEN HashNode(path[l], g[l - 1])
                      ELSE HashNode(g[l - 1], path[l])]
           F == CHOOSE g : Eq(g)
<1>1. PathRec!ByPredecessor(Levels, c)
  <2> SUFFICES ASSUME NEW g, NEW h, NEW l \in Levels,
                      l # 0 /\ l - 1 \in Levels => g[l - 1] = h[l - 1]
               PROVE  PathStep(c, g, l) = PathStep(c, h, l)
    BY DEF PathRec!ByPredecessor
  <2>1. l # 0 => g[l - 1] = h[l - 1]
    BY DepthAssumption DEF Levels
  <2> HIDE DEF c
  <2> QED BY <2>1 DEF PathStep
<1>2. \E g : PathRec!Solves(Levels, c, g)
  <2> HIDE DEF c
  <2> QED BY <1>1, PathRec!RecursionByPredecessor, DepthAssumption DEF Levels
<1>3. \E g : Eq(g)
  BY <1>2 DEF PathRec!Solves, PathStep
<1>4. Eq(F)
  BY <1>3
<1>5. ComputeRoot(leaf, index, path) = F[TREE_DEPTH]
  BY DEF ComputeRoot
<1> HIDE DEF F
<1>6. F[0] = leaf
  <2>1. 0 \in Levels BY DepthAssumption DEF Levels
  <2> QED BY <1>4, <2>1
<1>7. ASSUME NEW l \in 0..TREE_DEPTH - 1
      PROVE  F[l + 1] = IF Bit(index, l) = 1 THEN <<path[l + 1], F[l]>>
                        ELSE <<F[l], path[l + 1]>>
  <2> DEFINE m == l + 1
  <2>1. m \in Levels /\ m # 0 /\ m - 1 = l
    BY DepthAssumption DEF Levels
  <2> HIDE DEF m
  <2>2. F[m] = IF IsRight(index, m - 1) THEN HashNode(path[m], F[m - 1])
               ELSE HashNode(F[m - 1], path[m])
    BY <1>4, <2>1
  <2>3. F[m] = IF Bit(index, l) = 1 THEN <<path[m], F[l]>> ELSE <<F[l], path[m]>>
    BY <2>1, <2>2 DEF IsRight, HashNode
  <2> QED BY <2>3 DEF m
<1>8. PathNodes(F, leaf, index, path)
  BY <1>6, <1>7 DEF PathNodes
<1> QED BY <1>5, <1>8

(***************************************************************************)
(* A path that ends in the root has followed the tree all the way down: it *)
(* starts from the leaf at that position.                                  *)
(***************************************************************************)
LEMMA PathDown ==
  ASSUME NEW s, NEW leaf, NEW index \in Nat, index < TreeCapacity, NEW path,
         ComputeRoot(leaf, index, path) = ReferenceRoot(s)
  PROVE  leaf = NodeOf(s, 0, index)
<1>1. PICK at : /\ PathNodes(at, leaf, index, path)
                /\ ComputeRoot(leaf, index, path) = at[TREE_DEPTH]
  BY ComputeRootDef
<1> DEFINE Q == {l \in Levels : at[l] = NodeOf(s, l, Pos(index, l)) => leaf = NodeOf(s, 0, index)}
<1>2. 0 \in Q
  <2>1. 0 \in Levels BY DepthAssumption DEF Levels
  <2>2. Pos(index, 0) = index BY PosStep
  <2>3. at[0] = leaf BY <1>1 DEF PathNodes
  <2> QED BY <2>1, <2>2, <2>3
<1>3. ASSUME NEW l \in 0..TREE_DEPTH - 1, l \in Q PROVE l + 1 \in Q
  <2>1. l + 1 \in Levels /\ l \in Nat BY DepthAssumption DEF Levels
  <2> DEFINE q == Pos(index, l + 1)
             p == Pos(index, l)
  <2> SUFFICES ASSUME at[l + 1] = NodeOf(s, l + 1, q)
               PROVE  at[l] = NodeOf(s, l, p)
    BY <1>3, <2>1
  <2>2. /\ p \in Nat /\ q \in Nat /\ Bit(index, l) \in {0, 1} /\ p = 2 * q + Bit(index, l)
    BY <2>1, PosStep
  <2> HIDE DEF p, q
  <2>3. NodeOf(s, l + 1, q) = <<NodeOf(s, l, 2 * q), NodeOf(s, l, 2 * q + 1)>>
    BY <2>2, NodeOfDef
  <2>4. at[l + 1] = IF Bit(index, l) = 1 THEN <<path[l + 1], at[l]>>
                    ELSE <<at[l], path[l + 1]>>
    BY <1>1 DEF PathNodes
  <2>5. CASE Bit(index, l) = 0
    <3>1. 2 * q = p BY <2>2, <2>5
    <3> QED BY <2>3, <2>4, <2>5, <3>1
  <2>6. CASE Bit(index, l) = 1
    <3>1. 2 * q + 1 = p BY <2>2, <2>6
    <3> QED BY <2>3, <2>4, <2>6, <3>1
  <2> QED BY <2>2, <2>5, <2>6
<1> HIDE DEF Q
<1>4. TREE_DEPTH \in Q
  <2>1. Levels \subseteq Q BY <1>2, <1>3, LevelInduction
  <2> QED BY <2>1, DepthAssumption DEF Levels
<1>5. at[TREE_DEPTH] = NodeOf(s, TREE_DEPTH, Pos(index, TREE_DEPTH))
  BY <1>1, PosTop DEF ReferenceRoot
<1> QED BY <1>4, <1>5 DEF Q

(***************************************************************************)
(* The sibling of a node is the other child of the node above.             *)
(***************************************************************************)
LEMMA SiblingPos ==
  ASSUME NEW k \in Nat, NEW l \in Nat
  PROVE  /\ Bit(k, l) = 0 => /\ Pos(k, l) = 2 * Pos(k, l + 1)
                             /\ Sibling(k, l) = 2 * Pos(k, l + 1) + 1
         /\ Bit(k, l) = 1 => /\ Pos(k, l) = 2 * Pos(k, l + 1) + 1
                             /\ Sibling(k, l) = 2 * Pos(k, l + 1)
         /\ Sibling(k, l) \in Nat
<1> DEFINE p == Pos(k, l)
           q == Pos(k, l + 1)
<1>1. /\ p \in Nat /\ q \in Nat /\ Bit(k, l) \in {0, 1} /\ p = 2 * q + Bit(k, l)
  BY PosStep
<1>2. Bit(k, l) = p % 2 /\ Sibling(k, l) = IF p % 2 = 0 THEN p + 1 ELSE p - 1
  BY DEF Bit, Sibling, Pos
<1> HIDE DEF p, q
<1>3. /\ Bit(k, l) = 0 => p = 2 * q /\ Sibling(k, l) = 2 * q + 1
      /\ Bit(k, l) = 1 => p = 2 * q + 1 /\ Sibling(k, l) = 2 * q
      /\ Sibling(k, l) \in Nat
  <2>1. CASE Bit(k, l) = 0
    <3>1. p = 2 * q BY <1>1, <2>1
    <3>2. Sibling(k, l) = p + 1 BY <1>2, <2>1
    <3> QED BY <1>1, <2>1, <3>1, <3>2
  <2>2. CASE Bit(k, l) = 1
    <3>1. p = 2 * q + 1 BY <1>1, <2>2
    <3>2. Sibling(k, l) = p - 1 BY <1>2, <2>2
    <3> QED BY <1>1, <2>2, <3>1, <3>2
  <2> QED BY <1>1, <2>1, <2>2
<1> QED BY <1>3 DEF p, q

(***************************************************************************)
(* The path of the siblings leads from the leaf to the root.               *)
(***************************************************************************)
LEMMA PathUp ==
  ASSUME NEW s, NEW index \in Nat, index < TreeCapacity, NEW path,
         \A l \in 0..TREE_DEPTH - 1 : path[l + 1] = NodeOf(s, l, Sibling(index, l))
  PROVE  ComputeRoot(NodeOf(s, 0, index), index, path) = ReferenceRoot(s)
<1> DEFINE leaf == NodeOf(s, 0, index)
<1>1. PICK at : /\ PathNodes(at, leaf, index, path)
                /\ ComputeRoot(leaf, index, path) = at[TREE_DEPTH]
  BY ComputeRootDef
<1> DEFINE Q == {l \in Levels : at[l] = NodeOf(s, l, Pos(index, l))}
<1>2. 0 \in Q
  <2>1. 0 \in Levels BY DepthAssumption DEF Levels
  <2>2. Pos(index, 0) = index BY PosStep
  <2>3. at[0] = leaf BY <1>1 DEF PathNodes
  <2> QED BY <2>1, <2>2, <2>3
<1> HIDE DEF leaf
<1>3. ASSUME NEW l \in 0..TREE_DEPTH - 1, l \in Q PROVE l + 1 \in Q
  <2>1. l + 1 \in Levels /\ l \in Nat BY DepthAssumption DEF Levels
  <2> DEFINE q == Pos(index, l + 1)
             p == Pos(index, l)
             b == Sibling(index, l)
  <2>2. /\ q \in Nat /\ Bit(index, l) \in {0, 1}
        /\ Bit(index, l) = 0 => p = 2 * q /\ b = 2 * q + 1
        /\ Bit(index, l) = 1 => p = 2 * q + 1 /\ b = 2 * q
    BY <2>1, PosStep, SiblingPos
  <2>3. at[l] = NodeOf(s, l, p) BY <1>3
  <2>4. at[l + 1] = IF Bit(index, l) = 1 THEN <<path[l + 1], at[l]>>
                    ELSE <<at[l], path[l + 1]>>
    BY <1>1 DEF PathNodes
  <2>5. path[l + 1] = NodeOf(s, l, b)
    OBVIOUS
  <2> HIDE DEF p, q, b
  <2>6. NodeOf(s, l + 1, q) = <<NodeOf(s, l, 2 * q), NodeOf(s, l, 2 * q + 1)>>
    BY <2>2, NodeOfDef
  <2>7. CASE Bit(index, l) = 0
    <3>1. at[l + 1] = NodeOf(s, l + 1, q) BY <2>2, <2>3, <2>4, <2>5, <2>6, <2>7
    <3> QED BY <2>1, <3>1 DEF q
  <2>8. CASE Bit(index, l) = 1
    <3>1. at[l + 1] = NodeOf(s, l + 1, q) BY <2>2, <2>3, <2>4, <2>5, <2>6, <2>8
    <3> QED BY <2>1, <3>1 DEF q
  <2> QED BY <2>2, <2>7, <2>8
<1> HIDE DEF Q
<1>4. at[TREE_DEPTH] = NodeOf(s, TREE_DEPTH, Pos(index, TREE_DEPTH))
  <2>1. Levels \subseteq Q BY <1>2, <1>3, LevelInduction
  <2>2. TREE_DEPTH \in Levels BY DepthAssumption DEF Levels
  <2> QED BY <2>1, <2>2 DEF Q
<1>5. Pos(index, TREE_DEPTH) = 0 BY PosTop
<1> QED BY <1>1, <1>4, <1>5 DEF leaf, ReferenceRoot

(***************************************************************************)
(* The siblings of a position are nodes of the tree.                       *)
(***************************************************************************)
LEMMA SiblingBound ==
  ASSUME NEW k \in Nat, k < TreeCapacity, NEW l \in 0..TREE_DEPTH - 1
  PROVE  Sibling(k, l) \in 0..Pow2[TREE_DEPTH - l] - 1
<1> DEFINE m == TREE_DEPTH - (l + 1)
           q == Pos(k, l + 1)
<1>1. m \in Nat /\ TREE_DEPTH - l = m + 1 /\ l \in Nat /\ l + 1 \in 0..TREE_DEPTH
  BY DepthAssumption
<1>2. q < Pow2[m]
  <2>1. TREE_DEPTH \in Nat /\ k < Pow2[TREE_DEPTH] BY DepthAssumption DEF TreeCapacity
  <2> QED BY <1>1, <2>1, PosBound
<1>3. Sibling(k, l) \in Nat /\ q \in Nat /\ Sibling(k, l) <= 2 * q + 1
  <2>1. Bit(k, l) \in {0, 1} /\ q \in Nat BY <1>1, PosStep
  <2>2. /\ Bit(k, l) = 0 => Sibling(k, l) = 2 * q + 1
        /\ Bit(k, l) = 1 => Sibling(k, l) = 2 * q
        /\ Sibling(k, l) \in Nat
    BY <1>1, SiblingPos
  <2> HIDE DEF q
  <2> QED BY <2>1, <2>2
<1> HIDE DEF m, q
<1>4. Pow2[m + 1] = 2 * Pow2[m] /\ Pow2[m] \in Nat
  BY <1>1, Pow2Def, Pow2Type
<1> DEFINE w == Pow2[m + 1]
<1>5. Sibling(k, l) <= w - 1 /\ w \in Nat
  BY <1>2, <1>3, <1>4
<1>6. w = Pow2[TREE_DEPTH - l]
  BY <1>1
<1> HIDE DEF w
<1>7. Sibling(k, l) \in 0..w - 1
  BY <1>3, <1>5
<1> QED BY <1>6, <1>7

(***************************************************************************)
(* The spend circuit over the contract's tree: it accepts a commitment at  *)
(* a position exactly when that commitment was inserted there.             *)
(***************************************************************************)
THEOREM OnlyMembersCorrect == TreeSpec => []OnlyMembersVerify
<1>1. TreeInv => OnlyMembersVerify
  <2> SUFFICES ASSUME TreeInv, NEW leaf \in Leaf, NEW index \in 0..TreeCapacity - 1
               PROVE  (\E p \in Paths : ComputeRoot(leaf, index, p) = root)
                        <=> (index < nextIndex /\ inserted[index + 1] = leaf)
    BY DEF OnlyMembersVerify
  <2>1. /\ inserted \in Seq(Leaf) /\ Len(inserted) = nextIndex
        /\ root = ReferenceRoot(inserted)
    BY DEF TreeInv, TreeTypeOK, RootIsReference
  <2>2. index \in Nat /\ index < TreeCapacity
    <3>1. TreeCapacity \in Nat BY DepthAssumption, Pow2Type DEF TreeCapacity
    <3> QED BY <3>1
  <2>3. NodeOf(inserted, 0, index)
          = IF index < Len(inserted) THEN inserted[index + 1] ELSE ZeroLeaf
    BY <2>2, NodeOfDef
  <2>4. ASSUME NEW p \in Paths, ComputeRoot(leaf, index, p) = root
        PROVE  index < nextIndex /\ inserted[index + 1] = leaf
    <3>1. leaf = NodeOf(inserted, 0, index) BY <2>1, <2>2, <2>4, PathDown
    <3> QED BY <2>1, <2>3, <3>1, LeafAssumption
  <2>5. ASSUME index < nextIndex, inserted[index + 1] = leaf
        PROVE  \E p \in Paths : ComputeRoot(leaf, index, p) = root
    <3> DEFINE path == [l \in 1..TREE_DEPTH |-> NodeOf(inserted, l - 1, Sibling(index, l - 1))]
    <3>1. ASSUME NEW l \in 0..TREE_DEPTH - 1
          PROVE  path[l + 1] = NodeOf(inserted, l, Sibling(index, l))
      <4>1. l + 1 \in 1..TREE_DEPTH /\ (l + 1) - 1 = l BY DepthAssumption
      <4>2. path[l + 1] = NodeOf(inserted, (l + 1) - 1, Sibling(index, (l + 1) - 1))
        BY <4>1
      <4> QED BY <4>1, <4>2
    <3>2. ASSUME NEW l \in 1..TREE_DEPTH
          PROVE  l - 1 \in 0..TREE_DEPTH - 1 /\ path[l] \in NodesAt(l - 1)
      <4>1. l - 1 \in 0..TREE_DEPTH - 1 BY DepthAssumption
      <4>2. Sibling(index, l - 1) \in 0..Pow2[TREE_DEPTH - (l - 1)] - 1
        BY <2>2, <4>1, SiblingBound
      <4>3. path[l] = NodeOf(inserted, l - 1, Sibling(index, l - 1)) OBVIOUS
      <4> QED BY <4>1, <4>2, <4>3 DEF NodesAt
    <3>3. path \in [1..TREE_DEPTH -> UNION {NodesAt(l) : l \in 0..TREE_DEPTH - 1}]
      BY <3>2
    <3>4. path \in Paths BY <3>2, <3>3 DEF Paths
    <3>5. ComputeRoot(NodeOf(inserted, 0, index), index, path) = ReferenceRoot(inserted)
      <4> HIDE DEF path
      <4> QED BY <2>2, <3>1, PathUp
    <3>6. NodeOf(inserted, 0, index) = leaf BY <2>1, <2>3, <2>5
    <3> QED BY <2>1, <3>4, <3>5, <3>6
  <2> QED BY <2>4, <2>5
<1> QED BY <1>1, TreeInvariant, PTL

-----------------------------------------------------------------------------
(* The client's tree. *)

\* c: the client's leaves and its cache.
CacheStep(c, g, l) ==
  [i \in Nat |->
     IF i * Pow2[l] >= Len(c.leaves) THEN Zeros[l]
     ELSE IF l = 0 THEN c.leaves[i + 1]
     ELSE IF <<l, i>> \in DOMAIN c.cache THEN c.cache[<<l, i>>]
     ELSE HashNode(g[l - 1][2 * i], g[l - 1][2 * i + 1])]
CacheRec == INSTANCE Recursion WITH Step <- CacheStep

(***************************************************************************)
(* _getNode, one level at a time.                                          *)
(***************************************************************************)
LEMMA NodeDef ==
  /\ \A i \in Nat : Node(0, i) = IF Empty(0, i) THEN Zeros[0] ELSE leaves[i + 1]
  /\ \A l \in 0..TREE_DEPTH - 1, i \in Nat :
       Node(l + 1, i) = IF Empty(l + 1, i) THEN Zeros[l + 1]
                        ELSE IF <<l + 1, i>> \in DOMAIN nodeCache
                             THEN nodeCache[<<l + 1, i>>]
                             ELSE <<Node(l, 2 * i), Node(l, 2 * i + 1)>>
<1> DEFINE c == [leaves |-> leaves, cache |-> nodeCache]
           Eq(g) == g = [l \in Levels |->
                      [i \in Nat |->
                         IF Empty(l, i) THEN Zeros[l]
                         ELSE IF l = 0 THEN leaves[i + 1]
                         ELSE IF <<l, i>> \in DOMAIN nodeCache THEN nodeCache[<<l, i>>]
                         ELSE HashNode(g[l - 1][2 * i], g[l - 1][2 * i + 1])]]
           F == CHOOSE g : Eq(g)
<1>1. CacheRec!ByPredecessor(Levels, c)
  <2> SUFFICES ASSUME NEW g, NEW h, NEW l \in Levels,
                      l # 0 /\ l - 1 \in Levels => g[l - 1] = h[l - 1]
               PROVE  CacheStep(c, g, l) = CacheStep(c, h, l)
    BY DEF CacheRec!ByPredecessor
  <2>1. l # 0 => g[l - 1] = h[l - 1]
    BY DepthAssumption DEF Levels
  <2> HIDE DEF c
  <2> QED BY <2>1 DEF CacheStep
<1>2. \E g : CacheRec!Solves(Levels, c, g)
  <2> HIDE DEF c
  <2> QED BY <1>1, CacheRec!RecursionByPredecessor, DepthAssumption DEF Levels
<1>3. \E g : Eq(g)
  BY <1>2 DEF CacheRec!Solves, CacheStep, Empty
<1>4. Eq(F)
  BY <1>3
<1>5. \A l, i : Node(l, i) = F[l][i]
  BY DEF Node
<1> HIDE DEF F
<1>6. ASSUME NEW i \in Nat
      PROVE  Node(0, i) = IF Empty(0, i) THEN Zeros[0] ELSE leaves[i + 1]
  <2>1. 0 \in Levels BY DepthAssumption DEF Levels
  <2>2. F[0][i] = IF Empty(0, i) THEN Zeros[0] ELSE leaves[i + 1]
    BY <1>4, <2>1
  <2> QED BY <1>5, <2>2
<1>7. ASSUME NEW l \in 0..TREE_DEPTH - 1, NEW i \in Nat
      PROVE  Node(l + 1, i) = IF Empty(l + 1, i) THEN Zeros[l + 1]
                              ELSE IF <<l + 1, i>> \in DOMAIN nodeCache
                                   THEN nodeCache[<<l + 1, i>>]
                                   ELSE <<Node(l, 2 * i), Node(l, 2 * i + 1)>>
  <2> DEFINE m == l + 1
  <2>1. m \in Levels /\ m # 0 /\ m - 1 = l
    BY DepthAssumption DEF Levels
  <2> HIDE DEF m
  <2>2. F[m] = [j \in Nat |->
                  IF Empty(m, j) THEN Zeros[m]
                  ELSE IF m = 0 THEN leaves[j + 1]
                  ELSE IF <<m, j>> \in DOMAIN nodeCache THEN nodeCache[<<m, j>>]
                  ELSE HashNode(F[m - 1][2 * j], F[m - 1][2 * j + 1])]
    BY <1>4, <2>1
  <2>3. F[m][i] = IF Empty(m, i) THEN Zeros[m]
                  ELSE IF <<m, i>> \in DOMAIN nodeCache THEN nodeCache[<<m, i>>]
                  ELSE <<F[l][2 * i], F[l][2 * i + 1]>>
    BY <2>1, <2>2 DEF HashNode
  <2>4. /\ Node(m, i) = F[m][i] /\ Node(l, 2 * i) = F[l][2 * i]
        /\ Node(l, 2 * i + 1) = F[l][2 * i + 1]
    BY <1>5
  <2>5. Node(m, i) = IF Empty(m, i) THEN Zeros[m]
                     ELSE IF <<m, i>> \in DOMAIN nodeCache THEN nodeCache[<<m, i>>]
                     ELSE <<Node(l, 2 * i), Node(l, 2 * i + 1)>>
    BY <2>3, <2>4
  <2> QED BY <2>5 DEF m
<1> QED BY <1>6, <1>7

\* What is cached below the root is up to date.
CacheFresh ==
  \A l \in 1..TREE_DEPTH - 1, i \in Nat :
    <<l, i>> \in DOMAIN nodeCache => nodeCache[<<l, i>>] = NodeOf(leaves, l, i)

(***************************************************************************)
(* Below the root, _getNode gives the nodes of the tree over the client's  *)
(* leaves, whatever is cached.                                             *)
(***************************************************************************)
LEMMA NodeFresh ==
  ASSUME Len(leaves) \in Nat, CacheFresh
  PROVE  \A l \in 0..TREE_DEPTH - 1, i \in Nat : Node(l, i) = NodeOf(leaves, l, i)
<1> DEFINE P == {l \in Levels : l < TREE_DEPTH =>
                   \A i \in Nat : Node(l, i) = NodeOf(leaves, l, i)}
<1>1. 0 \in P
  <2>1. 0 \in Levels BY DepthAssumption DEF Levels
  <2>2. ASSUME NEW i \in Nat PROVE Node(0, i) = NodeOf(leaves, 0, i)
    <3>1. Node(0, i) = IF Empty(0, i) THEN ZeroLeaf ELSE leaves[i + 1]
      BY NodeDef, ZerosDef
    <3>2. NodeOf(leaves, 0, i) = IF i < Len(leaves) THEN leaves[i + 1] ELSE ZeroLeaf
      BY NodeOfDef
    <3>3. Empty(0, i) <=> ~(i < Len(leaves))
      <4>1. i * Pow2[0] = i BY Pow2Def
      <4> QED BY <4>1 DEF Empty
    <3> QED BY <3>1, <3>2, <3>3
  <2> QED BY <2>1, <2>2
<1>2. ASSUME NEW l \in 0..TREE_DEPTH - 1, l \in P PROVE l + 1 \in P
  <2>1. l + 1 \in Levels /\ l < TREE_DEPTH BY DepthAssumption DEF Levels
  <2>2. ASSUME l + 1 < TREE_DEPTH, NEW i \in Nat
        PROVE  Node(l + 1, i) = NodeOf(leaves, l + 1, i)
    <3>1. Node(l + 1, i) = IF Empty(l + 1, i) THEN Zeros[l + 1]
                           ELSE IF <<l + 1, i>> \in DOMAIN nodeCache
                                THEN nodeCache[<<l + 1, i>>]
                                ELSE <<Node(l, 2 * i), Node(l, 2 * i + 1)>>
      BY NodeDef
    <3>2. NodeOf(leaves, l + 1, i)
            = <<NodeOf(leaves, l, 2 * i), NodeOf(leaves, l, 2 * i + 1)>>
      BY NodeOfDef
    <3>3. /\ Node(l, 2 * i) = NodeOf(leaves, l, 2 * i)
          /\ Node(l, 2 * i + 1) = NodeOf(leaves, l, 2 * i + 1)
      <4>1. 2 * i \in Nat /\ 2 * i + 1 \in Nat OBVIOUS
      <4> QED BY <1>2, <2>1, <4>1
    <3>4. Empty(l + 1, i) => NodeOf(leaves, l + 1, i) = Zeros[l + 1]
      BY <2>1, EmptyNode DEF Empty
    <3>5. <<l + 1, i>> \in DOMAIN nodeCache
            => nodeCache[<<l + 1, i>>] = NodeOf(leaves, l + 1, i)
      <4>1. l + 1 \in 1..TREE_DEPTH - 1 BY <2>2, DepthAssumption
      <4> QED BY <4>1 DEF CacheFresh
    <3> QED BY <3>1, <3>2, <3>3, <3>4, <3>5
  <2> QED BY <2>1, <2>2
<1> HIDE DEF P
<1>3. Levels \subseteq P BY <1>1, <1>2, LevelInduction
<1> QED BY <1>3, DepthAssumption DEF P, Levels

(***************************************************************************)
(* The root the client reports is the cached one or that of its leaves.    *)
(***************************************************************************)
LEMMA RootCachedOrFresh ==
  ASSUME Len(leaves) \in Nat, CacheFresh
  PROVE  \/ ClientRoot = ReferenceRoot(leaves)
         \/ /\ <<TREE_DEPTH, 0>> \in DOMAIN nodeCache
            /\ ClientRoot = nodeCache[<<TREE_DEPTH, 0>>]
<1> DEFINE l == TREE_DEPTH - 1
<1>1. l \in 0..TREE_DEPTH - 1 /\ l + 1 = TREE_DEPTH /\ l + 1 \in Levels
  BY DepthAssumption DEF Levels
<1> HIDE DEF l
<1>2. Node(l + 1, 0) = IF Empty(l + 1, 0) THEN Zeros[l + 1]
                       ELSE IF <<l + 1, 0>> \in DOMAIN nodeCache
                            THEN nodeCache[<<l + 1, 0>>]
                            ELSE <<Node(l, 0), Node(l, 1)>>
  <2>1. 2 * 0 = 0 /\ 2 * 0 + 1 = 1 /\ 0 \in Nat OBVIOUS
  <2>2. Node(l + 1, 0) = IF Empty(l + 1, 0) THEN Zeros[l + 1]
                         ELSE IF <<l + 1, 0>> \in DOMAIN nodeCache
                              THEN nodeCache[<<l + 1, 0>>]
                              ELSE <<Node(l, 2 * 0), Node(l, 2 * 0 + 1)>>
    BY <1>1, <2>1, NodeDef
  <2> QED BY <2>1, <2>2
<1>3. NodeOf(leaves, l + 1, 0) = <<NodeOf(leaves, l, 0), NodeOf(leaves, l, 1)>>
  <2>1. 2 * 0 = 0 /\ 2 * 0 + 1 = 1 /\ 0 \in Nat OBVIOUS
  <2>2. NodeOf(leaves, l + 1, 0)
          = <<NodeOf(leaves, l, 2 * 0), NodeOf(leaves, l, 2 * 0 + 1)>>
    BY <1>1, <2>1, NodeOfDef
  <2> QED BY <2>1, <2>2
<1>4. Node(l, 0) = NodeOf(leaves, l, 0) /\ Node(l, 1) = NodeOf(leaves, l, 1)
  BY <1>1, NodeFresh
<1>5. Empty(l + 1, 0) => NodeOf(leaves, l + 1, 0) = Zeros[l + 1]
  BY <1>1, EmptyNode DEF Empty
<1>6. \/ Node(l + 1, 0) = NodeOf(leaves, l + 1, 0)
      \/ /\ <<l + 1, 0>> \in DOMAIN nodeCache
         /\ Node(l + 1, 0) = nodeCache[<<l + 1, 0>>]
  BY <1>2, <1>3, <1>4, <1>5
<1> QED BY <1>1, <1>6 DEF ClientRoot, ReferenceRoot

-----------------------------------------------------------------------------
\* The client has the contract's first leaves.
LeavesPrefix ==
  /\ leaves \in Seq(Leaf)
  /\ Len(leaves) <= Len(inserted)
  /\ \A j \in 1..Len(leaves) : leaves[j] = inserted[j]

\* The cached root is one of those the client's leaves have had.
RootOnceFresh ==
  <<TREE_DEPTH, 0>> \in DOMAIN nodeCache
    => \E n \in 0..Len(leaves) :
         nodeCache[<<TREE_DEPTH, 0>>] = ReferenceRoot(SubSeq(leaves, 1, n))

(***************************************************************************)
(* The inductive invariant of the client's tree beside the contract's:     *)
(* insert evicts every cached node the new leaf changes except the root.   *)
(***************************************************************************)
ClientInv ==
  /\ TreeInv
  /\ LeavesPrefix
  /\ DOMAIN nodeCache \subseteq (1..TREE_DEPTH) \X Nat
  /\ CacheFresh
  /\ RootOnceFresh

(***************************************************************************)
(* It holds when nothing is cached.                                        *)
(***************************************************************************)
LEMMA ClientInitInv == ClientInit => ClientInv
<1> SUFFICES ASSUME ClientInit PROVE ClientInv
  OBVIOUS
<1>1. TreeInv BY TreeInitInv DEF ClientInit
<1>2. leaves = << >> /\ inserted = << >> /\ DOMAIN nodeCache = {}
  BY DEF ClientInit, TreeInit
<1>3. LeavesPrefix BY <1>2 DEF LeavesPrefix
<1> QED BY <1>1, <1>2, <1>3 DEF ClientInv, CacheFresh, RootOnceFresh

(***************************************************************************)
(* The contract's insertions keep it: the client's leaves stay the first.  *)
(***************************************************************************)
LEMMA ContractInsertInv ==
  ASSUME ClientInv, NEW leaf \in Leaf, Insert(leaf), UNCHANGED clientVars
  PROVE  ClientInv'
<1>1. TreeInv' BY InsertInv DEF ClientInv
<1>2. leaves' = leaves /\ nodeCache' = nodeCache
  BY DEF clientVars
<1>3. LeavesPrefix'
  <2>1. /\ inserted \in Seq(Leaf) /\ inserted' = Append(inserted, leaf)
        /\ LeavesPrefix
    BY DEF ClientInv, TreeInv, TreeTypeOK, Insert
  <2>2. /\ Len(inserted') = Len(inserted) + 1 /\ Len(inserted) \in Nat
        /\ \A j \in 1..Len(inserted) : inserted'[j] = inserted[j]
    BY <2>1
  <2>3. Len(leaves) \in Nat BY <2>1 DEF LeavesPrefix
  <2>4. \A j \in 1..Len(leaves) : j \in 1..Len(inserted)
    BY <2>1, <2>2, <2>3 DEF LeavesPrefix
  <2> QED BY <1>2, <2>1, <2>2, <2>3, <2>4 DEF LeavesPrefix
<1>4. (DOMAIN nodeCache \subseteq (1..TREE_DEPTH) \X Nat)' /\ CacheFresh' /\ RootOnceFresh'
  BY <1>2 DEF ClientInv, CacheFresh, RootOnceFresh
<1> QED BY <1>1, <1>3, <1>4 DEF ClientInv

(***************************************************************************)
(* MerkleTree.insert: a cached node that is kept is not above the new      *)
(* leaf, or is the root.                                                   *)
(***************************************************************************)
LEMMA ClientInsertInv ==
  ASSUME ClientInv, ClientInsert
  PROVE  ClientInv'
<1> DEFINE k == Len(leaves)
           x == inserted[k + 1]
<1>1. /\ leaves \in Seq(Leaf) /\ k \in Nat /\ k < Len(inserted)
      /\ inserted \in Seq(Leaf) /\ x \in Leaf
  BY DEF ClientInv, TreeInv, TreeTypeOK, LeavesPrefix, ClientInsert
<1>2. /\ leaves' = Append(leaves, x)
      /\ DOMAIN nodeCache' = DOMAIN nodeCache \ Invalidated(k)
      /\ \A key \in DOMAIN nodeCache' : nodeCache'[key] = nodeCache[key]
  BY DEF ClientInsert
<1>3. UNCHANGED treeVars BY DEF ClientInsert
<1>4. TreeInv' BY <1>3, TreeStutter DEF ClientInv
<1>5. /\ leaves' \in Seq(Leaf) /\ Len(leaves') = k + 1 /\ leaves'[k + 1] = x
      /\ \A j \in 1..k : leaves'[j] = leaves[j]
  BY <1>1, <1>2
<1>6. LeavesPrefix'
  <2>1. inserted' = inserted BY <1>3 DEF treeVars
  <2>2. \A j \in 1..k : leaves[j] = inserted[j] BY DEF ClientInv, LeavesPrefix
  <2>3. Len(inserted) \in Nat BY <1>1
  <2> HIDE DEF k, x
  <2>4. ASSUME NEW j \in 1..k + 1 PROVE leaves'[j] = inserted[j]
    <3>1. j \in 1..k \/ j = k + 1 BY <1>1
    <3> QED BY <1>5, <2>2, <3>1 DEF x
  <2>5. k + 1 <= Len(inserted) BY <1>1, <2>3
  <2> QED BY <1>5, <2>1, <2>4, <2>5 DEF LeavesPrefix
<1>7. (DOMAIN nodeCache \subseteq (1..TREE_DEPTH) \X Nat)'
  BY <1>2 DEF ClientInv
<1>8. CacheFresh'
  <2> SUFFICES ASSUME NEW l \in 1..TREE_DEPTH - 1, NEW i \in Nat, <<l, i>> \in DOMAIN nodeCache'
               PROVE  nodeCache'[<<l, i>>] = NodeOf(leaves', l, i)
    BY DEF CacheFresh
  <2>1. l \in 0..TREE_DEPTH - 1 /\ l \in Levels /\ l \in Nat
    BY DepthAssumption DEF Levels
  <2>2. <<l, i>> \in DOMAIN nodeCache /\ <<l, i>> \notin Invalidated(k)
    BY <1>2
  <2>3. i # Pos(k, l)
    <3>1. Ancestor(0, k, l) = <<l, Pos(k, l)>>
      <4>1. l - 0 = l BY <2>1
      <4> QED BY <4>1 DEF Ancestor, Pos
    <3>2. Ancestor(0, k, l) \in Invalidated(k) BY <2>1 DEF Invalidated
    <3> HIDE DEF k
    <3> QED BY <2>2, <3>1, <3>2
  <2>4. nodeCache[<<l, i>>] = NodeOf(leaves, l, i)
    BY <2>2 DEF ClientInv, CacheFresh
  <2>5. NodeOf(Append(leaves, x), l, i) = NodeOf(leaves, l, i)
    <3> HIDE DEF x
    <3> QED BY <1>1, <2>1, <2>3, AppendNode
  <2>6. nodeCache'[<<l, i>>] = nodeCache[<<l, i>>] BY <1>2
  <2> QED BY <1>2, <2>4, <2>5, <2>6
<1>9. RootOnceFresh'
  <2> SUFFICES ASSUME <<TREE_DEPTH, 0>> \in DOMAIN nodeCache'
               PROVE  \E n \in 0..Len(leaves') :
                        nodeCache'[<<TREE_DEPTH, 0>>] = ReferenceRoot(SubSeq(leaves', 1, n))
    BY DEF RootOnceFresh
  <2>1. PICK n \in 0..k : nodeCache[<<TREE_DEPTH, 0>>] = ReferenceRoot(SubSeq(leaves, 1, n))
    BY <1>2 DEF ClientInv, RootOnceFresh
  <2>2. SubSeq(leaves', 1, n) = SubSeq(leaves, 1, n)
    <3>1. n \in Nat /\ \A j \in 1..n : j \in 1..k BY <1>1
    <3>2. SubSeq(leaves', 1, n) = [j \in 1..n |-> leaves'[j]]
      BY <1>5, <3>1, <1>1
    <3>3. SubSeq(leaves, 1, n) = [j \in 1..n |-> leaves[j]]
      BY <1>1, <3>1
    <3>4. \A j \in 1..n : leaves'[j] = leaves[j] BY <1>5, <3>1
    <3> QED BY <3>2, <3>3, <3>4
  <2>3. n \in 0..Len(leaves') BY <1>1, <1>5
  <2>4. nodeCache'[<<TREE_DEPTH, 0>>] = nodeCache[<<TREE_DEPTH, 0>>] BY <1>2
  <2> QED BY <2>1, <2>2, <2>3, <2>4
<1> QED BY <1>4, <1>6, <1>7, <1>8, <1>9 DEF ClientInv

(***************************************************************************)
(* _getNode: what it adds to the cache is up to date, but the root is only *)
(* as recent as the cached one.                                            *)
(***************************************************************************)
LEMMA CacheInv ==
  ASSUME ClientInv, NEW keys \in SUBSET ((1..TREE_DEPTH) \X Nat),
         nodeCache' = CacheWith(keys), UNCHANGED <<leaves, treeVars>>
  PROVE  ClientInv'
<1>1. TreeInv' BY TreeStutter DEF ClientInv
<1>2. leaves' = leaves /\ inserted' = inserted BY DEF treeVars
<1>3. LeavesPrefix' BY <1>2 DEF ClientInv, LeavesPrefix
<1>4. /\ DOMAIN nodeCache' = DOMAIN nodeCache \cup keys
      /\ \A key \in DOMAIN nodeCache : nodeCache'[key] = nodeCache[key]
      /\ \A key \in keys : key \notin DOMAIN nodeCache
                             => nodeCache'[key] = Node(key[1], key[2])
  BY DEF CacheWith
<1>5. (DOMAIN nodeCache \subseteq (1..TREE_DEPTH) \X Nat)'
  BY <1>4 DEF ClientInv
<1>6. Len(leaves) \in Nat /\ CacheFresh /\ leaves \in Seq(Leaf)
  BY DEF ClientInv, LeavesPrefix
<1>7. CacheFresh'
  <2> SUFFICES ASSUME NEW l \in 1..TREE_DEPTH - 1, NEW i \in Nat, <<l, i>> \in DOMAIN nodeCache'
               PROVE  nodeCache'[<<l, i>>] = NodeOf(leaves, l, i)
    BY <1>2 DEF CacheFresh
  <2>1. CASE <<l, i>> \in DOMAIN nodeCache
    BY <1>4, <1>6, <2>1 DEF CacheFresh
  <2>2. CASE <<l, i>> \notin DOMAIN nodeCache
    <3>1. nodeCache'[<<l, i>>] = Node(l, i) BY <1>4, <2>2
    <3>2. l \in 0..TREE_DEPTH - 1 BY DepthAssumption
    <3> QED BY <1>6, <3>1, <3>2, NodeFresh
  <2> QED BY <2>1, <2>2
<1>8. RootOnceFresh'
  <2> SUFFICES ASSUME <<TREE_DEPTH, 0>> \in DOMAIN nodeCache'
               PROVE  \E n \in 0..Len(leaves) :
                        nodeCache'[<<TREE_DEPTH, 0>>] = ReferenceRoot(SubSeq(leaves, 1, n))
    BY <1>2 DEF RootOnceFresh
  <2>1. CASE <<TREE_DEPTH, 0>> \in DOMAIN nodeCache
    BY <1>4, <2>1 DEF ClientInv, RootOnceFresh
  <2>2. CASE <<TREE_DEPTH, 0>> \notin DOMAIN nodeCache
    <3>1. nodeCache'[<<TREE_DEPTH, 0>>] = ClientRoot
      BY <1>4, <2>2 DEF ClientRoot
    <3>2. ClientRoot = ReferenceRoot(leaves)
      BY <1>6, <2>2, RootCachedOrFresh
    <3>3. SubSeq(leaves, 1, Len(leaves)) = leaves BY <1>6
    <3>4. Len(leaves) \in 0..Len(leaves) BY <1>6
    <3> QED BY <3>1, <3>2, <3>3, <3>4
  <2> QED BY <2>1, <2>2
<1> QED BY <1>1, <1>3, <1>5, <1>7, <1>8 DEF ClientInv

(***************************************************************************)
(* What _getNode computes are nodes of the tree above the leaves.          *)
(***************************************************************************)
LEMMA ComputedKeys ==
  ASSUME NEW l \in Levels, NEW i
  PROVE  Computed(l, i) \subseteq (1..TREE_DEPTH) \X Nat
<1>1. TreeCapacity \in Nat /\ l \in Nat /\ l <= TREE_DEPTH /\ TREE_DEPTH \in Nat
  BY DepthAssumption, Pow2Type DEF TreeCapacity, Levels
<1>2. 1..l \subseteq 1..TREE_DEPTH /\ 0..TreeCapacity - 1 \subseteq Nat
  BY <1>1
<1>3. (1..l) \X (0..TreeCapacity - 1) \subseteq (1..TREE_DEPTH) \X Nat
  BY <1>2
<1> QED BY <1>3 DEF Computed

(***************************************************************************)
(* The inductive invariant holds of the specification.                     *)
(***************************************************************************)
THEOREM ClientInvariant == ClientSpec => []ClientInv
<1>1. ClientInv /\ [ClientNext]_<<treeVars, clientVars>> => ClientInv'
  <2> SUFFICES ASSUME ClientInv, [ClientNext]_<<treeVars, clientVars>> PROVE ClientInv'
    OBVIOUS
  <2>1. ASSUME NEW leaf \in Leaf, Insert(leaf), UNCHANGED clientVars PROVE ClientInv'
    BY <2>1, ContractInsertInv
  <2>2. CASE ClientInsert BY <2>2, ClientInsertInv
  <2>3. CASE GetRoot
    <3>1. TREE_DEPTH \in Levels BY DepthAssumption DEF Levels
    <3>2. Computed(TREE_DEPTH, 0) \in SUBSET ((1..TREE_DEPTH) \X Nat)
      BY <3>1, ComputedKeys
    <3> QED BY <2>3, <3>2, CacheInv DEF GetRoot
  <2>4. ASSUME NEW index \in 0..TreeCapacity - 1, GetSiblings(index) PROVE ClientInv'
    <3> DEFINE keys == UNION {Computed(l, Sibling(index, l)) : l \in 0..TREE_DEPTH - 1}
    <3>1. \A l \in 0..TREE_DEPTH - 1 : l \in Levels BY DepthAssumption DEF Levels
    <3>2. \A l \in 0..TREE_DEPTH - 1 :
            Computed(l, Sibling(index, l)) \subseteq (1..TREE_DEPTH) \X Nat
      BY <3>1, ComputedKeys
    <3>3. keys \in SUBSET ((1..TREE_DEPTH) \X Nat) BY <3>2
    <3>4. nodeCache' = CacheWith(keys) /\ UNCHANGED <<leaves, treeVars>>
      BY <2>4 DEF GetSiblings
    <3> HIDE DEF keys
    <3> QED BY <3>3, <3>4, CacheInv
  <2>5. CASE UNCHANGED <<treeVars, clientVars>>
    <3>1. TreeInv' BY <2>5, TreeStutter DEF ClientInv
    <3>2. leaves' = leaves /\ nodeCache' = nodeCache /\ inserted' = inserted
      BY <2>5 DEF treeVars, clientVars
    <3> QED BY <3>1, <3>2 DEF ClientInv, LeavesPrefix, CacheFresh, RootOnceFresh
  <2> QED BY <2>1, <2>2, <2>3, <2>4, <2>5 DEF ClientNext
<1> QED BY <1>1, ClientInitInv, PTL DEF ClientSpec

(***************************************************************************)
(* MerkleTree.getSiblings: the path the client gives for any of its leaves *)
(* verifies against the root of the tree over the leaves it has.           *)
(***************************************************************************)
THEOREM SiblingsCorrect == ClientSpec => []SiblingsVerify
<1>1. ClientInv => SiblingsVerify
  <2> SUFFICES ASSUME ClientInv, NEW i \in 1..Len(leaves)
               PROVE  ComputeRoot(leaves[i], i - 1, Siblings(i - 1)) = ReferenceRoot(leaves)
    BY DEF SiblingsVerify
  <2> DEFINE index == i - 1
             path == Siblings(index)
  <2>1. /\ Len(leaves) \in Nat /\ CacheFresh
        /\ Len(leaves) <= TreeCapacity /\ TreeCapacity \in Nat
    <3>1. TreeCapacity \in Nat BY DepthAssumption, Pow2Type DEF TreeCapacity
    <3>2. /\ Len(leaves) \in Nat /\ Len(leaves) <= Len(inserted) /\ CacheFresh
          /\ Len(inserted) = nextIndex /\ nextIndex \in 0..TreeCapacity
      BY DEF ClientInv, LeavesPrefix, TreeInv, TreeTypeOK
    <3> QED BY <3>1, <3>2
  <2>2. index \in Nat /\ index < TreeCapacity /\ index < Len(leaves) /\ index + 1 = i
    BY <2>1
  <2> HIDE DEF index
  <2>3. ASSUME NEW l \in 0..TREE_DEPTH - 1
        PROVE  path[l + 1] = NodeOf(leaves, l, Sibling(index, l))
    <3>1. l + 1 \in 1..TREE_DEPTH /\ (l + 1) - 1 = l /\ l \in Nat BY DepthAssumption
    <3>2. path[l + 1] = Node((l + 1) - 1, Sibling(index, (l + 1) - 1))
      BY <3>1 DEF Siblings
    <3>3. Sibling(index, l) \in Nat BY <2>2, <3>1, SiblingPos
    <3> QED BY <2>1, <3>1, <3>2, <3>3, NodeFresh
  <2> HIDE DEF path
  <2>4. ComputeRoot(NodeOf(leaves, 0, index), index, path) = ReferenceRoot(leaves)
    BY <2>2, <2>3, PathUp
  <2>5. NodeOf(leaves, 0, index) = leaves[i]
    BY <2>2, NodeOfDef
  <2> QED BY <2>4, <2>5 DEF index, path
<1> QED BY <1>1, ClientInvariant, PTL

(***************************************************************************)
(* MerkleTree.getRoot: the root the client reports is one the contract has *)
(* had, never a mixture of old and new nodes.                              *)
(***************************************************************************)
THEOREM ClientRootCorrect == ClientSpec => []RootWasOnChain
<1>1. ClientInv => RootWasOnChain
  <2> SUFFICES ASSUME ClientInv
               PROVE  \E n \in 0..Len(leaves) : ClientRoot = ReferenceRoot(SubSeq(inserted, 1, n))
    BY DEF RootWasOnChain
  <2>1. /\ Len(leaves) \in Nat /\ leaves \in Seq(Leaf) /\ CacheFresh
        /\ inserted \in Seq(Leaf) /\ Len(leaves) <= Len(inserted)
        /\ \A j \in 1..Len(leaves) : leaves[j] = inserted[j]
    BY DEF ClientInv, LeavesPrefix, TreeInv, TreeTypeOK
  <2>2. \E n \in 0..Len(leaves) : ClientRoot = ReferenceRoot(SubSeq(leaves, 1, n))
    <3>1. CASE ClientRoot = ReferenceRoot(leaves)
      <4>1. SubSeq(leaves, 1, Len(leaves)) = leaves /\ Len(leaves) \in 0..Len(leaves)
        BY <2>1
      <4> QED BY <3>1, <4>1
    <3>2. CASE /\ <<TREE_DEPTH, 0>> \in DOMAIN nodeCache
               /\ ClientRoot = nodeCache[<<TREE_DEPTH, 0>>]
      BY <3>2 DEF ClientInv, RootOnceFresh
    <3> QED BY <2>1, <3>1, <3>2, RootCachedOrFresh
  <2>3. ASSUME NEW n \in 0..Len(leaves) PROVE SubSeq(leaves, 1, n) = SubSeq(inserted, 1, n)
    <3>1. n \in Nat /\ n <= Len(leaves) /\ n <= Len(inserted) BY <2>1
    <3>2. SubSeq(leaves, 1, n) = [j \in 1..n |-> leaves[j]] BY <2>1, <3>1
    <3>3. SubSeq(inserted, 1, n) = [j \in 1..n |-> inserted[j]] BY <2>1, <3>1
    <3>4. \A j \in 1..n : leaves[j] = inserted[j] BY <2>1, <3>1
    <3> QED BY <3>2, <3>3, <3>4
  <2> QED BY <2>2, <2>3
<1> QED BY <1>1, ClientInvariant, PTL
=============================================================================
