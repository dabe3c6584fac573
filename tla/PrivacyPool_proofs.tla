------------------------- MODULE PrivacyPool_proofs -------------------------
(***************************************************************************)
(* What holds of PrivacyPool for every value of its constants.  PoolRight  *)
(* is kept by every call the contract accepts, whoever makes it; IInv says *)
(* more, and is kept by the calls that the SDK makes.                      *)
(***************************************************************************)
EXTENDS PoolProperties, NoteManager, FiniteSetTheorems, TLAPS

Balances == [Tokens -> [Addresses -> Nat]]
Row == [deposited : Nat, committed : Nat, shieldFees : Nat, released : Nat,
        withdrawn : Nat, kept : Nat, twiceIn : Nat, twiceOut : Nat]
Totals == [Tokens -> Row]

(***************************************************************************)
(* A fee of at most MAX_FEE_BPS never exceeds what it is taken from, so    *)
(* neither received - fee nor publicAmount - fee underflows.               *)
(***************************************************************************)
LEMMA FeeBounded ==
  ASSUME NEW amount \in Nat, protocolFeeBps \in 0..MAX_FEE_BPS
  PROVE  ComputeFee(amount) \in 0..amount
<1> DEFINE x == amount * protocolFeeBps
<1>1. x \in Nat /\ x <= amount * 1000
  BY SMT DEF MAX_FEE_BPS
<1>2. x \div 10000 \in Nat /\ 10000 * (x \div 10000) <= x
  <2> HIDE DEF x
  <2> QED BY <1>1, SMT
<1>3. x \div 10000 <= amount
  <2> DEFINE q == x \div 10000
  <2>1. q \in Nat /\ 10000 * q <= amount * 1000 BY <1>1, <1>2, SMT
  <2> HIDE DEF q
  <2>2. q <= amount BY <2>1, SMT
  <2> QED BY <2>2 DEF q
<1> QED BY <1>2, <1>3 DEF ComputeFee

(***************************************************************************)
(* A transfer the sender can cover keeps every balance a natural number,   *)
(* takes exactly the amount from the sender and touches no other token.    *)
(***************************************************************************)
LEMMA MovedIsBalances ==
  ASSUME NEW b \in Balances, NEW t \in Tokens,
         NEW from \in Addresses, NEW to \in Addresses,
         NEW amount \in Nat, amount <= b[t][from]
  PROVE  /\ Moved(b, t, from, to, amount) \in Balances
         /\ from # to =>
              /\ Moved(b, t, from, to, amount)[t][from] = b[t][from] - amount
              /\ Moved(b, t, from, to, amount)[t][to] = b[t][to] + amount
         /\ from = to => Moved(b, t, from, to, amount)[t][to] = b[t][to]
         /\ \A u \in Tokens \ {t} : Moved(b, t, from, to, amount)[u] = b[u]
<1> DEFINE taken == [b[t] EXCEPT ![from] = @ - amount]
           row == [taken EXCEPT ![to] = @ + amount]
<1>1. /\ b[t] \in [Addresses -> Nat] /\ b[t][from] \in Nat
      /\ taken \in [Addresses -> Nat] /\ taken[from] = b[t][from] - amount
      /\ \A a \in Addresses \ {from} : taken[a] = b[t][a]
  BY DEF Balances
<1>2. /\ row \in [Addresses -> Nat] /\ row[to] = taken[to] + amount
      /\ \A a \in Addresses \ {to} : row[a] = taken[a]
  <2> HIDE DEF taken
  <2>1. taken[to] + amount \in Nat
    BY <1>1
  <2> QED BY <1>1, <2>1
<1>3. Moved(b, t, from, to, amount) = [b EXCEPT ![t] = row]
  <2>1. Moved(b, t, from, to, amount)
          = [b EXCEPT ![t] = [b[t] EXCEPT ![from] = @ - amount, ![to] = @ + amount]]
    BY DEF Moved
  <2>2. [b[t] EXCEPT ![from] = @ - amount, ![to] = @ + amount] = row
    OBVIOUS
  <2> HIDE DEF row
  <2> QED BY <2>1, <2>2
<1> HIDE DEF taken, row
<1>4. /\ [b EXCEPT ![t] = row] \in Balances /\ [b EXCEPT ![t] = row][t] = row
      /\ \A u \in Tokens \ {t} : [b EXCEPT ![t] = row][u] = b[u]
  BY <1>2 DEF Balances
<1>5. from # to => row[from] = b[t][from] - amount /\ row[to] = b[t][to] + amount
  BY <1>1, <1>2
<1>6. from = to => row[to] = b[t][to]
  BY <1>1, <1>2
<1> QED BY <1>3, <1>4, <1>5, <1>6

(***************************************************************************)
(* What the pool pays leaves it, but for what it pays to itself.           *)
(***************************************************************************)
LEMMA PoolPays ==
  ASSUME NEW b \in Balances, NEW t \in Tokens, NEW to \in Addresses,
         NEW amount \in Nat, amount <= b[t][Pool]
  PROVE  /\ Moved(b, t, Pool, to, amount) \in Balances
         /\ Moved(b, t, Pool, to, amount)[t][Pool]
              = b[t][Pool] - amount + ToItself(to, amount)
         /\ \A u \in Tokens \ {t} : Moved(b, t, Pool, to, amount)[u] = b[u]
         /\ ToItself(to, amount) \in 0..amount
<1>1. Pool \in Addresses /\ b[t][Pool] \in Nat
  BY DEF Addresses, Balances
<1>2. CASE to = Pool
  <2>1. ToItself(to, amount) = amount
    BY <1>2 DEF ToItself
  <2>2. Moved(b, t, Pool, to, amount)[t][to] = b[t][to]
    BY <1>1, <1>2, MovedIsBalances
  <2>3. b[t][Pool] = b[t][Pool] - amount + amount
    BY <1>1
  <2> QED BY <1>1, <1>2, <2>1, <2>2, <2>3, MovedIsBalances
<1>3. CASE to # Pool
  <2>1. ToItself(to, amount) = 0
    BY <1>3 DEF ToItself
  <2>2. Moved(b, t, Pool, to, amount)[t][Pool] = b[t][Pool] - amount
    BY <1>1, <1>3, MovedIsBalances
  <2> QED BY <1>1, <2>1, <2>2, MovedIsBalances
<1> QED BY <1>2, <1>3

\* What shield, spend and emergencyWithdraw add to the running totals f.
AddShield(f, t, u, paid, fee, own, worth) ==
  [f EXCEPT ![t].deposited = @ + paid, ![t].shieldFees = @ + fee,
            ![t].kept = @ + own, ![u].committed = @ + worth]

ShieldAdded(g, f, t, u, paid, fee, own, worth) ==
  /\ g \in Totals
  /\ \A v \in Tokens :
       /\ g[v].released = f[v].released /\ g[v].withdrawn = f[v].withdrawn
       /\ g[v].twiceIn = f[v].twiceIn /\ g[v].twiceOut = f[v].twiceOut
  /\ \A v \in Tokens \ {t} :
       /\ g[v].deposited = f[v].deposited
       /\ g[v].shieldFees = f[v].shieldFees /\ g[v].kept = f[v].kept
  /\ g[t].deposited = f[t].deposited + paid
  /\ g[t].shieldFees = f[t].shieldFees + fee /\ g[t].kept = f[t].kept + own
  /\ \A v \in Tokens \ {u} : g[v].committed = f[v].committed
  /\ g[u].committed = f[u].committed + worth

AddSpend(f, t, out, own, ins, outs) ==
  [f EXCEPT ![t].released = @ + out, ![t].kept = @ + own,
            ![t].twiceIn = @ + ins, ![t].twiceOut = @ + outs]

SpendAdded(g, f, t, out, own, ins, outs) ==
  /\ g \in Totals
  /\ \A v \in Tokens \ {t} : g[v] = f[v]
  /\ g[t].released = f[t].released + out /\ g[t].kept = f[t].kept + own
  /\ g[t].twiceIn = f[t].twiceIn + ins /\ g[t].twiceOut = f[t].twiceOut + outs
  /\ g[t].deposited = f[t].deposited /\ g[t].committed = f[t].committed
  /\ g[t].shieldFees = f[t].shieldFees /\ g[t].withdrawn = f[t].withdrawn

AddWithdrawal(f, t, out, own) ==
  [f EXCEPT ![t].withdrawn = @ + out, ![t].kept = @ + own]

WithdrawalAdded(g, f, t, out, own) ==
  /\ g \in Totals
  /\ \A v \in Tokens \ {t} : g[v] = f[v]
  /\ g[t].withdrawn = f[t].withdrawn + out /\ g[t].kept = f[t].kept + own
  /\ g[t].deposited = f[t].deposited /\ g[t].committed = f[t].committed
  /\ g[t].shieldFees = f[t].shieldFees /\ g[t].released = f[t].released
  /\ g[t].twiceIn = f[t].twiceIn /\ g[t].twiceOut = f[t].twiceOut

(***************************************************************************)
(* The running totals stay natural numbers; what a shield adds to them.    *)
(***************************************************************************)
LEMMA ShieldTotals ==
  ASSUME NEW f \in Totals, NEW t \in Tokens, NEW u \in Tokens,
         NEW paid \in Nat, NEW fee \in Nat, NEW own \in Nat, NEW worth \in Nat
  PROVE  ShieldAdded(AddShield(f, t, u, paid, fee, own, worth),
                     f, t, u, paid, fee, own, worth)
<1> DEFINE g == AddShield(f, t, u, paid, fee, own, worth)
<1> DEFINE row == [f[t] EXCEPT !.deposited = f[t].deposited + paid,
                               !.shieldFees = f[t].shieldFees + fee,
                               !.kept = f[t].kept + own]
           h == [f EXCEPT ![t] = row]
           last == [h[u] EXCEPT !.committed = h[u].committed + worth]
<1>1. f[t] \in Row
  BY DEF Totals
<1>2. /\ row \in Row
      /\ row.deposited = f[t].deposited + paid /\ row.shieldFees = f[t].shieldFees + fee
      /\ row.kept = f[t].kept + own /\ row.committed = f[t].committed
      /\ row.released = f[t].released /\ row.withdrawn = f[t].withdrawn
      /\ row.twiceIn = f[t].twiceIn /\ row.twiceOut = f[t].twiceOut
  <2>1. /\ f[t].deposited + paid \in Nat /\ f[t].shieldFees + fee \in Nat
        /\ f[t].kept + own \in Nat
    BY <1>1 DEF Row
  <2> QED BY <1>1, <2>1 DEF Row
<1>3. g = [h EXCEPT ![u] = last]
  BY DEF AddShield
<1> HIDE DEF row, g
<1>4. h \in Totals /\ h[t] = row /\ \A v \in Tokens \ {t} : h[v] = f[v]
  BY <1>2 DEF Totals
<1> HIDE DEF h
<1>5. h[u] \in Row
  BY <1>4 DEF Totals
<1>6. /\ last \in Row /\ last.committed = h[u].committed + worth
      /\ last.deposited = h[u].deposited /\ last.shieldFees = h[u].shieldFees
      /\ last.kept = h[u].kept
      /\ last.released = h[u].released /\ last.withdrawn = h[u].withdrawn
      /\ last.twiceIn = h[u].twiceIn /\ last.twiceOut = h[u].twiceOut
  <2>1. h[u].committed + worth \in Nat
    BY <1>5 DEF Row
  <2> QED BY <1>5, <2>1 DEF Row
<1> HIDE DEF last
<1>7. g \in Totals /\ g[u] = last /\ \A v \in Tokens \ {u} : g[v] = h[v]
  BY <1>3, <1>4, <1>6 DEF Totals
<1>8. \A v \in Tokens :
        /\ g[v].released = h[v].released /\ g[v].withdrawn = h[v].withdrawn
        /\ g[v].twiceIn = h[v].twiceIn /\ g[v].twiceOut = h[v].twiceOut
        /\ g[v].deposited = h[v].deposited
        /\ g[v].shieldFees = h[v].shieldFees /\ g[v].kept = h[v].kept
  BY <1>6, <1>7
<1>9. \A v \in Tokens :
        /\ h[v].released = f[v].released /\ h[v].withdrawn = f[v].withdrawn
        /\ h[v].twiceIn = f[v].twiceIn /\ h[v].twiceOut = f[v].twiceOut
        /\ h[v].committed = f[v].committed
  BY <1>2, <1>4
<1>10. /\ g[t].deposited = f[t].deposited + paid
       /\ g[t].shieldFees = f[t].shieldFees + fee /\ g[t].kept = f[t].kept + own
  BY ONLY t \in Tokens, <1>2, <1>4, <1>8
<1>11. \A v \in Tokens \ {t} : g[v].deposited = f[v].deposited
              /\ g[v].shieldFees = f[v].shieldFees /\ g[v].kept = f[v].kept
  BY ONLY <1>4, <1>8
<1>12. \A v \in Tokens \ {u} : g[v].committed = f[v].committed
  BY ONLY <1>7, <1>9
<1>13. g[u].committed = f[u].committed + worth
  BY ONLY u \in Tokens, <1>6, <1>7, <1>9
<1>14. ShieldAdded(g, f, t, u, paid, fee, own, worth)
  BY ONLY <1>7, <1>8, <1>9, <1>10, <1>11, <1>12, <1>13 DEF ShieldAdded
<1> QED BY ONLY <1>14 DEF g

(***************************************************************************)
(* What a spend adds to the running totals.                                *)
(***************************************************************************)
LEMMA SpendTotals ==
  ASSUME NEW f \in Totals, NEW t \in Tokens,
         NEW out \in Nat, NEW own \in Nat, NEW ins \in Nat, NEW outs \in Nat
  PROVE  SpendAdded(AddSpend(f, t, out, own, ins, outs), f, t, out, own, ins, outs)
<1> DEFINE g == AddSpend(f, t, out, own, ins, outs)
<1> DEFINE row == [f[t] EXCEPT !.released = @ + out, !.kept = @ + own,
                               !.twiceIn = @ + ins, !.twiceOut = @ + outs]
<1>0. f \in Totals /\ t \in Tokens
  OBVIOUS
<1>1. f[t] \in Row
  BY DEF Totals
<1>2. /\ row \in Row
      /\ row.released = f[t].released + out /\ row.kept = f[t].kept + own
      /\ row.twiceIn = f[t].twiceIn + ins /\ row.twiceOut = f[t].twiceOut + outs
      /\ row.deposited = f[t].deposited /\ row.committed = f[t].committed
      /\ row.shieldFees = f[t].shieldFees /\ row.withdrawn = f[t].withdrawn
  <2>1. /\ f[t].released + out \in Nat /\ f[t].kept + own \in Nat
        /\ f[t].twiceIn + ins \in Nat /\ f[t].twiceOut + outs \in Nat
    BY <1>1 DEF Row
  <2> QED BY <1>1, <2>1 DEF Row
<1>3. g = [f EXCEPT ![t] = row]
  BY Zenon DEF AddSpend
<1> HIDE DEF row, g
<1>4. g \in Totals /\ g[t] = row /\ \A v \in Tokens \ {t} : g[v] = f[v]
  <2>1. /\ [f EXCEPT ![t] = row] \in Totals /\ [f EXCEPT ![t] = row][t] = row
        /\ \A v \in Tokens \ {t} : [f EXCEPT ![t] = row][v] = f[v]
    BY ONLY <1>0, <1>2 DEF Totals
  <2> QED BY ONLY <1>3, <2>1
<1>5. SpendAdded(g, f, t, out, own, ins, outs)
  BY <1>2, <1>4 DEF SpendAdded
<1> QED BY ONLY <1>5 DEF g

(***************************************************************************)
(* What an emergency withdrawal adds to the running totals.                *)
(***************************************************************************)
LEMMA WithdrawalTotals ==
  ASSUME NEW f \in Totals, NEW t \in Tokens, NEW out \in Nat, NEW own \in Nat
  PROVE  WithdrawalAdded(AddWithdrawal(f, t, out, own), f, t, out, own)
<1> DEFINE g == AddWithdrawal(f, t, out, own)
<1> DEFINE row == [f[t] EXCEPT !.withdrawn = f[t].withdrawn + out,
                               !.kept = f[t].kept + own]
<1>1. f[t] \in Row
  BY DEF Totals
<1>2. /\ row \in Row
      /\ row.withdrawn = f[t].withdrawn + out /\ row.kept = f[t].kept + own
      /\ row.deposited = f[t].deposited /\ row.committed = f[t].committed
      /\ row.shieldFees = f[t].shieldFees /\ row.released = f[t].released
      /\ row.twiceIn = f[t].twiceIn /\ row.twiceOut = f[t].twiceOut
  <2>1. f[t].withdrawn + out \in Nat /\ f[t].kept + own \in Nat
    BY <1>1 DEF Row
  <2> QED BY <1>1, <2>1 DEF Row
<1>3. g = [f EXCEPT ![t] = row]
  BY DEF AddWithdrawal
<1> HIDE DEF row, g
<1>4. g \in Totals /\ g[t] = row /\ \A v \in Tokens \ {t} : g[v] = f[v]
  BY <1>2, <1>3 DEF Totals
<1>5. WithdrawalAdded(g, f, t, out, own)
  BY <1>2, <1>4 DEF WithdrawalAdded
<1> QED BY ONLY <1>5 DEF g

(***************************************************************************)
(* Appending an element a sequence does not hold yet keeps its elements    *)
(* distinct.                                                               *)
(***************************************************************************)
LEMMA AppendDistinct ==
  ASSUME NEW S, NEW s \in Seq(S), NEW c \in S, IsInjective(s), c \notin Range(s)
  PROVE  /\ Append(s, c) \in Seq(S)
         /\ Len(Append(s, c)) = Len(s) + 1
         /\ Range(Append(s, c)) = Range(s) \cup {c}
         /\ IsInjective(Append(s, c))
<1> DEFINE u == Append(s, c)
<1>1. /\ u \in Seq(S) /\ Len(u) = Len(s) + 1 /\ Len(s) \in Nat
      /\ DOMAIN u = 1..Len(s) + 1 /\ DOMAIN s = 1..Len(s)
      /\ u[Len(s) + 1] = c
      /\ \A i \in 1..Len(s) : u[i] = s[i]
  OBVIOUS
<1> HIDE DEF u
<1>2. \A i \in DOMAIN u : i \in DOMAIN s \/ i = Len(s) + 1
  BY <1>1
<1>3. \A i \in DOMAIN s : i \in DOMAIN u /\ s[i] # c
  BY <1>1 DEF Range
<1>4. Len(s) + 1 \in DOMAIN u
  BY <1>1
<1>5. Range(u) = Range(s) \cup {c}
  BY <1>1, <1>2, <1>3, <1>4 DEF Range
<1>6. ASSUME NEW i \in DOMAIN u, NEW j \in DOMAIN u, u[i] = u[j]
      PROVE  i = j
  BY <1>1, <1>2, <1>3, <1>6 DEF IsInjective
<1>7. IsInjective(u)
  BY <1>6 DEF IsInjective
<1> QED BY <1>1, <1>5, <1>7 DEF u

(***************************************************************************)
(* What a spend inserts: its non-zero outputs, each once, after the leaves *)
(* that were there.                                                        *)
(***************************************************************************)
LEMMA WithLeafDistinct ==
  ASSUME NEW S, NEW s \in Seq(S), IsInjective(s),
         NEW c \in S \cup {Zero}, c # Zero => c \notin Range(s)
  PROVE  /\ WithLeaf(s, c) \in Seq(S)
         /\ Range(WithLeaf(s, c)) = Range(s) \cup NonZero({c})
         /\ IsInjective(WithLeaf(s, c))
<1>1. CASE c = Zero
  <2>1. WithLeaf(s, c) = s /\ NonZero({c}) = {}
    BY <1>1 DEF WithLeaf, NonZero
  <2> QED BY <2>1
<1>2. CASE c # Zero
  <2>1. WithLeaf(s, c) = Append(s, c) /\ NonZero({c}) = {c} /\ c \in S
    BY <1>2 DEF WithLeaf, NonZero
  <2>2. c \notin Range(s)
    BY <1>2
  <2>3. /\ Append(s, c) \in Seq(S) /\ Range(Append(s, c)) = Range(s) \cup {c}
        /\ IsInjective(Append(s, c))
    BY <2>1, <2>2, AppendDistinct
  <2> QED BY <2>1, <2>3
<1> QED BY <1>1, <1>2

(***************************************************************************)
(* The two insertions of a spend keep the leaves distinct when neither     *)
(* output is known and they differ: what the duplicate checks of spend are *)
(* for.                                                                    *)
(***************************************************************************)
LEMMA WithOutputsDistinct ==
  ASSUME NEW S, NEW s \in Seq(S), IsInjective(s),
         NEW outs \in Pairs(S), \A i \in 1..2 : outs[i] \notin Range(s)
  PROVE  /\ WithOutputs(s, outs) \in Seq(S)
         /\ Range(WithOutputs(s, outs)) = Range(s) \cup NonZero(Range(outs))
         /\ IsInjective(WithOutputs(s, outs))
<1> DEFINE t == WithLeaf(s, outs[1])
<1>1. /\ outs[1] \in S \cup {Zero} /\ outs[2] \in S \cup {Zero}
      /\ outs[1] = outs[2] => outs[1] = Zero
      /\ NonZero(Range(outs)) = NonZero({outs[1]}) \cup NonZero({outs[2]})
  BY DEF Pairs, Range, NonZero
<1>2. /\ t \in Seq(S)
      /\ Range(t) = Range(s) \cup NonZero({outs[1]})
      /\ IsInjective(t)
  <2> DEFINE c == outs[1]
  <2>1. c \in S \cup {Zero} /\ (c # Zero => c \notin Range(s))
    BY <1>1
  <2> HIDE DEF c
  <2>2. /\ WithLeaf(s, c) \in Seq(S)
        /\ Range(WithLeaf(s, c)) = Range(s) \cup NonZero({c})
        /\ IsInjective(WithLeaf(s, c))
    BY <2>1, WithLeafDistinct
  <2> QED BY <2>2 DEF c
<1>3. outs[2] # Zero => outs[2] \notin Range(t)
  BY <1>1, <1>2 DEF NonZero
<1>4. WithOutputs(s, outs) = WithLeaf(t, outs[2])
  BY DEF WithOutputs
<1> HIDE DEF t
<1>5. /\ WithLeaf(t, outs[2]) \in Seq(S)
      /\ Range(WithLeaf(t, outs[2])) = Range(t) \cup NonZero({outs[2]})
      /\ IsInjective(WithLeaf(t, outs[2]))
  BY <1>1, <1>2, <1>3, WithLeafDistinct
<1> QED BY <1>1, <1>2, <1>4, <1>5

(***************************************************************************)
(* What a spend inserts when nothing is known of its outputs: its non-zero *)
(* ones, after the leaves that were there.                                 *)
(***************************************************************************)
LEMMA WithLeafHolds ==
  ASSUME NEW s \in Seq(Commitment), NEW c \in Slot
  PROVE  /\ WithLeaf(s, c) \in Seq(Commitment)
         /\ Range(WithLeaf(s, c)) = Range(s) \cup NonZero({c})
         /\ \A i \in 1..Len(s) : WithLeaf(s, c)[i] = s[i]
         /\ c = Zero => Len(WithLeaf(s, c)) = Len(s)
         /\ c # Zero => /\ Len(WithLeaf(s, c)) = Len(s) + 1
                        /\ WithLeaf(s, c)[Len(s) + 1] = c
<1>1. CASE c = Zero
  <2>1. WithLeaf(s, c) = s /\ NonZero({c}) = {}
    BY <1>1 DEF WithLeaf, NonZero
  <2> QED BY <1>1, <2>1
<1>2. CASE c # Zero
  <2> DEFINE u == Append(s, c)
  <2>1. WithLeaf(s, c) = u /\ NonZero({c}) = {c} /\ c \in Commitment
    BY <1>2 DEF WithLeaf, NonZero, Slot
  <2>2. /\ u \in Seq(Commitment) /\ Len(u) = Len(s) + 1 /\ Len(s) \in Nat
        /\ DOMAIN u = 1..Len(s) + 1 /\ DOMAIN s = 1..Len(s)
        /\ u[Len(s) + 1] = c
        /\ \A i \in 1..Len(s) : u[i] = s[i]
    BY <2>1
  <2> HIDE DEF u
  <2>3. Range(u) = Range(s) \cup {c}
    <3>1. \A i \in DOMAIN u : i \in DOMAIN s \/ i = Len(s) + 1
      BY <2>2
    <3>2. Len(s) + 1 \in DOMAIN u /\ \A i \in DOMAIN s : i \in DOMAIN u
      BY <2>2
    <3> QED BY <2>2, <3>1, <3>2 DEF Range
  <2> QED BY <1>2, <2>1, <2>2, <2>3
<1> QED BY <1>1, <1>2

LEMMA WithOutputsHolds ==
  ASSUME NEW s \in Seq(Commitment), NEW outs \in [1..2 -> Slot]
  PROVE  /\ WithOutputs(s, outs) \in Seq(Commitment)
         /\ Range(WithOutputs(s, outs)) = Range(s) \cup NonZero(Range(outs))
<1> DEFINE t == WithLeaf(s, outs[1])
<1>1. /\ outs[1] \in Slot /\ outs[2] \in Slot
      /\ NonZero(Range(outs)) = NonZero({outs[1]}) \cup NonZero({outs[2]})
  BY DEF Range, NonZero
<1>2. t \in Seq(Commitment) /\ Range(t) = Range(s) \cup NonZero({outs[1]})
  BY <1>1, WithLeafHolds
<1> HIDE DEF t
<1>3. /\ WithLeaf(t, outs[2]) \in Seq(Commitment)
      /\ Range(WithLeaf(t, outs[2])) = Range(t) \cup NonZero({outs[2]})
  <2> DEFINE c == outs[2]
  <2>1. c \in Slot
    BY <1>1
  <2> HIDE DEF c
  <2>2. /\ WithLeaf(t, c) \in Seq(Commitment)
        /\ Range(WithLeaf(t, c)) = Range(t) \cup NonZero({c})
    <3>1. t \in Seq(Commitment)
      BY <1>2
    <3> QED BY ONLY <2>1, <3>1, WithLeafHolds
  <2> QED BY <2>2 DEF c
<1>4. WithOutputs(s, outs) = WithLeaf(t, outs[2])
  BY DEF WithOutputs, t
<1> QED BY <1>1, <1>2, <1>3, <1>4

-----------------------------------------------------------------------------
(***************************************************************************)
(* Every spent nullifier is that of a commitment the pool knows, revealed  *)
(* by the note's owner.                                                    *)
(***************************************************************************)
SpentWereKnown ==
  \A n \in spentNullifiers :
    n.commitment \in knownCommitments /\ n = Nullifier(n.commitment)

PoolRight == TypeOK /\ InsertedByOneCall /\ SpentWereKnown

\* The calls of Next, with the ranges of what they are given.
ShieldRange(p) == p.token \in Tokens /\ p.amount \in Nat /\ p.commitment \in Commitment

SpendRange(p, in, outs) ==
  /\ in \in [1..2 -> Range(leaves) \cup {Zero}]
  /\ outs \in [1..2 -> Slot]
  /\ p.token \in Tokens
  /\ p.nullifiers = [i \in 1..2 |-> SlotNullifier(in[i])]
  /\ p.newCommitments = outs
  /\ p.publicAmount \in Nat
  /\ p.recipient \in Addresses \cup {Zero}

(***************************************************************************)
(* Two leaves that are equal were inserted together: the invariant of a    *)
(* tree and a log, so that the proofs can speak of them after a call.      *)
(***************************************************************************)
ByOneCall(s, log) ==
  \A i, j \in 1..Len(s) : i < j /\ s[i] = s[j] =>
    /\ j = i + 1
    /\ \E e \in Range(log) : e.type = "Spent" /\ e.newCommitments = <<s[i], s[j]>>

LEMMA TreeUnfolded ==
  ASSUME Range(leaves) = knownCommitments, Len(leaves) <= Capacity,
         ByOneCall(leaves, events)
  PROVE  InsertedByOneCall
BY DEF InsertedByOneCall, ByOneCall

(***************************************************************************)
(* An event logged leaves those before it in the log.                      *)
(***************************************************************************)
LEMMA LogKeepsEvents ==
  ASSUME NEW S, NEW s \in Seq(S), NEW e \in S
  PROVE  Range(s) \cup {e} \subseteq Range(Append(s, e))
<1> DEFINE u == Append(s, e)
<1>1. /\ DOMAIN u = 1..Len(s) + 1 /\ DOMAIN s = 1..Len(s) /\ Len(s) \in Nat
      /\ u[Len(s) + 1] = e /\ \A i \in 1..Len(s) : u[i] = s[i]
  OBVIOUS
<1> HIDE DEF u
<1>2. Len(s) + 1 \in DOMAIN u /\ \A i \in DOMAIN s : i \in DOMAIN u /\ u[i] = s[i]
  BY <1>1
<1> QED BY <1>1, <1>2 DEF u, Range

(***************************************************************************)
(* A leaf the tree did not hold is not equal to one of its leaves.         *)
(***************************************************************************)
LEMMA NewLeafApart ==
  ASSUME NEW s \in Seq(Commitment), NEW c \in Commitment, c \notin Range(s),
         NEW log, NEW longer, ByOneCall(s, log), Range(log) \subseteq Range(longer)
  PROVE  ByOneCall(Append(s, c), longer)
<1> DEFINE u == Append(s, c)
<1>1. /\ Len(u) = Len(s) + 1 /\ Len(s) \in Nat
      /\ u[Len(s) + 1] = c /\ \A i \in 1..Len(s) : u[i] = s[i]
      /\ \A i \in 1..Len(s) : s[i] # c
  BY DEF Range
<1> HIDE DEF u
<1>2. ASSUME NEW i \in 1..Len(u), NEW j \in 1..Len(u), i < j, u[i] = u[j]
      PROVE  i \in 1..Len(s) /\ j \in 1..Len(s) /\ s[i] = s[j]
                /\ u[i] = s[i] /\ u[j] = s[j]
  <2>1. i \in 1..Len(s) /\ (j \in 1..Len(s) \/ j = Len(s) + 1)
    BY <1>1, <1>2
  <2>2. j # Len(s) + 1
    BY <1>1, <1>2, <2>1
  <2> QED BY <1>1, <1>2, <2>1, <2>2
<1>3. ByOneCall(u, longer)
  <2> SUFFICES ASSUME NEW i \in 1..Len(u), NEW j \in 1..Len(u), i < j, u[i] = u[j]
               PROVE  /\ j = i + 1
                      /\ \E e \in Range(longer) :
                           e.type = "Spent" /\ e.newCommitments = <<u[i], u[j]>>
    BY DEF ByOneCall
  <2>1. i \in 1..Len(s) /\ j \in 1..Len(s) /\ s[i] = s[j] /\ u[i] = s[i] /\ u[j] = s[j]
    BY <1>2
  <2>2. /\ j = i + 1
        /\ \E e \in Range(log) : e.type = "Spent" /\ e.newCommitments = <<s[i], s[j]>>
    BY <2>1 DEF ByOneCall
  <2> QED BY <2>1, <2>2
<1> QED BY <1>3 DEF u

(***************************************************************************)
(* The outputs of a spend, unknown before it, are equal to no other leaf   *)
(* than each other, and its event tells so.                                *)
(***************************************************************************)
LEMMA NewOutputsApart ==
  ASSUME NEW s \in Seq(Commitment), NEW outs \in [1..2 -> Slot],
         \A i \in 1..2 : outs[i] \notin Range(s),
         NEW log, NEW longer, ByOneCall(s, log), Range(log) \subseteq Range(longer),
         NEW e \in Range(longer), e.type = "Spent", e.newCommitments = outs
  PROVE  ByOneCall(WithOutputs(s, outs), longer)
<1> DEFINE t == WithLeaf(s, outs[1])
           u == WithLeaf(t, outs[2])
           n == Len(s)
<1>1. /\ outs[1] \in Slot /\ outs[2] \in Slot
      /\ \A i \in 1..2 : outs[i] # Zero => outs[i] \in Commitment
  BY DEF Slot
<1>2. /\ t \in Seq(Commitment) /\ n \in Nat
      /\ Range(t) = Range(s) \cup NonZero({outs[1]})
      /\ \A i \in 1..n : t[i] = s[i]
      /\ outs[1] = Zero => Len(t) = n
      /\ outs[1] # Zero => Len(t) = n + 1 /\ t[n + 1] = outs[1]
  <2> DEFINE c == outs[1]
  <2>1. c \in Slot
    BY <1>1
  <2> HIDE DEF c
  <2>2. /\ WithLeaf(s, c) \in Seq(Commitment)
        /\ Range(WithLeaf(s, c)) = Range(s) \cup NonZero({c})
        /\ \A i \in 1..n : WithLeaf(s, c)[i] = s[i]
        /\ c = Zero => Len(WithLeaf(s, c)) = n
        /\ c # Zero => Len(WithLeaf(s, c)) = n + 1 /\ WithLeaf(s, c)[n + 1] = c
    BY <2>1, WithLeafHolds
  <2> QED BY <2>2 DEF c
<1>3. ByOneCall(t, longer)
  <2>1. CASE outs[1] = Zero
    <3>1. t = s
      BY <2>1 DEF WithLeaf
    <3>2. ASSUME NEW i \in 1..Len(s), NEW j \in 1..Len(s), i < j, s[i] = s[j]
          PROVE  /\ j = i + 1
                 /\ \E d \in Range(longer) :
                      d.type = "Spent" /\ d.newCommitments = <<s[i], s[j]>>
      <4>1. /\ j = i + 1
            /\ \E d \in Range(log) : d.type = "Spent" /\ d.newCommitments = <<s[i], s[j]>>
        BY <3>2 DEF ByOneCall
      <4> QED BY <4>1
    <3>3. ByOneCall(s, longer)
      BY <3>2 DEF ByOneCall
    <3> QED BY <3>1, <3>3
  <2>2. CASE outs[1] # Zero
    <3> DEFINE c == outs[1]
    <3>1. c \in Commitment
      BY <1>1, <2>2
    <3>2. c \notin Range(s)
      OBVIOUS
    <3>3. t = Append(s, c)
      BY <2>2 DEF WithLeaf
    <3> HIDE DEF t, c
    <3> QED BY <3>1, <3>2, <3>3, NewLeafApart
  <2> QED BY <2>1, <2>2
<1>4. CASE outs[2] = Zero
  <2>1. u = t
    BY <1>4 DEF WithLeaf
  <2> QED BY <1>3, <2>1 DEF WithOutputs
<1>5. CASE outs[2] # Zero /\ outs[2] # outs[1]
  <2> HIDE DEF t
  <2>1. u = Append(t, outs[2]) /\ outs[2] \in Commitment
    BY <1>1, <1>5 DEF WithLeaf
  <2>2. outs[2] \notin Range(t)
    BY <1>2, <1>5 DEF NonZero
  <2>3. ByOneCall(Append(t, outs[2]), longer)
    BY <1>2, <1>3, <2>1, <2>2, NewLeafApart
  <2> QED BY <2>1, <2>3 DEF WithOutputs, t
<1>6. CASE outs[2] # Zero /\ outs[2] = outs[1]
  <2> DEFINE c == outs[2]
  <2>1. /\ c \in Commitment /\ c \notin Range(s) /\ Len(t) = n + 1 /\ t[n + 1] = c
        /\ e.newCommitments = <<c, c>>
    BY <1>1, <1>2, <1>6
  <2> HIDE DEF t
  <2>2. /\ Len(u) = n + 2 /\ u[n + 2] = c /\ u[n + 1] = c
        /\ \A i \in 1..n : u[i] = s[i]
        /\ \A i \in 1..n : s[i] # c
    <3>1. \A i \in 1..n : s[i] # c
      BY <2>1 DEF Range
    <3>2. /\ Len(u) = Len(t) + 1 /\ u[Len(t) + 1] = c
          /\ \A i \in 1..Len(t) : u[i] = t[i]
      BY <1>1, <1>2, <1>6, WithLeafHolds
    <3> HIDE DEF u
    <3> QED BY <1>2, <2>1, <3>1, <3>2
  <2> HIDE DEF u, c
  <2>3. ByOneCall(u, longer)
    <3> SUFFICES ASSUME NEW i \in 1..Len(u), NEW j \in 1..Len(u), i < j, u[i] = u[j]
                 PROVE  /\ j = i + 1
                        /\ \E d \in Range(longer) :
                             d.type = "Spent" /\ d.newCommitments = <<u[i], u[j]>>
      BY DEF ByOneCall
    <3>1. \/ i \in 1..n /\ j \in 1..n
          \/ i \in 1..n /\ j \in {n + 1, n + 2}
          \/ i = n + 1 /\ j = n + 2
      BY <1>2, <2>2
    <3>2. CASE i \in 1..n /\ j \in 1..n
      <4>1. /\ s[i] = s[j] /\ u[i] = s[i] /\ u[j] = s[j]
        BY <2>2, <3>2
      <4>2. /\ j = i + 1
            /\ \E d \in Range(log) : d.type = "Spent" /\ d.newCommitments = <<s[i], s[j]>>
        BY <3>2, <4>1 DEF ByOneCall
      <4> QED BY <4>1, <4>2
    <3>3. CASE i \in 1..n /\ j \in {n + 1, n + 2}
      BY <2>2, <3>3
    <3>4. CASE i = n + 1 /\ j = n + 2
      BY <1>2, <2>1, <2>2, <3>4
    <3> QED BY <3>1, <3>2, <3>3, <3>4
  <2> QED BY <2>3 DEF u, t, WithOutputs
<1> QED BY <1>4, <1>5, <1>6

-----------------------------------------------------------------------------
(***************************************************************************)
(* initialize establishes the invariant.                                   *)
(***************************************************************************)
LEMMA InitRight == Init => PoolRight
<1> SUFFICES ASSUME Init PROVE PoolRight
  OBVIOUS
<1>1. TypeOK
  <2>1. protocolFeeBps \in 0..MAX_FEE_BPS
    BY PoolAssumption DEF Init, MAX_FEE_BPS
  <2>2. balance \in Balances /\ feeRecipient \in Addresses
    BY PoolAssumption DEF Init, Balances, Addresses
  <2>3. leaves \in Seq(Commitment) /\ events \in Seq(EventType)
    BY DEF Init
  <2>4. totals \in Totals
    BY DEF Init, Totals, Row, NoTotals
  <2>5. whitelistedTokens \subseteq Tokens /\ paused \in BOOLEAN
        /\ knownCommitments = {} /\ spentNullifiers = {}
    BY PoolAssumption DEF Init
  <2> QED BY <2>1, <2>2, <2>3, <2>4, <2>5 DEF TypeOK, Balances, Totals, Row
<1>2. InsertedByOneCall
  <2>1. leaves = << >> /\ knownCommitments = {}
    BY DEF Init
  <2> QED BY <2>1, PoolAssumption DEF InsertedByOneCall, Range
<1>3. SpentWereKnown
  BY DEF Init, SpentWereKnown
<1> QED BY <1>1, <1>2, <1>3 DEF PoolRight

(***************************************************************************)
(* What a shield does to the tokens of the pool.                           *)
(***************************************************************************)
LEMMA ShieldBalance ==
  ASSUME TypeOK, NEW from \in Accounts, NEW p, ShieldRange(p), Shield(from, p),
         NEW fee, fee = ComputeFee(p.amount)
  PROVE  /\ fee \in 0..p.amount
         /\ balance' \in Balances
         /\ balance'[p.token][Pool]
              = balance[p.token][Pool] + p.amount - fee + ToItself(feeRecipient, fee)
         /\ ToItself(feeRecipient, fee) \in Nat
         /\ \A u \in Tokens \ {p.token} : balance'[u] = balance[u]
<1> DEFINE t == p.token
           amount == p.amount
           b == Moved(balance, t, from, Pool, amount)
<1>1. /\ balance \in Balances /\ t \in Tokens /\ amount \in Nat
      /\ from \in Addresses /\ Pool \in Addresses /\ from # Pool
      /\ feeRecipient \in Addresses
  BY PoolAssumption DEF TypeOK, Balances, Addresses, ShieldRange
<1>2. fee \in 0..amount
  BY <1>1, FeeBounded DEF TypeOK
<1>3. amount <= balance[t][from] /\ balance' = Moved(b, t, Pool, feeRecipient, fee)
  BY DEF Shield, ShieldAccepted, Covered
<1> HIDE DEF t, amount
<1>4. /\ b \in Balances /\ b[t][Pool] = balance[t][Pool] + amount
      /\ \A u \in Tokens \ {t} : b[u] = balance[u]
  BY <1>1, <1>3, MovedIsBalances
<1> HIDE DEF b
<1>5. balance[t][Pool] \in Nat
  BY <1>1 DEF Balances
<1>6. fee \in Nat /\ fee <= b[t][Pool]
  BY <1>1, <1>2, <1>4, <1>5
<1>7. /\ balance' \in Balances
      /\ balance'[t][Pool] = b[t][Pool] - fee + ToItself(feeRecipient, fee)
      /\ \A u \in Tokens \ {t} : balance'[u] = b[u]
      /\ ToItself(feeRecipient, fee) \in 0..fee
  BY <1>1, <1>3, <1>4, <1>6, PoolPays
<1>8. \A u \in Tokens \ {t} : balance'[u] = balance[u]
  BY <1>4, <1>7
<1>9. ToItself(feeRecipient, fee) \in Nat
  BY <1>6, <1>7
<1>10. balance'[t][Pool] = balance[t][Pool] + amount - fee + ToItself(feeRecipient, fee)
  <2> DEFINE own == ToItself(feeRecipient, fee)
  <2>1. /\ b[t][Pool] = balance[t][Pool] + amount
        /\ balance'[t][Pool] = b[t][Pool] - fee + own
    BY <1>4, <1>7
  <2>2. fee \in Nat /\ amount \in Nat /\ balance[t][Pool] \in Nat /\ own \in Nat
    BY <1>1, <1>5, <1>6, <1>9
  <2> HIDE DEF own
  <2>3. balance'[t][Pool] = balance[t][Pool] + amount - fee + own
    BY ONLY <2>1, <2>2
  <2> QED BY <2>3 DEF own
<1> QED BY <1>2, <1>7, <1>8, <1>9, <1>10 DEF t, amount

(***************************************************************************)
(* What a shield counts.                                                   *)
(***************************************************************************)
LEMMA ShieldCounts ==
  ASSUME TypeOK, NEW from \in Accounts, NEW p, ShieldRange(p), Shield(from, p),
         NEW t, NEW c, NEW fee, t = p.token, c = p.commitment, fee = ComputeFee(p.amount)
  PROVE  ShieldAdded(totals', totals, t, c.token, p.amount, fee,
                     ToItself(feeRecipient, fee), c.amount)
<1> DEFINE amount == p.amount
           own == ToItself(feeRecipient, fee)
           u == c.token
           worth == c.amount
<1>1. /\ totals \in Totals /\ t \in Tokens /\ u \in Tokens /\ worth \in Nat
      /\ amount \in Nat
  BY PoolAssumption DEF TypeOK, Totals, Row, ShieldRange, Commitment
<1>2. fee \in Nat /\ own \in Nat
  BY ShieldBalance, <1>1
<1>3. totals' = AddShield(totals, t, u, amount, fee, own, worth)
  BY DEF Shield, AddShield
<1> HIDE DEF amount, own, u, worth
<1>4. ShieldAdded(totals', totals, t, u, amount, fee, own, worth)
  BY ONLY <1>1, <1>2, <1>3, ShieldTotals
<1> QED BY ONLY <1>4 DEF amount, own, u, worth

(***************************************************************************)
(* shield preserves the invariant.                                         *)
(***************************************************************************)
LEMMA ShieldKeepsRight ==
  ASSUME PoolRight, NEW from \in Accounts, NEW p, ShieldRange(p), Shield(from, p)
  PROVE  PoolRight'
<1> DEFINE c == p.commitment
           fee == ComputeFee(p.amount)
           e == [type |-> "Shielded", token |-> p.token,
                 netAmount |-> p.amount - fee, fee |-> fee,
                 commitment |-> c, leafIndex |-> Len(leaves)]
<1>0. TypeOK /\ InsertedByOneCall /\ SpentWereKnown
  BY DEF PoolRight
<1>1. p.token \in Tokens /\ p.amount \in Nat /\ c \in Commitment
  BY DEF ShieldRange
<1>2. /\ c \notin knownCommitments
      /\ Len(leaves) < Capacity
      /\ knownCommitments' = knownCommitments \cup {c}
      /\ leaves' = Append(leaves, c)
      /\ spentNullifiers' = spentNullifiers
      /\ events' = Append(events, e)
      /\ UNCHANGED adminVars
  BY DEF Shield, ShieldAccepted
<1>3. fee \in 0..p.amount /\ balance' \in Balances
  BY <1>0, ShieldBalance
<1>4. e \in EventType
  <2>1. p.amount - fee \in Nat /\ fee \in Nat
    BY <1>1, <1>3
  <2>2. Len(leaves) \in Nat
    BY <1>0 DEF TypeOK
  <2> HIDE DEF fee, c
  <2> QED BY <1>1, <2>1, <2>2 DEF EventType
<1>5. totals' \in Totals
  BY <1>0, ShieldCounts DEF ShieldAdded
<1> HIDE DEF c, e, fee
<1>6. TypeOK'
  <2>1. /\ leaves' \in Seq(Commitment) /\ knownCommitments' \subseteq Commitment
        /\ spentNullifiers' \subseteq {Nullifier(n) : n \in Commitment}
        /\ events' \in Seq(EventType)
    BY <1>0, <1>1, <1>2, <1>4 DEF TypeOK
  <2>2. /\ whitelistedTokens' \subseteq Tokens
        /\ protocolFeeBps' \in 0..MAX_FEE_BPS
        /\ feeRecipient' \in Addresses
        /\ paused' \in BOOLEAN
    BY <1>0, <1>2 DEF TypeOK, adminVars
  <2> QED BY <1>3, <1>5, <2>1, <2>2 DEF TypeOK, Balances, Totals, Row
<1>7. InsertedByOneCall'
  <2>1. /\ leaves \in Seq(Commitment) /\ Range(leaves) = knownCommitments
        /\ ByOneCall(leaves, events) /\ c \notin Range(leaves)
        /\ events \in Seq(EventType)
    BY <1>0, <1>2 DEF InsertedByOneCall, ByOneCall, TypeOK
  <2>2. Range(events) \subseteq Range(events')
    BY <1>2, <1>4, <2>1, LogKeepsEvents
  <2>3. ByOneCall(Append(leaves, c), events')
    BY <1>1, <2>1, <2>2, NewLeafApart
  <2>4. /\ Len(Append(leaves, c)) = Len(leaves) + 1 /\ Len(leaves) \in Nat
        /\ Range(Append(leaves, c)) = Range(leaves) \cup {c}
    <3>1. c # Zero /\ WithLeaf(leaves, c) = Append(leaves, c) /\ NonZero({c}) = {c}
      BY <1>1, ZeroIsNoHash DEF WithLeaf, NonZero
    <3>2. c \in Slot
      BY <1>1 DEF Slot
    <3>3. leaves \in Seq(Commitment) /\ Len(leaves) \in Nat
      BY <2>1
    <3> QED BY ONLY <3>1, <3>2, <3>3, WithLeafHolds
  <2>5. Len(leaves') <= Capacity
    BY <1>2, <2>4, PoolAssumption
  <2>6. ByOneCall(leaves', events')
    BY <1>2, <2>3
  <2>7. Range(leaves') = knownCommitments'
    BY <1>2, <2>1, <2>4
  <2> QED BY <2>5, <2>6, <2>7 DEF InsertedByOneCall, ByOneCall
<1>8. SpentWereKnown'
  BY <1>0, <1>2 DEF SpentWereKnown
<1> QED BY <1>6, <1>7, <1>8 DEF PoolRight

(***************************************************************************)
(* The nullifiers a spend marks are those of its input notes.              *)
(***************************************************************************)
LEMMA MarkedNullifiers ==
  ASSUME NEW in, DOMAIN in = 1..2
  PROVE  NonZero(Range([i \in 1..2 |-> SlotNullifier(in[i])]))
           \subseteq {Nullifier(c) : c \in NonZero(Range(in))}
<1> DEFINE ns == [i \in 1..2 |-> SlotNullifier(in[i])]
<1> SUFFICES ASSUME NEW n \in NonZero(Range(ns))
             PROVE  n \in {Nullifier(c) : c \in NonZero(Range(in))}
  OBVIOUS
<1>1. PICK i \in 1..2 : n = SlotNullifier(in[i])
  BY DEF NonZero, Range
<1>2. n # Zero /\ in[i] \in Range(in)
  BY DEF NonZero, Range
<1>3. in[i] # Zero /\ n = Nullifier(in[i])
  BY <1>1, <1>2 DEF SlotNullifier
<1> QED BY <1>2, <1>3 DEF NonZero

(***************************************************************************)
(* What a spend does to the tokens of the pool: the public amount leaves   *)
(* it, but for what comes back, whatever the fee in it.                    *)
(***************************************************************************)
LEMMA SpendBalance ==
  ASSUME TypeOK, NEW p, NEW in, NEW outs, SpendRange(p, in, outs), Spend(in, p)
  PROVE  /\ balance' \in Balances
         /\ balance'[p.token][Pool]
              = balance[p.token][Pool] - p.publicAmount
                  + ReleasedToItself(p.publicAmount, p.recipient)
         /\ ReleasedToItself(p.publicAmount, p.recipient) \in Nat
         /\ \A u \in Tokens \ {p.token} : balance'[u] = balance[u]
<1> DEFINE t == p.token
           amount == p.publicAmount
           to == p.recipient
           fee == ComputeFee(amount)
           rest == amount - fee
           b == Moved(balance, t, Pool, feeRecipient, fee)
<1>1. /\ balance \in Balances /\ t \in Tokens /\ amount \in Nat
      /\ to \in Addresses \cup {Zero}
      /\ Pool \in Addresses /\ feeRecipient \in Addresses
  BY DEF TypeOK, Balances, Addresses, SpendRange
<1>2. /\ amount > 0 => to # Zero /\ amount <= balance[t][Pool]
      /\ balance' = IF amount > 0 THEN Moved(b, t, Pool, to, rest) ELSE balance
  BY DEF Spend, SpendAccepted, Covered, Release
<1>3. balance[t][Pool] \in Nat
  BY <1>1 DEF Balances
<1>4. fee \in 0..amount
  BY <1>1, FeeBounded DEF TypeOK
<1>0. fee \in Nat /\ fee <= amount
  BY <1>1, <1>4
<1>5. ReleasedToItself(amount, to) = ToItself(feeRecipient, fee) + ToItself(to, rest)
  BY DEF ReleasedToItself
<1> HIDE DEF fee, t, amount, to
<1>6. CASE amount = 0
  <2>1. fee = 0 /\ rest = 0
    BY <1>0, <1>1, <1>6
  <2>2. ToItself(feeRecipient, fee) = 0 /\ ToItself(to, rest) = 0
    BY <2>1 DEF ToItself
  <2> HIDE DEF rest
  <2>3. ReleasedToItself(amount, to) = 0
    BY <1>5, <2>2
  <2>4. balance' = balance
    BY <1>2, <1>6
  <2>5. /\ balance' \in Balances /\ ReleasedToItself(amount, to) \in Nat
        /\ balance'[t][Pool] = balance[t][Pool] - amount + ReleasedToItself(amount, to)
        /\ \A u \in Tokens \ {t} : balance'[u] = balance[u]
    BY <1>1, <1>3, <1>6, <2>3, <2>4
  <2> QED BY <2>5 DEF t, amount, to
<1>7. CASE amount > 0
  <2>1. /\ fee \in Nat /\ fee <= balance[t][Pool] /\ rest \in Nat
        /\ rest <= balance[t][Pool] - fee /\ rest = amount - fee
        /\ to \in Addresses
    BY <1>1, <1>2, <1>3, <1>4, <1>7
  <2>2. /\ b \in Balances
        /\ b[t][Pool] = balance[t][Pool] - fee + ToItself(feeRecipient, fee)
        /\ \A u \in Tokens \ {t} : b[u] = balance[u]
        /\ ToItself(feeRecipient, fee) \in 0..fee
    BY <1>1, <2>1, PoolPays
  <2>3. balance' = Moved(b, t, Pool, to, rest)
    BY <1>2, <1>7
  <2> DEFINE own == ToItself(feeRecipient, fee)
             back == ToItself(to, rest)
  <2> HIDE DEF b, rest
  <2>4. rest <= b[t][Pool]
    <3> HIDE DEF own
    <3> QED BY <1>3, <2>1, <2>2 DEF own
  <2>5. /\ balance' \in Balances
        /\ balance'[t][Pool] = b[t][Pool] - rest + back
        /\ \A u \in Tokens \ {t} : balance'[u] = b[u]
        /\ back \in 0..rest
    BY <1>1, <2>1, <2>2, <2>3, <2>4, PoolPays
  <2>6. \A u \in Tokens \ {t} : balance'[u] = balance[u]
    BY <2>2, <2>5
  <2>7. ReleasedToItself(amount, to) = own + back
    BY <1>5
  <2>8. own \in 0..fee /\ b[t][Pool] = balance[t][Pool] - fee + own
    BY <2>2
  <2> HIDE DEF own, back
  <2>9. /\ own + back \in Nat
        /\ balance'[t][Pool] = balance[t][Pool] - amount + (own + back)
    BY <1>1, <1>3, <2>1, <2>5, <2>8
  <2>10. /\ balance'[t][Pool] = balance[t][Pool] - amount + ReleasedToItself(amount, to)
         /\ ReleasedToItself(amount, to) \in Nat
    BY <2>7, <2>9
  <2> QED BY <2>5, <2>6, <2>10 DEF t, amount, to
<1> QED BY <1>1, <1>6, <1>7

(***************************************************************************)
(* What a spend counts.                                                    *)
(***************************************************************************)
LEMMA SpendCounts ==
  ASSUME TypeOK, NEW p, NEW in, NEW outs, SpendRange(p, in, outs), Spend(in, p)
  PROVE  /\ Repeated(in) \in Nat /\ Repeated(outs) \in Nat
         /\ SpendAdded(totals', totals, p.token, p.publicAmount,
                       ReleasedToItself(p.publicAmount, p.recipient),
                       Repeated(in), Repeated(outs))
<1> DEFINE t == p.token
           amount == p.publicAmount
           own == ReleasedToItself(amount, p.recipient)
           i == Repeated(in)
           o == Repeated(outs)
<1>1. totals \in Totals /\ t \in Tokens /\ amount \in Nat
  BY DEF TypeOK, Totals, Row, SpendRange
<1>2. i \in Nat /\ o \in Nat
  <2>1. in[1] \in Slot /\ outs[1] \in Slot
    BY DEF SpendRange, TypeOK, Range, Slot
  <2>2. \A c \in Slot : SlotAmount(c) \in Nat
    BY PoolAssumption DEF Slot, SlotAmount, Commitment
  <2> QED BY <2>1, <2>2 DEF Repeated
<1>3. own \in Nat
  BY SpendBalance
<1>4. totals' = AddSpend(totals, t, amount, own, i, o)
  BY DEF Spend, AddSpend, SpendRange
<1> HIDE DEF t, amount, own, i, o
<1>5. SpendAdded(totals', totals, t, amount, own, i, o)
  BY ONLY <1>1, <1>2, <1>3, <1>4, SpendTotals
<1> QED BY ONLY <1>2, <1>5 DEF t, amount, own, i, o

(***************************************************************************)
(* spend preserves the invariant.                                          *)
(***************************************************************************)
LEMMA SpendKeepsRight ==
  ASSUME PoolRight, NEW p, NEW in, NEW outs, SpendRange(p, in, outs), Spend(in, p)
  PROVE  PoolRight'
<1> DEFINE e == [type |-> "Spent", token |-> p.token, nullifiers |-> p.nullifiers,
                 newCommitments |-> p.newCommitments,
                 publicAmount |-> p.publicAmount]
<1>0. TypeOK /\ InsertedByOneCall /\ SpentWereKnown
  BY DEF PoolRight
<1>1. /\ in \in [1..2 -> Range(leaves) \cup {Zero}]
      /\ outs \in [1..2 -> Slot]
      /\ p.token \in Tokens /\ p.publicAmount \in Nat
      /\ p.newCommitments = outs
      /\ p.nullifiers = [i \in 1..2 |-> SlotNullifier(in[i])]
  BY DEF SpendRange
<1>2. /\ leaves \in Seq(Commitment) /\ Range(leaves) \subseteq Commitment
      /\ Range(leaves) = knownCommitments /\ ByOneCall(leaves, events)
      /\ events \in Seq(EventType)
  BY <1>0 DEF TypeOK, Range, InsertedByOneCall, ByOneCall
<1>3. /\ \A i \in 1..2 : outs[i] \notin knownCommitments
      /\ Len(WithOutputs(leaves, outs)) <= Capacity
      /\ leaves' = WithOutputs(leaves, outs)
      /\ knownCommitments' = knownCommitments \cup NonZero(Range(outs))
      /\ spentNullifiers' = spentNullifiers \cup NonZero(Range(p.nullifiers))
      /\ events' = Append(events, e)
      /\ UNCHANGED adminVars
  BY <1>1 DEF Spend, SpendAccepted, NewOutputs, RoomFor
<1>4. NonZero(Range(p.nullifiers)) \subseteq
        {Nullifier(c) : c \in NonZero(Range(in))}
  BY <1>1, MarkedNullifiers
<1>5. NonZero(Range(in)) \subseteq Range(leaves)
  BY <1>1 DEF Range, NonZero
<1>6. NonZero(Range(outs)) \subseteq Commitment
  BY <1>1 DEF Range, NonZero, Slot
<1>7. balance' \in Balances
  BY <1>0, SpendBalance
<1>8. e \in EventType
  <2>1. p.nullifiers \in [1..2 -> {Nullifier(c) : c \in Commitment} \cup {Zero}]
    BY <1>1, <1>2 DEF SlotNullifier
  <2> QED BY <1>1, <2>1 DEF EventType
<1>9. totals' \in Totals
  BY <1>0, SpendCounts DEF SpendAdded
<1>10. e \in Range(events') /\ Range(events) \subseteq Range(events')
         /\ e.type = "Spent" /\ e.newCommitments = outs
  <2>1. e.type = "Spent" /\ e.newCommitments = outs
    BY <1>1
  <2> HIDE DEF e
  <2> QED BY <1>2, <1>3, <1>8, <2>1, LogKeepsEvents
<1> HIDE DEF e
<1>11. /\ WithOutputs(leaves, outs) \in Seq(Commitment)
       /\ Range(WithOutputs(leaves, outs)) = Range(leaves) \cup NonZero(Range(outs))
  BY <1>1, <1>2, WithOutputsHolds
<1>12. InsertedByOneCall'
  <2>1. \A i \in 1..2 : outs[i] \notin Range(leaves)
    BY <1>2, <1>3
  <2>2. ByOneCall(WithOutputs(leaves, outs), events')
    BY <1>1, <1>2, <1>10, <2>1, NewOutputsApart
  <2>3. ByOneCall(leaves', events')
    BY <1>3, <2>2
  <2>4. Range(leaves') = knownCommitments' /\ Len(leaves') <= Capacity
    BY <1>2, <1>3, <1>11
  <2> QED BY <2>3, <2>4 DEF InsertedByOneCall, ByOneCall
<1>13. TypeOK'
  <2>1. leaves' \in Seq(Commitment) /\ events' \in Seq(EventType)
    BY <1>2, <1>3, <1>8, <1>11
  <2>2. knownCommitments' \subseteq Commitment
    BY <1>2, <1>3, <1>6
  <2>3. spentNullifiers' \subseteq {Nullifier(n) : n \in Commitment}
    BY <1>0, <1>2, <1>3, <1>4, <1>5 DEF TypeOK
  <2>4. /\ whitelistedTokens' \subseteq Tokens
        /\ protocolFeeBps' \in 0..MAX_FEE_BPS
        /\ feeRecipient' \in Addresses
        /\ paused' \in BOOLEAN
    BY <1>0, <1>3 DEF TypeOK, adminVars
  <2> QED BY <1>7, <1>9, <2>1, <2>2, <2>3, <2>4 DEF TypeOK, Balances, Totals, Row
<1>14. SpentWereKnown'
  <2> SUFFICES ASSUME NEW n \in spentNullifiers'
               PROVE  /\ n.commitment \in knownCommitments'
                      /\ n = Nullifier(n.commitment)
    BY DEF SpentWereKnown
  <2>1. CASE n \in spentNullifiers
    BY <1>0, <1>3, <2>1 DEF SpentWereKnown
  <2>2. CASE n \notin spentNullifiers
    <3>1. PICK c \in Range(leaves) : n = Nullifier(c)
      BY <1>3, <1>4, <1>5, <2>2
    <3>2. n.commitment = c
      BY <3>1 DEF Nullifier
    <3> QED BY <1>2, <1>3, <3>1, <3>2
  <2> QED BY <2>1, <2>2
<1> QED BY <1>12, <1>13, <1>14 DEF PoolRight

(***************************************************************************)
(* The administrators' calls preserve the invariant.                       *)
(***************************************************************************)
LEMMA AdminRight ==
  ASSUME PoolRight, UNCHANGED <<treeVars, balance, logVars>>,
         whitelistedTokens' \subseteq Tokens,
         protocolFeeBps' \in 0..MAX_FEE_BPS,
         feeRecipient' \in Addresses,
         paused' \in BOOLEAN
  PROVE  PoolRight'
<1>1. UNCHANGED <<leaves, knownCommitments, spentNullifiers, balance, events, totals>>
  BY DEF treeVars, logVars
<1>2. TypeOK'
  BY <1>1 DEF PoolRight, TypeOK
<1>3. InsertedByOneCall' /\ SpentWereKnown'
  BY <1>1 DEF PoolRight, InsertedByOneCall, SpentWereKnown
<1> QED BY <1>2, <1>3 DEF PoolRight

(***************************************************************************)
(* What an emergency withdrawal takes from the pool, and counts.           *)
(***************************************************************************)
LEMMA WithdrawalBalance ==
  ASSUME TypeOK, NEW t \in Tokens, NEW to \in Addresses, NEW amount \in Amounts,
         EmergencyWithdraw(t, to, amount)
  PROVE  /\ balance' \in Balances /\ amount \in Nat /\ ToItself(to, amount) \in Nat
         /\ balance'[t][Pool] = balance[t][Pool] - amount + ToItself(to, amount)
         /\ \A u \in Tokens \ {t} : balance'[u] = balance[u]
         /\ WithdrawalAdded(totals', totals, t, amount, ToItself(to, amount))
<1> DEFINE own == ToItself(to, amount)
<1>1. /\ amount \in Nat /\ amount <= balance[t][Pool]
      /\ balance \in Balances /\ totals \in Totals
      /\ balance' = Moved(balance, t, Pool, to, amount)
      /\ totals' = AddWithdrawal(totals, t, amount, own)
  BY PoolAssumption
  DEF EmergencyWithdraw, Covered, TypeOK, Balances, Totals, Row, AddWithdrawal
<1>2. /\ balance' \in Balances
      /\ balance'[t][Pool] = balance[t][Pool] - amount + own
      /\ \A u \in Tokens \ {t} : balance'[u] = balance[u]
      /\ own \in 0..amount
  BY <1>1, PoolPays
<1>3. own \in Nat
  BY <1>1, <1>2
<1> HIDE DEF own
<1>4. WithdrawalAdded(totals', totals, t, amount, own)
  BY <1>1, <1>3, WithdrawalTotals
<1> QED BY <1>1, <1>2, <1>3, <1>4 DEF own

(***************************************************************************)
(* An emergency withdrawal preserves the invariant: it takes what the pool *)
(* holds and leaves the notes alone.                                       *)
(***************************************************************************)
LEMMA EmergencyWithdrawRight ==
  ASSUME PoolRight, NEW t \in Tokens, NEW to \in Addresses, NEW amount \in Amounts,
         EmergencyWithdraw(t, to, amount)
  PROVE  PoolRight'
<1> DEFINE e == [type |-> "EmergencyWithdrawal", token |-> t, amount |-> amount]
<1>0. TypeOK /\ InsertedByOneCall /\ SpentWereKnown
  BY DEF PoolRight
<1>1. /\ events' = Append(events, e)
      /\ UNCHANGED <<leaves, knownCommitments, spentNullifiers>>
      /\ UNCHANGED <<whitelistedTokens, protocolFeeBps, feeRecipient, paused>>
  BY DEF EmergencyWithdraw, treeVars, adminVars
<1>2. balance' \in Balances /\ totals' \in Totals /\ amount \in Nat
  BY <1>0, WithdrawalBalance DEF WithdrawalAdded
<1>3. e \in EventType
  BY <1>2 DEF EventType
<1> HIDE DEF e
<1>4. events \in Seq(EventType) /\ events' \in Seq(EventType)
        /\ Range(events) \subseteq Range(events')
  BY <1>0, <1>1, <1>3, LogKeepsEvents DEF TypeOK
<1>5. TypeOK'
  BY <1>0, <1>1, <1>2, <1>4 DEF TypeOK, Balances, Totals, Row
<1>6. InsertedByOneCall'
  <2>1. /\ Range(leaves) = knownCommitments /\ Len(leaves) <= Capacity
        /\ ByOneCall(leaves, events)
    BY <1>0 DEF InsertedByOneCall, ByOneCall
  <2>2. ByOneCall(leaves, events')
    BY <1>4, <2>1 DEF ByOneCall
  <2>3. /\ Range(leaves') = knownCommitments' /\ Len(leaves') <= Capacity
        /\ ByOneCall(leaves', events')
    BY <1>1, <2>1, <2>2
  <2> QED BY <2>3 DEF InsertedByOneCall, ByOneCall
<1>7. SpentWereKnown'
  BY <1>0, <1>1 DEF SpentWereKnown
<1> QED BY <1>5, <1>6, <1>7 DEF PoolRight

(***************************************************************************)
(* What the callers of Next give is in range.                              *)
(***************************************************************************)
LEMMA AnyShieldRange ==
  ASSUME AnyShield
  PROVE  \E from \in Accounts : \E p :
           ShieldRange(p) /\ p.amount \in Amounts /\ Shield(from, p)
<1>1. PICK from \in Accounts, t \in Tokens, amount \in Amounts, c \in Commitment :
        Shield(from, [token |-> t, amount |-> amount, commitment |-> c])
  BY DEF AnyShield
<1> DEFINE p == [token |-> t, amount |-> amount, commitment |-> c]
<1>2. ShieldRange(p) /\ p.amount \in Amounts
  BY PoolAssumption DEF ShieldRange
<1> HIDE DEF p
<1> QED BY <1>1, <1>2 DEF p

LEMMA AnySpendRange ==
  ASSUME AnySpend
  PROVE  \E p, in, outs : SpendRange(p, in, outs) /\ Spend(in, p)
<1>1. PICK n \in {Len(leaves) - 1, Len(leaves)} \cap Nat, t \in Tokens,
           in \in [1..2 -> Range(leaves) \cup {Zero}], outs \in [1..2 -> Slot],
           amount \in Amounts \cup {0}, to \in Addresses \cup {Zero} :
             Spend(in, SpendCall(n, t, in, outs, amount, to))
  BY DEF AnySpend
<1> DEFINE p == SpendCall(n, t, in, outs, amount, to)
<1>2. SpendRange(p, in, outs)
  BY PoolAssumption DEF SpendRange, SpendCall
<1> HIDE DEF p
<1> QED BY <1>1, <1>2 DEF p

-----------------------------------------------------------------------------
(***************************************************************************)
(* Every call preserves the invariant, whatever it is given.               *)
(***************************************************************************)
LEMMA NextRight == PoolRight /\ [Next]_poolVars => PoolRight'
<1> SUFFICES ASSUME PoolRight, [Next]_poolVars PROVE PoolRight'
  OBVIOUS
<1>0. /\ whitelistedTokens \subseteq Tokens
      /\ protocolFeeBps \in 0..MAX_FEE_BPS
      /\ feeRecipient \in Addresses
      /\ paused \in BOOLEAN
  BY DEF PoolRight, TypeOK
<1>1. CASE AnyShield
  BY <1>1, AnyShieldRange, ShieldKeepsRight
<1>2. CASE AnySpend
  BY <1>2, AnySpendRange, SpendKeepsRight
<1>3. CASE \E t \in Tokens : WhitelistToken(t) \/ DelistToken(t)
  BY <1>0, <1>3, AdminRight DEF WhitelistToken, DelistToken
<1>4. CASE Pause \/ Unpause
  BY <1>0, <1>4, AdminRight DEF Pause, Unpause
<1>5. CASE \E bps \in FeeChoices : SetProtocolFee(bps)
  <2>1. PICK bps \in FeeChoices : SetProtocolFee(bps)
    BY <1>5
  <2>2. protocolFeeBps' \in 0..MAX_FEE_BPS
    BY <2>1, PoolAssumption DEF SetProtocolFee, MAX_FEE_BPS
  <2> QED BY <1>0, <2>1, <2>2, AdminRight DEF SetProtocolFee
<1>6. CASE \E a \in Addresses : SetFeeRecipient(a)
  BY <1>0, <1>6, AdminRight DEF SetFeeRecipient
<1>7. CASE \E t \in Tokens, to \in Addresses, amount \in Amounts :
             EmergencyWithdraw(t, to, amount)
  BY <1>7, EmergencyWithdrawRight
<1>8. CASE UNCHANGED poolVars
  BY <1>0, <1>8, AdminRight DEF poolVars, adminVars
<1> QED BY <1>1, <1>2, <1>3, <1>4, <1>5, <1>6, <1>7, <1>8 DEF Next

(***************************************************************************)
(* The invariant the other results rest on: the types, a tree and a        *)
(* mapping in step, and spent nullifiers of known notes only.              *)
(***************************************************************************)
THEOREM PoolInvariant == Spec => []PoolRight
<1> QED BY InitRight, NextRight, PTL DEF Spec

(***************************************************************************)
(* Type correctness: balances stay natural numbers, so no transfer, fee or *)
(* release ever underflows, and the fee stays within MAX_FEE_BPS.          *)
(***************************************************************************)
THEOREM TypeCorrect == Spec => []TypeOK
<1>1. PoolRight => TypeOK
  BY DEF PoolRight
<1> QED BY <1>1, PoolInvariant, PTL

(***************************************************************************)
(* Whoever calls: the tree holds the known commitments, within its         *)
(* capacity, each inserted by one call, and two leaves are equal only as   *)
(* the two outputs of one spend.                                           *)
(***************************************************************************)
THEOREM TreeCorrect == Spec => []InsertedByOneCall
<1>1. PoolRight => InsertedByOneCall
  BY DEF PoolRight
<1> QED BY <1>1, PoolInvariant, PTL

-----------------------------------------------------------------------------
(***************************************************************************)
(* The pool implements the note ledger.                                    *)
(***************************************************************************)
Consumed == {n.commitment : n \in spentNullifiers}
DepositedOf == [t \in Tokens |-> totals[t].deposited]
ReleasedOf == [t \in Tokens |-> totals[t].released]

(***************************************************************************)
(* A pool just initialized is an empty ledger.                             *)
(***************************************************************************)
LEMMA LedgerInitially == Init => Ledger!LedgerInit
BY DEF Init, NoTotals, Ledger!LedgerInit

(***************************************************************************)
(* A step that leaves the tree and both totals alone is a stutter of the   *)
(* ledger: every administrative call.                                      *)
(***************************************************************************)
LEMMA LedgerStutters ==
  ASSUME UNCHANGED treeVars, DepositedOf' = DepositedOf, ReleasedOf' = ReleasedOf
  PROVE  UNCHANGED Ledger!ledgerVars
BY DEF treeVars, DepositedOf, ReleasedOf, Ledger!ledgerVars

(***************************************************************************)
(* A shield is a deposit of what it pays, for the note it commits to.      *)
(***************************************************************************)
LEMMA ShieldDeposits ==
  ASSUME PoolRight, NEW from \in Accounts, NEW p, ShieldRange(p), Shield(from, p)
  PROVE  Ledger!Deposit(p.commitment, p.token, p.amount)
<1> DEFINE c == p.commitment
           t == p.token
           amount == p.amount
           fee == ComputeFee(amount)
<1>1. /\ c \notin knownCommitments
      /\ knownCommitments' = knownCommitments \cup {c}
      /\ spentNullifiers' = spentNullifiers
      /\ t \in Tokens /\ amount \in Nat /\ amount # 0
  BY DEF Shield, ShieldAccepted, ShieldRange
<1>2. ShieldAdded(totals', totals, t, c.token, amount, fee,
                  ToItself(feeRecipient, fee), c.amount)
  BY ShieldCounts DEF PoolRight
<1> HIDE DEF c, t, amount, fee
<1>3. DepositedOf' = [DepositedOf EXCEPT ![t] = @ + amount]
  <2>1. /\ totals'[t].deposited = totals[t].deposited + amount
        /\ \A u \in Tokens \ {t} : totals'[u].deposited = totals[u].deposited
    BY <1>2 DEF ShieldAdded
  <2> QED BY <1>1, <2>1 DEF DepositedOf
<1>4. ReleasedOf' = ReleasedOf
  BY <1>2 DEF ShieldAdded, ReleasedOf
<1>5. amount > 0
  BY <1>1
<1>6. Ledger!Deposit(c, t, amount)
  BY <1>1, <1>3, <1>4, <1>5 DEF Ledger!Deposit, DepositedOf, ReleasedOf
<1> QED BY <1>6 DEF c, t, amount

(***************************************************************************)
(* A spend is a transfer: it consumes the notes its input slots name,      *)
(* which were live and have one owner, issues those its output slots name, *)
(* which are new, and releases the difference of the slots' values.        *)
(***************************************************************************)
LEMMA SpendTransfers ==
  ASSUME PoolRight, NEW p, NEW in, NEW outs, SpendRange(p, in, outs), Spend(in, p)
  PROVE  p.token \in Tokens /\ in \in Ledger!TwoOf(Ledger!Live)
           /\ Ledger!Transfer(p.token, in)
<1> DEFINE t == p.token
           amount == p.publicAmount
<1>0. TypeOK /\ SpentWereKnown /\ Range(leaves) = knownCommitments
  BY DEF PoolRight, InsertedByOneCall
<1>1. /\ in \in [1..2 -> Range(leaves) \cup {Zero}]
      /\ outs \in [1..2 -> Commitment \cup {Zero}]
      /\ t \in Tokens /\ amount \in Nat
      /\ p.newCommitments = outs
      /\ p.nullifiers = [i \in 1..2 |-> SlotNullifier(in[i])]
  BY DEF SpendRange, Slot
<1>3. knownCommitments \subseteq Commitment
  BY <1>0 DEF TypeOK
<1>4. /\ \A i \in 1..2 : p.nullifiers[i] \notin spentNullifiers
      /\ \A i \in 1..2 : outs[i] \notin knownCommitments
      /\ SpendCircuit(in, p)
      /\ knownCommitments' = knownCommitments \cup NonZero(Range(outs))
      /\ spentNullifiers' = spentNullifiers \cup NonZero(Range(p.nullifiers))
  BY <1>1 DEF Spend, SpendAccepted, NewOutputs, UnspentInputs
<1>5. SpendAdded(totals', totals, t, amount, ReleasedToItself(amount, p.recipient),
                 Repeated(in), Repeated(outs))
  BY <1>0, SpendCounts
<1>6. \A i \in 1..2 : in[i] # Zero => in[i] \notin Consumed
  <2> SUFFICES ASSUME NEW i \in 1..2, in[i] # Zero, in[i] \in Consumed
               PROVE  FALSE
    OBVIOUS
  <2>1. PICK n \in spentNullifiers : in[i] = n.commitment
    BY DEF Consumed
  <2>2. n = Nullifier(in[i])
    BY <1>0, <2>1 DEF SpentWereKnown
  <2> QED BY <1>1, <1>4, <2>2 DEF SlotNullifier
<1>7. in \in Ledger!TwoOf(Ledger!Live)
  BY <1>0, <1>1, <1>6 DEF Ledger!TwoOf, Ledger!Live, Consumed
<1>8. Consumed' = Consumed \cup Ledger!Named(in)
  <2>1. NonZero(Range(p.nullifiers)) = {Nullifier(c) : c \in Ledger!Named(in)}
    <3>1. \A i \in 1..2 : in[i] # Zero => Nullifier(in[i]) # Zero
      BY <1>0, <1>1, <1>3, ZeroIsNoHash
    <3>2. Range(p.nullifiers) = {SlotNullifier(in[1]), SlotNullifier(in[2])}
      BY <1>1 DEF Range
    <3>3. Ledger!Named(in) = {in[1], in[2]} \ {Zero}
      BY <1>1 DEF Ledger!Named, Ledger!Range
    <3> QED BY <3>1, <3>2, <3>3 DEF NonZero, SlotNullifier
  <2>2. \A c : Nullifier(c).commitment = c
    BY DEF Nullifier
  <2> QED BY <1>4, <2>1, <2>2 DEF Consumed
<1>9. \A m, n \in Ledger!Named(in) : m.owner = n.owner /\ n.token = t
  BY <1>1, <1>4 DEF SpendCircuit, Ledger!Named, Ledger!Range
<1>10. \A n \in Ledger!Named(outs) : n.token = t
  BY <1>1, <1>4 DEF SpendCircuit, Ledger!Named, Ledger!Range
<1>11. outs \in Ledger!TwoOf(Commitment \ knownCommitments)
  BY <1>1, <1>4 DEF Ledger!TwoOf
<1>12. /\ Ledger!Worth(in) \in Nat /\ Ledger!Worth(outs) \in Nat
       /\ Ledger!Worth(in) = Ledger!Worth(outs) + amount
  <2>1. \A i \in 1..2 : SlotAmount(in[i]) \in Nat /\ SlotAmount(outs[i]) \in Nat
    BY <1>0, <1>1, <1>3, PoolAssumption DEF SlotAmount, Commitment
  <2>2. SlotAmount(in[1]) + SlotAmount(in[2])
          = SlotAmount(outs[1]) + SlotAmount(outs[2]) + amount
    BY <1>1, <1>4 DEF SpendCircuit
  <2>3. /\ Ledger!Worth(in) = SlotAmount(in[1]) + SlotAmount(in[2])
        /\ Ledger!Worth(outs) = SlotAmount(outs[1]) + SlotAmount(outs[2])
    BY DEF Ledger!Worth, SlotAmount
  <2> QED BY <1>1, <2>1, <2>2, <2>3
<1>13. /\ ReleasedOf' = [ReleasedOf EXCEPT ![t] = @ + amount]
       /\ DepositedOf' = DepositedOf
  <2>1. /\ totals'[t].released = totals[t].released + amount
        /\ totals'[t].deposited = totals[t].deposited
        /\ \A u \in Tokens \ {t} : totals'[u] = totals[u]
    BY <1>5 DEF SpendAdded
  <2> HIDE DEF t, amount
  <2> QED BY <1>1, <2>1 DEF ReleasedOf, DepositedOf
<1>14. ReleasedOf' = [ReleasedOf EXCEPT
                        ![t] = @ + Ledger!Worth(in) - Ledger!Worth(outs)]
  <2>1. ReleasedOf[t] \in Nat
    BY <1>0, <1>1 DEF TypeOK, ReleasedOf
  <2> HIDE DEF amount
  <2>2. ReleasedOf[t] + amount
          = ReleasedOf[t] + Ledger!Worth(in) - Ledger!Worth(outs)
    BY <1>1, <1>12, <2>1
  <2> QED BY <1>13, <2>2
<1>15. knownCommitments' = knownCommitments \cup Ledger!Named(outs)
  BY <1>4 DEF NonZero, Ledger!Named, Ledger!Range, Range
<1>16. Ledger!Worth(outs) <= Ledger!Worth(in)
  BY <1>1, <1>12
<1> QED BY <1>1, <1>7, <1>8, <1>9, <1>10, <1>11, <1>13, <1>14, <1>15, <1>16
        DEF Ledger!Transfer, Consumed, ReleasedOf, DepositedOf

(***************************************************************************)
(* Every call of the pool is a step of the ledger or a stutter.            *)
(***************************************************************************)
LEMMA LedgerStep ==
  PoolRight /\ [Next]_poolVars => [Ledger!LedgerNext]_(Ledger!ledgerVars)
<1> SUFFICES ASSUME PoolRight, [Next]_poolVars
             PROVE  [Ledger!LedgerNext]_(Ledger!ledgerVars)
  OBVIOUS
<1>1. CASE AnyShield
  <2>0. PICK from \in Accounts :
          \E p : ShieldRange(p) /\ p.amount \in Amounts /\ Shield(from, p)
    BY <1>1, AnyShieldRange
  <2>1. PICK p : ShieldRange(p) /\ p.amount \in Amounts /\ Shield(from, p)
    BY <2>0
  <2>2. Ledger!Deposit(p.commitment, p.token, p.amount)
    BY <2>1, ShieldDeposits
  <2> QED BY <2>1, <2>2 DEF Ledger!LedgerNext, ShieldRange
<1>2. CASE AnySpend
  <2>1. PICK p, in, outs : SpendRange(p, in, outs) /\ Spend(in, p)
    BY <1>2, AnySpendRange
  <2>2. p.token \in Tokens /\ in \in Ledger!TwoOf(Ledger!Live)
          /\ Ledger!Transfer(p.token, in)
    BY <2>1, SpendTransfers
  <2> QED BY <2>2 DEF Ledger!LedgerNext
<1>3. CASE \/ \E t \in Tokens : WhitelistToken(t) \/ DelistToken(t)
           \/ Pause \/ Unpause
           \/ \E bps \in FeeChoices : SetProtocolFee(bps)
           \/ \E a \in Addresses : SetFeeRecipient(a)
           \/ UNCHANGED poolVars
  <2>1. UNCHANGED treeVars /\ totals' = totals
    BY <1>3 DEF WhitelistToken, DelistToken, Pause, Unpause, SetProtocolFee,
                SetFeeRecipient, logVars, poolVars
  <2> QED BY <2>1, LedgerStutters DEF DepositedOf, ReleasedOf
<1>4. CASE \E t \in Tokens, to \in Addresses, amount \in Amounts :
             EmergencyWithdraw(t, to, amount)
  <2>1. PICK t \in Tokens, to \in Addresses, amount \in Amounts :
          EmergencyWithdraw(t, to, amount)
    BY <1>4
  <2>2. UNCHANGED treeVars
    BY <2>1 DEF EmergencyWithdraw
  <2>3. WithdrawalAdded(totals', totals, t, amount, ToItself(to, amount))
    BY <2>1, WithdrawalBalance DEF PoolRight
  <2>4. DepositedOf' = DepositedOf /\ ReleasedOf' = ReleasedOf
    BY <2>3 DEF WithdrawalAdded, DepositedOf, ReleasedOf
  <2> QED BY <2>2, <2>4, LedgerStutters
<1> QED BY <1>1, <1>2, <1>3, <1>4 DEF Next

(***************************************************************************)
(* Every behaviour of the pool, seen through its mappings and its event    *)
(* log, is a behaviour of the note ledger, whoever calls: notes are issued *)
(* by one call and consumed by one call, of their owner, and a call pays   *)
(* out what its input slots are worth more than its output slots.          *)
(***************************************************************************)
THEOREM PoolImplementsLedger == Spec => ImplementsLedger
<1> QED BY LedgerInitially, LedgerStep, PoolInvariant, PTL
        DEF Spec, ImplementsLedger, Ledger!LedgerSpec

-----------------------------------------------------------------------------
(***************************************************************************)
(* The pool only ever knows commitments the circuits have vouched for: an  *)
(* amount that is not zero and fits a u64.                                 *)
(***************************************************************************)
KnownProvable == \A c \in knownCommitments : c.amount \in 1..MaxU64

(***************************************************************************)
(* Both circuits range-check the amount of every commitment they let in.   *)
(***************************************************************************)
LEMMA ShieldProvable ==
  ASSUME KnownProvable, NEW from, NEW p, Shield(from, p)
  PROVE  KnownProvable'
BY DEF KnownProvable, Shield, ShieldAccepted, ShieldCircuit

LEMMA SpendProvable ==
  ASSUME KnownProvable, NEW p, NEW in, NEW outs, SpendRange(p, in, outs), Spend(in, p)
  PROVE  KnownProvable'
<1>1. /\ knownCommitments' = knownCommitments \cup NonZero(Range(outs))
      /\ \A i \in 1..2 : outs[i] # Zero => outs[i].amount \in 1..MaxU64
      /\ DOMAIN outs = 1..2
  BY DEF Spend, SpendAccepted, SpendCircuit, SpendRange
<1>2. \A c \in NonZero(Range(outs)) : c.amount \in 1..MaxU64
  BY <1>1 DEF NonZero, Range
<1> QED BY <1>1, <1>2 DEF KnownProvable

LEMMA ProvableStep == KnownProvable /\ [Next]_poolVars => KnownProvable'
<1> SUFFICES ASSUME KnownProvable, [Next]_poolVars PROVE KnownProvable'
  OBVIOUS
<1>1. CASE AnyShield
  BY <1>1, AnyShieldRange, ShieldProvable
<1>2. CASE AnySpend
  BY <1>2, AnySpendRange, SpendProvable
<1>3. CASE UNCHANGED knownCommitments
  BY <1>3 DEF KnownProvable
<1> QED
  BY <1>1, <1>2, <1>3
  DEF Next, WhitelistToken, DelistToken, SetProtocolFee, SetFeeRecipient,
      Pause, Unpause, EmergencyWithdraw, poolVars, treeVars

(***************************************************************************)
(* A spend of one whole note to an address passes every check of spend and *)
(* of its circuit.                                                         *)
(***************************************************************************)
LEMMA ExitAccepted ==
  ASSUME PoolRight, KnownProvable, NEW c \in Unspent, NEW to \in Accounts,
         ~paused, c.token \in whitelistedTokens,
         c.amount <= balance[c.token][Pool]
  PROVE  FullExit(c, to)
<1> DEFINE in == <<c, Zero>>
           p == SpendCall(Len(leaves), c.token, in, <<Zero, Zero>>, c.amount, to)
<1>0. /\ c \in knownCommitments /\ Nullifier(c) \notin spentNullifiers
      /\ c \in Commitment /\ c # Zero
      /\ c.amount \in 1..MaxU64 /\ c.owner \in Keys
      /\ leaves \in Seq(Commitment)
      /\ c \in Range(leaves) /\ Len(leaves) <= Capacity
  BY ZeroIsNoHash
  DEF PoolRight, TypeOK, InsertedByOneCall, KnownProvable, Unspent, Commitment
<1>1. /\ Zero \notin knownCommitments
      /\ Zero \notin spentNullifiers
  BY ZeroIsNoHash DEF PoolRight, TypeOK
<1>2. in[1] = c /\ in[2] = Zero
  OBVIOUS
<1>3. SubSeq(leaves, 1, Len(leaves)) = leaves
  BY <1>0
<1>4. /\ p.token = c.token
      /\ p.merkleRoot = RootOf(leaves)
      /\ p.nullifiers[1] = Nullifier(c) /\ p.nullifiers[2] = Zero
      /\ p.newCommitments[1] = Zero /\ p.newCommitments[2] = Zero
      /\ p.publicAmount = c.amount
      /\ p.recipient = to
  <2>1. p = [token |-> c.token,
             merkleRoot |-> RootOf(SubSeq(leaves, 1, Len(leaves))),
             nullifiers |-> [i \in 1..2 |-> SlotNullifier(in[i])],
             newCommitments |-> <<Zero, Zero>>,
             publicAmount |-> c.amount,
             recipient |-> to]
    BY DEF SpendCall
  <2>2. SlotNullifier(in[1]) = Nullifier(c) /\ SlotNullifier(in[2]) = Zero
    BY <1>0, <1>2 DEF SlotNullifier
  <2> HIDE DEF p, in
  <2>4. p.token = c.token /\ p.publicAmount = c.amount
    BY <1>2, <2>1
  <2>5. p.merkleRoot = RootOf(leaves)
    BY <1>3, <2>1
  <2>6. p.nullifiers[1] = Nullifier(c) /\ p.nullifiers[2] = Zero
    <3>1. p.nullifiers = [i \in 1..2 |-> SlotNullifier(in[i])]
      BY <2>1
    <3>2. /\ p.nullifiers[1] = SlotNullifier(in[1])
          /\ p.nullifiers[2] = SlotNullifier(in[2])
      BY <3>1
    <3> QED BY <2>2, <3>2
  <2>7. p.newCommitments[1] = Zero /\ p.newCommitments[2] = Zero
    BY <2>1
  <2>8. p.recipient = to
    BY <2>1
  <2> QED BY <2>4, <2>5, <2>6, <2>7, <2>8
<1>5. UnspentInputs(p) /\ NewOutputs(p)
  BY <1>0, <1>1, <1>4 DEF UnspentInputs, NewOutputs
<1>6. SpendCircuit(in, p)
  <2>1. SlotAmount(in[1]) = c.amount /\ SlotAmount(in[2]) = 0
    BY <1>0, <1>2 DEF SlotAmount
  <2>2. /\ SlotAmount(in[1]) + SlotAmount(in[2]) <= MaxU64
        /\ SlotAmount(in[1]) + SlotAmount(in[2]) =
             SlotAmount(p.newCommitments[1]) + SlotAmount(p.newCommitments[2])
               + p.publicAmount
    BY <1>0, <1>4, <2>1, PoolAssumption DEF SlotAmount
  <2>3. \A i \in 1..2 : in[i] # Zero =>
          /\ in[i].owner = c.owner
          /\ in[i].token = p.token
          /\ in[i].amount # 0
          /\ in[i] \in Range(p.merkleRoot.committed)
    BY <1>0, <1>2, <1>4 DEF RootOf
  <2>4. \A i \in 1..2 : p.nullifiers[i] = SlotNullifier(in[i])
    BY <1>0, <1>2, <1>4 DEF SlotNullifier
  <2> HIDE DEF p, in
  <2> QED BY <1>0, <1>4, <2>2, <2>3, <2>4 DEF SpendCircuit
<1>7. RoomFor(p.newCommitments)
  BY <1>0, <1>4 DEF RoomFor, WithOutputs, WithLeaf
<1>8. p.recipient # Zero
  BY <1>4, PoolAssumption
<1> HIDE DEF p, in
<1>9. SpendAccepted(in, p)
  BY <1>4, <1>5, <1>6, <1>7, <1>8 DEF SpendAccepted, Covered
<1> QED BY <1>9 DEF FullExit, p, in

(***************************************************************************)
(* Nobody's note is ever trapped: in every reachable state an unspent note *)
(* of a listed token can be unshielded whole, even from a full tree, as    *)
(* long as the pool is not paused and holds its amount.                    *)
(***************************************************************************)
THEOREM ExitAlwaysOpen == Spec => []WholeNoteCanExit
<1>1. Init => KnownProvable
  BY DEF Init, KnownProvable
<1>2. PoolRight /\ KnownProvable => WholeNoteCanExit
  BY ExitAccepted DEF WholeNoteCanExit
<1> QED BY <1>1, <1>2, ProvableStep, PoolInvariant, PTL DEF Spec

-----------------------------------------------------------------------------
(***************************************************************************)
(* The value of notes: the sum of the amounts of those of one token.       *)
(***************************************************************************)
Tally == INSTANCE Folding WITH op <- LAMBDA x, y : x + y,
                               choose <- LAMBDA s : CHOOSE x \in s : TRUE

AmountOf == [c \in Commitment |-> c.amount]

OfToken(S, t) == {c \in S : c.token = t}

Value(S, t) == SumFunctionOnSet(AmountOf, OfToken(S, t))

SlotValue(c, t) == IF c # Zero /\ c.token = t THEN c.amount ELSE 0

(***************************************************************************)
(* The sum over a set without one of its elements.                         *)
(***************************************************************************)
LEMMA SumWithout ==
  ASSUME NEW S, IsFiniteSet(S), S \subseteq Commitment, NEW c \in S
  PROVE  SumFunctionOnSet(AmountOf, S)
           = c.amount + SumFunctionOnSet(AmountOf, S \ {c})
<1>1. \A T : SumFunctionOnSet(AmountOf, T) = Tally!Fold(0, AmountOf, T)
  BY DEF SumFunctionOnSet, FoldFunctionOnSet, MapThenFoldSet, Tally!Fold
<1>2. Tally!Chooses(S) /\ Tally!IsFiniteSet(S)
  BY DEF Tally!Chooses, IsFiniteSet, Tally!IsFiniteSet
<1>3. \A x \in S : AmountOf[x] \in Int
  <2>1. \A x \in Commitment : AmountOf[x] = x.amount BY DEF AmountOf
  <2>2. \A x \in Commitment : x.amount \in Nat BY PoolAssumption DEF Commitment
  <2> QED BY <2>1, <2>2
<1>4. Tally!ClosedOn(Int) /\ Tally!CommutesOn(Int)
  BY DEF Tally!ClosedOn, Tally!CommutesOn
<1>5. Tally!Fold(0, AmountOf, S) = AmountOf[c] + Tally!Fold(0, AmountOf, S \ {c})
  BY <1>2, <1>3, <1>4, Tally!FoldAnyElement
<1>6. AmountOf[c] = c.amount
  BY DEF AmountOf
<1> QED BY <1>1, <1>5, <1>6

(***************************************************************************)
(* The sum over any finite set of notes is a natural number, 0 for none.   *)
(***************************************************************************)
LEMMA ValueType ==
  /\ \A t : Value({}, t) = 0
  /\ \A S, t : IsFiniteSet(S) /\ S \subseteq Commitment => Value(S, t) \in Nat
<1>1. \A T : SumFunctionOnSet(AmountOf, T) = Tally!Fold(0, AmountOf, T)
  BY DEF SumFunctionOnSet, FoldFunctionOnSet, MapThenFoldSet, Tally!Fold
<1>2. ASSUME NEW t PROVE Value({}, t) = 0
  <2>1. OfToken({}, t) = {} BY DEF OfToken
  <2>2. Tally!Fold(0, AmountOf, {}) = 0 BY Tally!FoldEmpty
  <2> QED BY <1>1, <2>1, <2>2 DEF Value
<1>3. ASSUME NEW S, NEW t, IsFiniteSet(S), S \subseteq Commitment
      PROVE  Value(S, t) \in Nat
  <2> DEFINE T == OfToken(S, t)
  <2>1. T \in SUBSET S BY DEF OfToken
  <2>2. IsFiniteSet(T) BY <1>3, <2>1, FS_Subset
  <2>3. Tally!Chooses(T) /\ Tally!IsFiniteSet(T)
    BY <2>2 DEF Tally!Chooses, IsFiniteSet, Tally!IsFiniteSet
  <2>4. \A x \in T : AmountOf[x] \in Nat
    BY <1>3, <2>1, PoolAssumption DEF AmountOf, Commitment
  <2>5. Tally!ClosedOn(Nat)
    BY DEF Tally!ClosedOn
  <2> HIDE DEF T
  <2>6. Tally!Fold(0, AmountOf, T) \in Nat
    BY <2>3, <2>4, <2>5, Tally!FoldType
  <2> QED BY <1>1, <2>6 DEF Value, T
<1> QED BY <1>2, <1>3

(***************************************************************************)
(* A note added to a set adds its amount to the value in its token.        *)
(***************************************************************************)
LEMMA ValueAdd ==
  ASSUME NEW S, IsFiniteSet(S), S \subseteq Commitment,
         NEW c \in Commitment \cup {Zero}, c \notin S, NEW t
  PROVE  /\ IsFiniteSet(S \cup NonZero({c}))
         /\ S \cup NonZero({c}) \subseteq Commitment
         /\ Value(S \cup NonZero({c}), t) = Value(S, t) + SlotValue(c, t)
<1>0. Value(S, t) \in Nat
  BY ValueType
<1>1. CASE c = Zero
  <2>1. NonZero({c}) = {} /\ SlotValue(c, t) = 0 BY <1>1 DEF NonZero, SlotValue
  <2>2. S \cup NonZero({c}) = S BY <2>1
  <2>3. Value(S \cup NonZero({c}), t) = Value(S, t) BY <2>2
  <2> QED BY <1>0, <2>1, <2>2, <2>3
<1>2. CASE c # Zero
  <2> DEFINE U == S \cup {c}
  <2>1. S \cup NonZero({c}) = U /\ c \in Commitment BY <1>2 DEF NonZero
  <2>2. IsFiniteSet(U) /\ U \subseteq Commitment BY <2>1, FS_AddElement
  <2>3. CASE c.token = t
    <3>1. /\ c \in OfToken(U, t) /\ OfToken(U, t) \ {c} = OfToken(S, t)
          /\ OfToken(U, t) \in SUBSET U
      BY <2>3 DEF OfToken
    <3>2. IsFiniteSet(OfToken(U, t)) BY <2>2, <3>1, FS_Subset
    <3> HIDE DEF U
    <3>3. Value(U, t) = c.amount + Value(S, t)
      BY <2>2, <3>1, <3>2, SumWithout DEF Value
    <3>4. c.amount \in Nat /\ SlotValue(c, t) = c.amount
      BY <1>2, <2>1, <2>3, PoolAssumption DEF Commitment, SlotValue
    <3>5. Value(U, t) = Value(S, t) + SlotValue(c, t)
      BY <1>0, <3>3, <3>4
    <3> QED BY <2>1, <2>2, <3>5
  <2>4. CASE c.token # t
    <3>1. OfToken(U, t) = OfToken(S, t) BY <2>4 DEF OfToken
    <3>2. Value(U, t) = Value(S, t) BY <3>1 DEF Value
    <3>3. SlotValue(c, t) = 0 BY <2>4 DEF SlotValue
    <3> HIDE DEF U
    <3>4. Value(U, t) = Value(S, t) + SlotValue(c, t)
      BY <1>0, <3>2, <3>3
    <3> QED BY <2>1, <2>2, <3>4
  <2> QED BY <2>3, <2>4
<1> QED BY <1>1, <1>2

(***************************************************************************)
(* Every unspent note is a commitment, and there are finitely many.        *)
(***************************************************************************)
LEMMA UnspentFinite ==
  ASSUME PoolRight
  PROVE  /\ IsFiniteSet(Unspent) /\ Unspent \subseteq Commitment
         /\ Unspent \subseteq knownCommitments
<1>1. leaves \in Seq(Commitment) /\ Range(leaves) = knownCommitments
        /\ knownCommitments \subseteq Commitment
  BY DEF PoolRight, TypeOK, InsertedByOneCall
<1>2. leaves \in Surjection(1..Len(leaves), Range(leaves)) /\ Len(leaves) \in Nat
  BY <1>1 DEF Surjection, Range
<1>3. IsFiniteSet(1..Len(leaves))
  BY <1>2, FS_Interval
<1>4. IsFiniteSet(knownCommitments)
  BY <1>1, <1>2, <1>3, FS_Surjection
<1>5. Unspent \in SUBSET knownCommitments
  BY DEF Unspent
<1> QED BY <1>1, <1>4, <1>5, FS_Subset

(***************************************************************************)
(* A note taken out of a set takes its amount out of the value.            *)
(***************************************************************************)
LEMMA ValueRemove ==
  ASSUME NEW S, IsFiniteSet(S), S \subseteq Commitment,
         NEW c \in S \cup {Zero}, NEW t
  PROVE  /\ IsFiniteSet(S \ {c})
         /\ Value(S, t) = Value(S \ {c}, t) + SlotValue(c, t)
<1> DEFINE U == S \ {c}
<1>1. IsFiniteSet(U) /\ U \subseteq Commitment
  BY FS_RemoveElement
<1>2. c \in Commitment \cup {Zero} /\ c \notin U
  OBVIOUS
<1>3. S = U \cup NonZero({c})
  BY ZeroIsNoHash DEF NonZero
<1> HIDE DEF U
<1>4. Value(U \cup NonZero({c}), t) = Value(U, t) + SlotValue(c, t)
  BY <1>1, <1>2, ValueAdd
<1>5. Value(S, t) = Value(U, t) + SlotValue(c, t)
  BY <1>3, <1>4
<1> QED BY <1>1, <1>5 DEF U

(***************************************************************************)
(* What the unspent notes of a token ought to be worth.                    *)
(***************************************************************************)
Owed(t) == Paid(t) + Unpaid(t)

(***************************************************************************)
(* EscrowAccounted in those terms.                                         *)
(***************************************************************************)
LEMMA EscrowUnfolded ==
  /\ EscrowAccounted <=> \A t \in Tokens : Value(Unspent, t) = Owed(t)
  /\ EscrowAccounted' <=> \A t \in Tokens : Value(Unspent', t) = Owed(t)'
BY DEF EscrowAccounted, UnspentValue, Owed, Value, OfToken, AmountOf

(***************************************************************************)
(* A token's part of the accounts is made of natural numbers.              *)
(***************************************************************************)
AccountsAre(b, f, t) ==
  /\ b[t][Pool] \in Nat
  /\ f[t].kept \in Nat /\ f[t].shieldFees \in Nat /\ f[t].withdrawn \in Nat
  /\ f[t].committed \in Nat /\ f[t].deposited \in Nat
  /\ f[t].twiceIn \in Nat /\ f[t].twiceOut \in Nat

LEMMA AccountsType ==
  ASSUME TypeOK, NEW t \in Tokens
  PROVE  AccountsAre(balance, totals, t)
<1>1. balance[t][Pool] \in Nat
  BY DEF TypeOK, Addresses
<1>2. totals[t] \in Row
  BY DEF TypeOK, Row
<1> QED BY <1>1, <1>2 DEF AccountsAre, Row

LEMMA OwedIs ==
  \A t : Owed(t) = balance[t][Pool] - totals[t].kept + totals[t].shieldFees
                     + totals[t].withdrawn
                     + (totals[t].committed - totals[t].deposited
                          + totals[t].twiceIn - totals[t].twiceOut)
BY DEF Owed, Paid, Unpaid

(***************************************************************************)
(* The arithmetic of a shield: what it deposits is in the pool or went as  *)
(* a fee, and what it commits to beyond that is unpaid.                    *)
(***************************************************************************)
LEMMA ShieldArithmetic ==
  ASSUME NEW b \in Nat, NEW k \in Nat, NEW f \in Nat, NEW w \in Nat, NEW c \in Nat,
         NEW d \in Nat, NEW i \in Nat, NEW o \in Nat,
         NEW paid \in Nat, NEW fee \in Nat, NEW own \in Nat, NEW worth \in Nat
  PROVE  (b + paid - fee + own) - (k + own) + (f + fee) + w
           + ((c + worth) - (d + paid) + i - o)
           = (b - k + f + w + (c - d + i - o)) + worth
OBVIOUS

(***************************************************************************)
(* A shield adds its note to the unspent ones.                             *)
(***************************************************************************)
LEMMA ShieldUnspent ==
  ASSUME PoolRight, NEW from \in Accounts, NEW p, ShieldRange(p), Shield(from, p),
         NEW c, c = p.commitment
  PROVE  /\ c \in Commitment /\ c \notin Unspent
         /\ Unspent' = Unspent \cup NonZero({c})
<1>0. /\ c \notin knownCommitments
      /\ knownCommitments' = knownCommitments \cup {c}
      /\ spentNullifiers' = spentNullifiers
      /\ c \in Commitment
  BY DEF Shield, ShieldAccepted, ShieldRange
<1>1. Nullifier(c) \notin spentNullifiers
  BY <1>0 DEF PoolRight, SpentWereKnown, Nullifier
<1>2. NonZero({c}) = {c}
  BY <1>0, ZeroIsNoHash DEF NonZero
<1> QED BY <1>0, <1>1, <1>2 DEF Unspent

(***************************************************************************)
(* A shield puts what it deposits, less the fee that left, into the pool,  *)
(* and adds the value of its note, in the note's token.                    *)
(***************************************************************************)
LEMMA ShieldEscrow ==
  ASSUME PoolRight, EscrowAccounted, NEW from \in Accounts, NEW p,
         ShieldRange(p), Shield(from, p)
  PROVE  EscrowAccounted'
<1> DEFINE t == p.token
           c == p.commitment
           amount == p.amount
           fee == ComputeFee(amount)
           own == ToItself(feeRecipient, fee)
<1>0. TypeOK
  BY DEF PoolRight
<1>1. /\ t \in Tokens /\ amount \in Nat /\ c \in Commitment /\ c # Zero
      /\ c.amount \in Nat /\ c.token \in Tokens
  BY PoolAssumption, ZeroIsNoHash DEF ShieldRange, Commitment
<1>2. /\ fee \in 0..amount /\ own \in Nat
      /\ balance'[t][Pool] = balance[t][Pool] + amount - fee + own
      /\ \A u \in Tokens \ {t} : balance'[u] = balance[u]
  BY <1>0, ShieldBalance
<1>3. ShieldAdded(totals', totals, t, c.token, amount, fee, own, c.amount)
  BY <1>0, ShieldCounts
<1>4. c \notin Unspent /\ Unspent' = Unspent \cup NonZero({c})
  BY ShieldUnspent
<1>5. IsFiniteSet(Unspent) /\ Unspent \subseteq Commitment
  BY UnspentFinite
<1> HIDE DEF t, c, amount, fee, own
<1> SUFFICES ASSUME NEW u \in Tokens PROVE Value(Unspent', u) = Owed(u)'
  BY EscrowUnfolded
<1>6. /\ Value(Unspent, u) = Owed(u)
      /\ Value(Unspent', u) = Value(Unspent, u) + SlotValue(c, u)
  BY <1>1, <1>4, <1>5, ValueAdd, EscrowUnfolded
<1> DEFINE worth == SlotValue(c, u)
<1>7. AccountsAre(balance, totals, u)
  BY <1>0, AccountsType
<1>8. worth \in Nat
  BY <1>1 DEF SlotValue
<1>9. totals'[u].committed = totals[u].committed + worth
  <2>1. CASE c.token = u
    BY <1>1, <1>3, <2>1 DEF ShieldAdded, SlotValue
  <2>2. CASE c.token # u
    <3>1. totals'[u].committed = totals[u].committed /\ worth = 0
      BY <1>3, <2>2 DEF ShieldAdded, SlotValue
    <3> QED BY <1>7, <3>1 DEF AccountsAre
  <2> QED BY <2>1, <2>2
<1>10. /\ totals'[u].withdrawn = totals[u].withdrawn
       /\ totals'[u].twiceIn = totals[u].twiceIn
       /\ totals'[u].twiceOut = totals[u].twiceOut
  BY <1>3 DEF ShieldAdded
<1> HIDE DEF worth
<1>11. Owed(u)' = Owed(u) + worth
  <2> DEFINE b == balance[u][Pool]
             k == totals[u].kept
             f == totals[u].shieldFees
             w == totals[u].withdrawn
             n == totals[u].committed
             d == totals[u].deposited
             i == totals[u].twiceIn
             o == totals[u].twiceOut
  <2>0. /\ b \in Nat /\ k \in Nat /\ f \in Nat /\ w \in Nat
        /\ n \in Nat /\ d \in Nat /\ i \in Nat /\ o \in Nat
    BY <1>7 DEF AccountsAre
  <2>1. Owed(u) = b - k + f + w + (n - d + i - o)
    BY OwedIs
  <2>2. Owed(u)' = balance'[u][Pool] - totals'[u].kept + totals'[u].shieldFees + w
                     + ((n + worth) - totals'[u].deposited + i - o)
    BY <1>9, <1>10 DEF Owed, Paid, Unpaid
  <2>3. CASE u = t
    <3>1. /\ balance'[u][Pool] = b + amount - fee + own
          /\ totals'[u].kept = k + own
          /\ totals'[u].shieldFees = f + fee
          /\ totals'[u].deposited = d + amount
      BY <1>2, <1>3, <2>3 DEF ShieldAdded
    <3>2. fee \in Nat
      BY <1>1, <1>2
    <3> HIDE DEF b, k, f, w, n, d, i, o
    <3>3. Owed(u)' = (b + amount - fee + own) - (k + own) + (f + fee) + w
                       + ((n + worth) - (d + amount) + i - o)
      BY ONLY <2>2, <3>1
    <3>4. (b + amount - fee + own) - (k + own) + (f + fee) + w
            + ((n + worth) - (d + amount) + i - o)
            = (b - k + f + w + (n - d + i - o)) + worth
      BY <1>1, <1>2, <1>8, <2>0, <3>2, ShieldArithmetic
    <3> QED BY ONLY <2>1, <3>3, <3>4
  <2>4. CASE u # t
    <3>1. /\ balance'[u][Pool] = b
          /\ totals'[u].kept = k
          /\ totals'[u].shieldFees = f
          /\ totals'[u].deposited = d
      BY <1>2, <1>3, <2>4 DEF ShieldAdded
    <3> HIDE DEF b, k, f, w, n, d, i, o
    <3>2. Owed(u)' = b - k + f + w + ((n + worth) - d + i - o)
      BY ONLY <2>2, <3>1
    <3> QED BY ONLY <1>8, <2>0, <2>1, <3>2
  <2> QED BY <2>3, <2>4
<1> QED BY <1>6, <1>11 DEF worth

\* What a spend pays out of token u, and counts of it once too often.
PaidOut(p, u) == IF u = p.token THEN p.publicAmount ELSE 0

RepeatedIn(s, u) == IF s[1] = s[2] THEN SlotValue(s[1], u) ELSE 0

(***************************************************************************)
(* All slots of a spend are of its token.                                  *)
(***************************************************************************)
LEMMA SlotsOfToken ==
  ASSUME NEW p, NEW in, NEW outs, SpendRange(p, in, outs), Spend(in, p), NEW u
  PROVE  /\ \A i \in 1..2 :
              /\ SlotValue(in[i], u) = IF u = p.token THEN SlotAmount(in[i]) ELSE 0
              /\ SlotValue(outs[i], u) = IF u = p.token THEN SlotAmount(outs[i]) ELSE 0
         /\ RepeatedIn(in, u) = IF u = p.token THEN Repeated(in) ELSE 0
         /\ RepeatedIn(outs, u) = IF u = p.token THEN Repeated(outs) ELSE 0
<1>1. /\ \A i \in 1..2 : in[i] # Zero => in[i].token = p.token
      /\ \A i \in 1..2 : outs[i] # Zero => outs[i].token = p.token
  BY DEF SpendRange, Spend, SpendAccepted, SpendCircuit
<1>2. \A i \in 1..2 :
        /\ SlotValue(in[i], u) = IF u = p.token THEN SlotAmount(in[i]) ELSE 0
        /\ SlotValue(outs[i], u) = IF u = p.token THEN SlotAmount(outs[i]) ELSE 0
  BY <1>1 DEF SlotValue, SlotAmount
<1>3. 1 \in 1..2
  OBVIOUS
<1> QED BY <1>2, <1>3 DEF RepeatedIn, Repeated

(***************************************************************************)
(* In every token the input slots of a spend are worth its output slots    *)
(* and what it pays.                                                       *)
(***************************************************************************)
LEMMA SpendWorth ==
  ASSUME NEW p, NEW in, NEW outs, SpendRange(p, in, outs), Spend(in, p), NEW u
  PROVE  SlotValue(in[1], u) + SlotValue(in[2], u)
           = SlotValue(outs[1], u) + SlotValue(outs[2], u) + PaidOut(p, u)
<1>1. SlotAmount(in[1]) + SlotAmount(in[2])
        = SlotAmount(outs[1]) + SlotAmount(outs[2]) + p.publicAmount
  BY DEF SpendRange, Spend, SpendAccepted, SpendCircuit
<1>2. \A i \in 1..2 :
        /\ SlotValue(in[i], u) = IF u = p.token THEN SlotAmount(in[i]) ELSE 0
        /\ SlotValue(outs[i], u) = IF u = p.token THEN SlotAmount(outs[i]) ELSE 0
  BY SlotsOfToken
<1>3. CASE u = p.token
  BY <1>1, <1>2, <1>3 DEF PaidOut
<1>4. CASE u # p.token
  BY <1>2, <1>4 DEF PaidOut
<1> QED BY <1>3, <1>4

(***************************************************************************)
(* What a spend does to the unspent notes: those its input slots name      *)
(* leave, those its output slots name come.                                *)
(***************************************************************************)
LEMMA SpendUnspent ==
  ASSUME PoolRight, NEW p, NEW in, NEW outs, SpendRange(p, in, outs), Spend(in, p)
  PROVE  /\ \A i \in 1..2 : in[i] \in Unspent \cup {Zero}
         /\ \A i \in 1..2 : outs[i] \in Commitment \cup {Zero}
                              /\ outs[i] \notin knownCommitments
         /\ Unspent' = (((Unspent \ {in[1]}) \ {in[2]})
                          \cup NonZero({outs[1]})) \cup NonZero({outs[2]})
<1>0. /\ TypeOK /\ SpentWereKnown
      /\ Range(leaves) = knownCommitments
  BY DEF PoolRight, InsertedByOneCall
<1>1. /\ \A i \in 1..2 : in[i] \in knownCommitments \cup {Zero}
      /\ \A i \in 1..2 : outs[i] \in Commitment \cup {Zero}
      /\ DOMAIN outs = 1..2
      /\ p.nullifiers = [i \in 1..2 |-> SlotNullifier(in[i])]
      /\ p.newCommitments = outs
      /\ p.publicAmount \in Nat
  BY <1>0 DEF SpendRange, Slot
<1>2. /\ \A i \in 1..2 : p.nullifiers[i] \notin spentNullifiers
      /\ \A i \in 1..2 : outs[i] \notin knownCommitments
      /\ SpendCircuit(in, p)
      /\ knownCommitments' = knownCommitments \cup NonZero(Range(outs))
      /\ spentNullifiers' = spentNullifiers \cup NonZero(Range(p.nullifiers))
  BY <1>1 DEF Spend, SpendAccepted, UnspentInputs, NewOutputs
<1>3. knownCommitments \subseteq Commitment
  BY <1>0 DEF TypeOK
<1>4. \A i \in 1..2 : in[i] \in Unspent \cup {Zero}
  BY <1>1, <1>2 DEF SlotNullifier, Unspent
<1>5. NonZero(Range(p.nullifiers)) = {Nullifier(c) : c \in {in[1], in[2]} \ {Zero}}
  <2>1. Range(p.nullifiers) = {SlotNullifier(in[1]), SlotNullifier(in[2])}
    BY <1>1 DEF Range
  <2>2. \A i \in 1..2 : in[i] # Zero => Nullifier(in[i]) # Zero
    BY <1>1, <1>3, ZeroIsNoHash
  <2> QED BY <2>1, <2>2 DEF NonZero, SlotNullifier
<1>6. \A c, d : Nullifier(c) = Nullifier(d) => c = d
  BY DEF Nullifier
<1>7. NonZero(Range(outs)) = NonZero({outs[1]}) \cup NonZero({outs[2]})
  BY <1>1 DEF Range, NonZero
<1>8. \A i \in 1..2 : outs[i] # Zero =>
        Nullifier(outs[i]) \notin spentNullifiers
          /\ outs[i] # in[1] /\ outs[i] # in[2]
  <2> SUFFICES ASSUME NEW i \in 1..2, outs[i] # Zero
               PROVE  Nullifier(outs[i]) \notin spentNullifiers
                        /\ outs[i] # in[1] /\ outs[i] # in[2]
    OBVIOUS
  <2>1. outs[i] # in[1] /\ outs[i] # in[2] BY <1>1, <1>2
  <2>2. Nullifier(outs[i]).commitment = outs[i] BY DEF Nullifier
  <2>3. Nullifier(outs[i]) \notin spentNullifiers
    BY <1>0, <1>2, <2>2 DEF SpentWereKnown
  <2> QED BY <2>1, <2>3
<1>9. Unspent' = (((Unspent \ {in[1]}) \ {in[2]})
                     \cup NonZero({outs[1]})) \cup NonZero({outs[2]})
  <2>1. \A c \in knownCommitments \cup NonZero(Range(outs)) :
          Nullifier(c) \in spentNullifiers' <=>
            Nullifier(c) \in spentNullifiers \/ (c \in {in[1], in[2]} /\ c # Zero)
    BY <1>2, <1>5, <1>6
  <2>2. Zero \notin knownCommitments
    BY <1>3, ZeroIsNoHash
  <2> QED BY <1>2, <1>7, <1>8, <2>1, <2>2 DEF Unspent, NonZero
<1> QED BY <1>1, <1>2, <1>4, <1>9

(***************************************************************************)
(* What a spend takes from the value of the unspent notes: what it pays,   *)
(* less an input counted twice, and an output counted twice.               *)
(***************************************************************************)
LEMMA SpendValue ==
  ASSUME PoolRight, NEW p, NEW in, NEW outs, SpendRange(p, in, outs), Spend(in, p),
         NEW u \in Tokens
  PROVE  /\ Value(Unspent, u) \in Nat /\ PaidOut(p, u) \in Nat
         /\ RepeatedIn(in, u) \in Nat /\ RepeatedIn(outs, u) \in Nat
         /\ Value(Unspent', u) = Value(Unspent, u) - PaidOut(p, u)
                                   + RepeatedIn(in, u) - RepeatedIn(outs, u)
<1> DEFINE A == Unspent \ {in[1]}
           B == A \ {in[2]}
           C == B \cup NonZero({outs[1]})
           D == C \cup NonZero({outs[2]})
<1>1. /\ \A i \in 1..2 : in[i] \in Unspent \cup {Zero}
      /\ \A i \in 1..2 : outs[i] \in Commitment \cup {Zero}
                           /\ outs[i] \notin knownCommitments
      /\ Unspent' = D
  BY SpendUnspent
<1>2. /\ IsFiniteSet(Unspent) /\ Unspent \subseteq Commitment
      /\ Unspent \subseteq knownCommitments
  BY UnspentFinite
<1>3. /\ \A i \in 1..2 : SlotValue(in[i], u) \in Nat /\ SlotValue(outs[i], u) \in Nat
      /\ PaidOut(p, u) \in Nat
      /\ RepeatedIn(in, u) \in Nat /\ RepeatedIn(outs, u) \in Nat
  <2>1. \A i \in 1..2 : SlotValue(in[i], u) \in Nat /\ SlotValue(outs[i], u) \in Nat
    BY <1>1, <1>2, PoolAssumption DEF SlotValue, Commitment
  <2> QED BY <2>1 DEF RepeatedIn, PaidOut, SpendRange
<1>4. IsFiniteSet(A) /\ Value(Unspent, u) = Value(A, u) + SlotValue(in[1], u)
  BY <1>1, <1>2, ValueRemove
<1>5. A \subseteq Commitment /\ B \subseteq Commitment
  BY <1>2
<1>6. /\ IsFiniteSet(B)
      /\ Value(A, u) = Value(B, u) + SlotValue(in[2], u) - RepeatedIn(in, u)
      /\ Value(B, u) \in Nat
  <2>1. CASE in[1] = in[2]
    <3>1. B = A /\ RepeatedIn(in, u) = SlotValue(in[2], u)
      BY <2>1 DEF RepeatedIn
    <3> HIDE DEF A, B
    <3>2. Value(A, u) \in Nat
      BY <1>4, <1>5, ValueType
    <3> QED BY <1>3, <1>4, <3>1, <3>2
  <2>2. CASE in[1] # in[2]
    <3>1. in[2] \in A \cup {Zero} /\ RepeatedIn(in, u) = 0
      BY <1>1, <2>2 DEF RepeatedIn
    <3> HIDE DEF A
    <3>2. IsFiniteSet(B) /\ Value(A, u) = Value(B, u) + SlotValue(in[2], u)
      BY <1>4, <1>5, <3>1, ValueRemove
    <3> HIDE DEF B
    <3>3. Value(B, u) \in Nat
      BY <1>5, <3>2, ValueType
    <3> QED BY <1>3, <3>1, <3>2, <3>3
  <2> QED BY <2>1, <2>2
<1>7. IsFiniteSet(C) /\ C \subseteq Commitment
        /\ Value(C, u) = Value(B, u) + SlotValue(outs[1], u)
  <2>1. outs[1] \notin B
    BY <1>1, <1>2
  <2> HIDE DEF B
  <2> QED BY <1>1, <1>5, <1>6, <2>1, ValueAdd
<1>8. Value(D, u) = Value(C, u) + SlotValue(outs[2], u) - RepeatedIn(outs, u)
  <2>0. Value(C, u) \in Nat
    <3> HIDE DEF C
    <3> QED BY <1>7, ValueType
  <2>1. CASE outs[1] = outs[2]
    <3>1. D = C /\ RepeatedIn(outs, u) = SlotValue(outs[2], u)
      BY <2>1 DEF RepeatedIn
    <3> HIDE DEF C, D
    <3> QED BY <1>3, <2>0, <3>1
  <2>2. CASE outs[1] # outs[2]
    <3>1. outs[2] \notin C /\ RepeatedIn(outs, u) = 0
      BY <1>1, <1>2, <2>2 DEF RepeatedIn, NonZero
    <3>2. outs[2] \in Commitment \cup {Zero}
      BY <1>1
    <3> HIDE DEF C
    <3>3. Value(D, u) = Value(C, u) + SlotValue(outs[2], u)
      BY <1>7, <3>1, <3>2, ValueAdd
    <3> HIDE DEF D
    <3> QED BY <1>3, <2>0, <3>1, <3>3
  <2> QED BY <2>1, <2>2
<1>9. SlotValue(in[1], u) + SlotValue(in[2], u)
        = SlotValue(outs[1], u) + SlotValue(outs[2], u) + PaidOut(p, u)
  BY SpendWorth
<1>10. Value(Unspent, u) \in Nat /\ Value(A, u) \in Nat /\ Value(C, u) \in Nat
  <2> HIDE DEF A, C
  <2> QED BY <1>2, <1>4, <1>5, <1>7, ValueType
<1> HIDE DEF A, B, C, D
<1>11. Value(D, u) = Value(Unspent, u) - PaidOut(p, u)
                       + RepeatedIn(in, u) - RepeatedIn(outs, u)
  BY ONLY <1>3, <1>4, <1>6, <1>7, <1>8, <1>9, <1>10
<1> QED BY <1>1, <1>3, <1>10, <1>11

(***************************************************************************)
(* A spend keeps the accounts.                                             *)
(***************************************************************************)
LEMMA SpendEscrow ==
  ASSUME PoolRight, EscrowAccounted,
         NEW p, NEW in, NEW outs, SpendRange(p, in, outs), Spend(in, p)
  PROVE  EscrowAccounted'
<1> SUFFICES ASSUME NEW u \in Tokens PROVE Value(Unspent', u) = Owed(u)'
  BY EscrowUnfolded
<1> DEFINE t == p.token
           amount == p.publicAmount
           own == ReleasedToItself(amount, p.recipient)
           ri == RepeatedIn(in, u)
           ro == RepeatedIn(outs, u)
<1>0. TypeOK
  BY DEF PoolRight
<1>1. /\ Value(Unspent, u) = Owed(u) /\ Value(Unspent, u) \in Nat
      /\ PaidOut(p, u) \in Nat /\ ri \in Nat /\ ro \in Nat
      /\ Value(Unspent', u) = Value(Unspent, u) - PaidOut(p, u) + ri - ro
  BY EscrowUnfolded, SpendValue
<1>2. /\ own \in Nat /\ t \in Tokens /\ amount \in Nat
      /\ balance'[t][Pool] = balance[t][Pool] - amount + own
      /\ \A v \in Tokens \ {t} : balance'[v] = balance[v]
  BY <1>0, SpendBalance DEF SpendRange
<1>3. SpendAdded(totals', totals, t, amount, own, Repeated(in), Repeated(outs))
  BY <1>0, SpendCounts
<1>4. AccountsAre(balance, totals, u)
  BY <1>0, AccountsType
<1>5. Owed(u)' = Owed(u) - PaidOut(p, u) + ri - ro
  <2> DEFINE b == balance[u][Pool]
             k == totals[u].kept
             f == totals[u].shieldFees
             w == totals[u].withdrawn
             n == totals[u].committed
             d == totals[u].deposited
             i == totals[u].twiceIn
             o == totals[u].twiceOut
  <2>0. /\ b \in Nat /\ k \in Nat /\ f \in Nat /\ w \in Nat
        /\ n \in Nat /\ d \in Nat /\ i \in Nat /\ o \in Nat
    BY <1>4 DEF AccountsAre
  <2>1. Owed(u) = b - k + f + w + (n - d + i - o)
    BY OwedIs
  <2>2. CASE u = t
    <3>1. ri = Repeated(in) /\ ro = Repeated(outs)
      BY <2>2, SlotsOfToken
    <3>2. PaidOut(p, u) = amount
      BY <2>2 DEF PaidOut
    <3>3. /\ balance'[u][Pool] = b - amount + own
          /\ totals'[u].kept = k + own
          /\ totals'[u].shieldFees = f /\ totals'[u].withdrawn = w
          /\ totals'[u].committed = n /\ totals'[u].deposited = d
          /\ totals'[u].twiceIn = i + ri /\ totals'[u].twiceOut = o + ro
      BY <1>2, <1>3, <2>2, <3>1 DEF SpendAdded
    <3> HIDE DEF b, k, f, w, n, d, i, o, amount, own, ri, ro, t
    <3>4. Owed(u)' = (b - amount + own) - (k + own) + f + w
                       + (n - d + (i + ri) - (o + ro))
      BY <3>3 DEF Owed, Paid, Unpaid
    <3> QED BY ONLY <1>1, <1>2, <2>0, <2>1, <3>2, <3>4
  <2>3. CASE u # t
    <3>1. ri = 0 /\ ro = 0
      BY <2>3, SlotsOfToken
    <3>2. PaidOut(p, u) = 0
      BY <2>3 DEF PaidOut
    <3>3. balance'[u] = balance[u] /\ totals'[u] = totals[u]
      BY <1>2, <1>3, <2>3 DEF SpendAdded
    <3>4. Owed(u)' = b - k + f + w + (n - d + i - o)
      BY <3>3 DEF Owed, Paid, Unpaid
    <3> HIDE DEF b, k, f, w, n, d, i, o, ri, ro
    <3> QED BY ONLY <2>0, <2>1, <3>1, <3>2, <3>4
  <2> QED BY <2>2, <2>3
<1> QED BY <1>1, <1>5

(***************************************************************************)
(* The administrators' calls keep the accounts: an emergency withdrawal is *)
(* counted, the others touch neither notes nor tokens.                     *)
(***************************************************************************)
LEMMA AdminEscrow ==
  ASSUME EscrowAccounted, UNCHANGED treeVars,
         \A u \in Tokens : Owed(u)' = Owed(u)
  PROVE  EscrowAccounted'
<1>1. Unspent' = Unspent
  BY DEF Unspent, treeVars
<1> QED BY <1>1, EscrowUnfolded

(***************************************************************************)
(* An emergency withdrawal moves from the pool what it adds to withdrawn.  *)
(***************************************************************************)
LEMMA WithdrawalCounted ==
  ASSUME PoolRight, NEW t \in Tokens, NEW to \in Addresses, NEW amount \in Amounts,
         EmergencyWithdraw(t, to, amount), NEW u \in Tokens
  PROVE  Owed(u)' = Owed(u)
<1> DEFINE own == ToItself(to, amount)
           b == balance[u][Pool]
           k == totals[u].kept
           f == totals[u].shieldFees
           w == totals[u].withdrawn
           rest == totals[u].committed - totals[u].deposited
                     + totals[u].twiceIn - totals[u].twiceOut
<1>0. TypeOK
  BY DEF PoolRight
<1>1. /\ amount \in Nat /\ own \in Nat
      /\ balance'[t][Pool] = balance[t][Pool] - amount + own
      /\ \A v \in Tokens \ {t} : balance'[v] = balance[v]
      /\ WithdrawalAdded(totals', totals, t, amount, own)
  BY <1>0, WithdrawalBalance
<1>2. b \in Nat /\ k \in Nat /\ f \in Nat /\ w \in Nat /\ rest \in Int
  BY <1>0, AccountsType DEF AccountsAre
<1>3. Owed(u) = b - k + f + w + rest
  BY OwedIs
<1>4. CASE u = t
  <2>1. /\ balance'[u][Pool] = b - amount + own
        /\ totals'[u].kept = k + own /\ totals'[u].withdrawn = w + amount
        /\ totals'[u].shieldFees = f
        /\ totals'[u].committed = totals[u].committed
        /\ totals'[u].deposited = totals[u].deposited
        /\ totals'[u].twiceIn = totals[u].twiceIn
        /\ totals'[u].twiceOut = totals[u].twiceOut
    BY <1>1, <1>4 DEF WithdrawalAdded
  <2>2. Owed(u)' = (b - amount + own) - (k + own) + f + (w + amount) + rest
    <3> HIDE DEF b, k, f, w, own
    <3> QED BY <2>1 DEF Owed, Paid, Unpaid
  <2> HIDE DEF b, k, f, w, rest, own
  <2> QED BY ONLY <1>1, <1>2, <1>3, <2>2
<1>5. CASE u # t
  <2>1. balance'[u] = balance[u] /\ totals'[u] = totals[u]
    BY <1>1, <1>5 DEF WithdrawalAdded
  <2> QED BY <2>1 DEF Owed, Paid, Unpaid
<1> QED BY <1>4, <1>5

(***************************************************************************)
(* Every call keeps the accounts.                                          *)
(***************************************************************************)
LEMMA EscrowStep == PoolRight /\ EscrowAccounted /\ [Next]_poolVars => EscrowAccounted'
<1> SUFFICES ASSUME PoolRight, EscrowAccounted, [Next]_poolVars
             PROVE  EscrowAccounted'
  OBVIOUS
<1>1. CASE AnyShield
  BY <1>1, AnyShieldRange, ShieldEscrow
<1>2. CASE AnySpend
  BY <1>2, AnySpendRange, SpendEscrow
<1>3. CASE \/ \E t \in Tokens : WhitelistToken(t) \/ DelistToken(t)
           \/ Pause \/ Unpause
           \/ \E bps \in FeeChoices : SetProtocolFee(bps)
           \/ \E a \in Addresses : SetFeeRecipient(a)
           \/ UNCHANGED poolVars
  <2>1. UNCHANGED treeVars /\ UNCHANGED <<balance, totals>>
    BY <1>3 DEF WhitelistToken, DelistToken, Pause, Unpause, SetProtocolFee,
                SetFeeRecipient, logVars, poolVars
  <2> QED BY <2>1, AdminEscrow DEF Owed, Paid, Unpaid
<1>4. CASE \E t \in Tokens, to \in Addresses, amount \in Amounts :
             EmergencyWithdraw(t, to, amount)
  <2>1. PICK t \in Tokens, to \in Addresses, amount \in Amounts :
          EmergencyWithdraw(t, to, amount)
    BY <1>4
  <2>2. UNCHANGED treeVars
    BY <2>1 DEF EmergencyWithdraw
  <2>3. \A u \in Tokens : Owed(u)' = Owed(u)
    BY <2>1, WithdrawalCounted
  <2> QED BY <2>2, <2>3, AdminEscrow
<1> QED BY <1>1, <1>2, <1>3, <1>4 DEF Next

(***************************************************************************)
(* A new pool holds nothing and owes nothing.                              *)
(***************************************************************************)
LEMMA EscrowInitially == Init => EscrowAccounted
<1> SUFFICES ASSUME Init, NEW t \in Tokens PROVE Value(Unspent, t) = Owed(t)
  BY EscrowUnfolded
<1>1. Unspent = {} BY DEF Init, Unspent
<1>2. balance[t][Pool] = 0 /\ totals[t] = NoTotals
  BY DEF Init, Addresses
<1>3. Owed(t) = 0
  BY <1>2 DEF Owed, Paid, Unpaid, NoTotals
<1> QED BY <1>1, <1>3, ValueType

(***************************************************************************)
(* For every number of tokens, notes, callers and calls, and whatever the  *)
(* fee was: what the unspent notes of a token are worth and what was paid  *)
(* for them differ by the shields that committed to something else than    *)
(* they deposited, and the notes that a spend named twice, and by nothing  *)
(* else.                                                                   *)
(***************************************************************************)
THEOREM EscrowCorrect == Spec => []EscrowAccounted
<1> QED BY EscrowInitially, EscrowStep, PoolInvariant, PTL DEF Spec

(***************************************************************************)
(* The log, replayed.                                                      *)
(***************************************************************************)
LogFold == INSTANCE Folding WITH op <- LAMBDA x, y : Applied(y, x), choose <- Max

NoView == [leaves |-> << >>, spent |-> {}]

(***************************************************************************)
(* FoldLeft takes the events from the last one down.                       *)
(***************************************************************************)
LEMMA LastIsMax ==
  ASSUME NEW n \in Nat
  PROVE  /\ LogFold!Chooses(1..n)
         /\ n > 0 => Max(1..n) = n
<1>1. ASSUME NEW T \in SUBSET (1..n), T # {} PROVE Max(T) \in T
  <2>1. \E x \in T : \A y \in T : x >= y
    BY <1>1, LogFold!Rec!HasMax
  <2> QED BY <2>1 DEF Max
<1>2. ASSUME n > 0 PROVE Max(1..n) = n
  <2>1. \A x \in 1..n : (\A y \in 1..n : x >= y) <=> x = n
    BY <1>2
  <2> QED BY <1>2, <2>1 DEF Max
<1> QED BY <1>1, <1>2 DEF LogFold!Chooses

(***************************************************************************)
(* Replaying a longer log is replaying the log and one more event.         *)
(***************************************************************************)
LEMMA ReplayAppend ==
  ASSUME NEW E, NEW s \in Seq(E), NEW e \in E
  PROVE  FoldLeft(Applied, NoView, Append(s, e))
           = Applied(FoldLeft(Applied, NoView, s), e)
<1> DEFINE n == Len(s)
<1>1. \A t : FoldLeft(Applied, NoView, t) = LogFold!Fold(NoView, t, DOMAIN t)
  BY DEF FoldLeft, MapThenFoldSet, LogFold!Fold
<1>2. /\ n \in Nat /\ DOMAIN s = 1..n /\ DOMAIN Append(s, e) = 1..n + 1
  OBVIOUS
<1>3. LogFold!Chooses(1..n + 1) /\ Max(1..n + 1) = n + 1
  BY <1>2, LastIsMax
<1>4. LogFold!Fold(NoView, Append(s, e), 1..n + 1)
        = Applied(LogFold!Fold(NoView, s, 1..n), e)
  BY <1>3, LogFold!FoldAppend
<1> QED BY <1>1, <1>2, <1>4

(***************************************************************************)
(* An event logged takes the view replayed before it to the view after it. *)
(***************************************************************************)
LEMMA ReplayStep ==
  ASSUME TypeOK, LogRebuildsTree, NEW e, events' = Append(events, e),
         events' \in Seq(EventType)
  PROVE  Replayed' = Applied([leaves |-> leaves, spent |-> spentNullifiers], e)
<1>1. events \in Seq(EventType)
  BY DEF TypeOK
<1>2. e \in EventType
  <2>1. Append(events, e)[Len(events) + 1] = e /\ Len(events) \in Nat
    BY <1>1
  <2>2. Len(events) + 1 \in 1..Len(Append(events, e))
    BY <1>1
  <2> QED BY <2>1, <2>2
<1>3. FoldLeft(Applied, NoView, Append(events, e))
        = Applied(FoldLeft(Applied, NoView, events), e)
  BY <1>1, <1>2, ReplayAppend
<1>4. Replayed = FoldLeft(Applied, NoView, events)
  BY DEF Replayed, NoView
<1>5. Replayed' = FoldLeft(Applied, NoView, Append(events, e))
  BY DEF Replayed, NoView
<1> QED BY <1>3, <1>4, <1>5 DEF LogRebuildsTree

(***************************************************************************)
(* A shield is replayed as the leaf it has inserted.                       *)
(***************************************************************************)
LEMMA ShieldReplays ==
  ASSUME TypeOK, TypeOK', LogRebuildsTree, NEW from, NEW p, Shield(from, p)
  PROVE  LogRebuildsTree'
<1> DEFINE view == [leaves |-> leaves, spent |-> spentNullifiers]
           c == p.commitment
           e == [type |-> "Shielded", token |-> p.token,
                 netAmount |-> p.amount - ComputeFee(p.amount),
                 fee |-> ComputeFee(p.amount), commitment |-> c,
                 leafIndex |-> Len(leaves)]
<1>1. /\ events' = Append(events, e) /\ events' \in Seq(EventType)
      /\ leaves' = Append(leaves, c)
      /\ spentNullifiers' = spentNullifiers
  BY DEF Shield, TypeOK
<1>2. e.type = "Shielded" /\ e.leafIndex = Len(leaves) /\ e.commitment = c
  OBVIOUS
<1> HIDE DEF e, c
<1>3. Replayed' = Applied(view, e)
  BY <1>1, ReplayStep
<1>4. Applied(view, e) = [leaves |-> Append(leaves, c), spent |-> spentNullifiers]
  BY <1>2 DEF Applied
<1> QED BY <1>1, <1>3, <1>4 DEF LogRebuildsTree

(***************************************************************************)
(* A spend is replayed as the leaves it has inserted and its nullifiers.   *)
(***************************************************************************)
LEMMA SpendReplays ==
  ASSUME TypeOK, TypeOK', LogRebuildsTree, NEW in, NEW p, Spend(in, p)
  PROVE  LogRebuildsTree'
<1> DEFINE view == [leaves |-> leaves, spent |-> spentNullifiers]
           e == [type |-> "Spent", token |-> p.token, nullifiers |-> p.nullifiers,
                 newCommitments |-> p.newCommitments, publicAmount |-> p.publicAmount]
<1>1. /\ events' = Append(events, e) /\ events' \in Seq(EventType)
      /\ leaves' = WithOutputs(leaves, p.newCommitments)
      /\ spentNullifiers' = spentNullifiers \cup NonZero(Range(p.nullifiers))
  BY DEF Spend, TypeOK
<1>2. /\ e.type = "Spent" /\ e.nullifiers = p.nullifiers
      /\ e.newCommitments = p.newCommitments
  OBVIOUS
<1> HIDE DEF e
<1>3. Replayed' = Applied(view, e)
  BY <1>1, ReplayStep
<1>4. Applied(view, e) =
        [leaves |-> WithOutputs(leaves, p.newCommitments),
         spent |-> spentNullifiers \cup NonZero(Range(p.nullifiers))]
  BY <1>2 DEF Applied, WithOutputs
<1> QED BY <1>1, <1>3, <1>4 DEF LogRebuildsTree

(***************************************************************************)
(* Every call logs what a client needs to follow it.                       *)
(***************************************************************************)
LEMMA LogStep == PoolRight /\ PoolRight' /\ LogRebuildsTree /\ [Next]_poolVars => LogRebuildsTree'
<1> SUFFICES ASSUME PoolRight, PoolRight', LogRebuildsTree, [Next]_poolVars
             PROVE  LogRebuildsTree'
  OBVIOUS
<1> DEFINE view == [leaves |-> leaves, spent |-> spentNullifiers]
<1>0. TypeOK /\ TypeOK' /\ events' \in Seq(EventType)
  BY DEF PoolRight, TypeOK
<1>1. CASE AnyShield
  BY <1>0, <1>1, ShieldReplays DEF AnyShield
<1>2. CASE AnySpend
  BY <1>0, <1>2, SpendReplays DEF AnySpend
<1>3. CASE \E t \in Tokens, to \in Addresses, amount \in Amounts :
             EmergencyWithdraw(t, to, amount)
  <2>1. PICK t \in Tokens, to \in Addresses, amount \in Amounts :
          EmergencyWithdraw(t, to, amount)
    BY <1>3
  <2> DEFINE e == [type |-> "EmergencyWithdrawal", token |-> t, amount |-> amount]
  <2>2. events' = Append(events, e) /\ UNCHANGED treeVars
    BY <2>1 DEF EmergencyWithdraw
  <2>3. e.type = "EmergencyWithdrawal"
    OBVIOUS
  <2> HIDE DEF e
  <2>4. Replayed' = Applied(view, e)
    BY <1>0, <2>2, ReplayStep
  <2>5. Applied(view, e) = view
    BY <2>3 DEF Applied
  <2> QED BY <2>2, <2>4, <2>5 DEF LogRebuildsTree, treeVars
<1>4. CASE \/ \E t \in Tokens : WhitelistToken(t) \/ DelistToken(t)
           \/ Pause \/ Unpause
           \/ \E bps \in FeeChoices : SetProtocolFee(bps)
           \/ \E a \in Addresses : SetFeeRecipient(a)
           \/ UNCHANGED poolVars
  <2>1. UNCHANGED <<treeVars, events>>
    BY <1>4 DEF WhitelistToken, DelistToken, Pause, Unpause, SetProtocolFee,
                SetFeeRecipient, logVars, poolVars
  <2> QED BY <2>1 DEF LogRebuildsTree, Replayed, treeVars
<1> QED BY <1>1, <1>2, <1>3, <1>4 DEF Next

(***************************************************************************)
(* Replaying no events gives the empty tree.                               *)
(***************************************************************************)
LEMMA LogInitially == Init => LogRebuildsTree
<1> SUFFICES ASSUME Init PROVE LogRebuildsTree
  OBVIOUS
<1>1. events = << >> /\ leaves = << >> /\ spentNullifiers = {}
  BY DEF Init
<1>2. FoldLeft(Applied, NoView, << >>) = LogFold!Fold(NoView, << >>, DOMAIN << >>)
  BY DEF FoldLeft, MapThenFoldSet, LogFold!Fold
<1>3. DOMAIN << >> = {}
  OBVIOUS
<1>4. LogFold!Fold(NoView, << >>, {}) = NoView
  BY LogFold!FoldEmpty
<1> QED BY <1>1, <1>2, <1>3, <1>4 DEF LogRebuildsTree, Replayed, NoView

(***************************************************************************)
(* A client that replays the log of any length rebuilds the contract's     *)
(* leaves, in their order, and its nullifiers.                             *)
(***************************************************************************)
THEOREM LogCorrect == Spec => []LogRebuildsTree
<1> QED BY LogInitially, LogStep, PoolInvariant, PTL DEF Spec
-----------------------------------------------------------------------------
(***************************************************************************)
(* The calls that the SDK makes, and what they keep beyond PoolRight: it   *)
(* selects two notes, makes two outputs and deposits what a note is worth. *)
(***************************************************************************)
TreeHoldsKnownOnce ==
  /\ Range(leaves) = knownCommitments
  /\ IsInjective(leaves)
  /\ Len(leaves) <= Capacity

IInv == TypeOK /\ TreeHoldsKnownOnce /\ SpentWereKnown

CallersPay ==
  \A t \in Tokens :
    /\ totals[t].committed = totals[t].deposited
    /\ totals[t].twiceIn = 0 /\ totals[t].twiceOut = 0

ShieldParams(c) ==
  [token |-> c.token, amount |-> c.amount, commitment |-> c]

SpendParams(p, in, outs) ==
  /\ in \in Pairs(Range(leaves))
  /\ in[1] # Zero
  /\ outs \in Pairs(Commitment)
  /\ p.token = in[1].token
  /\ p.nullifiers = [i \in 1..2 |-> SlotNullifier(in[i])]
  /\ p.newCommitments = outs
  /\ p.publicAmount \in Nat
  /\ p.recipient \in Accounts \cup {Zero}

(***************************************************************************)
(* They are calls that anyone may make.                                    *)
(***************************************************************************)
LEMMA IInvIsRight == IInv => PoolRight
BY DEF IInv, TreeHoldsKnownOnce, PoolRight, InsertedByOneCall, IsInjective, TypeOK

LEMMA RightIsIInv ==
  /\ PoolRight /\ IsInjective(leaves) => IInv
  /\ PoolRight' /\ IsInjective(leaves)' => IInv'
BY DEF IInv, TreeHoldsKnownOnce, PoolRight, InsertedByOneCall

LEMMA PairsInRange ==
  ASSUME NEW S, NEW pair \in Pairs(S)
  PROVE  /\ pair \in [1..2 -> S \cup {Zero}]
         /\ pair[1] = pair[2] => pair[1] = Zero
         /\ Repeated(pair) = 0
<1>1. pair \in [1..2 -> S \cup {Zero}] /\ (pair[1] = pair[2] => pair[1] = Zero)
  BY DEF Pairs
<1> QED BY <1>1 DEF Repeated, SlotAmount

LEMMA ShieldInRange ==
  ASSUME NEW c \in Commitment
  PROVE  ShieldRange(ShieldParams(c))
BY PoolAssumption DEF ShieldRange, ShieldParams, Commitment

LEMMA SpendInRange ==
  ASSUME IInv, NEW p, NEW in, NEW outs, SpendParams(p, in, outs)
  PROVE  SpendRange(p, in, outs)
<1>1. in \in [1..2 -> Range(leaves) \cup {Zero}]
  BY PairsInRange DEF SpendParams
<1>2. outs \in [1..2 -> Slot]
  BY PairsInRange DEF SpendParams, Slot
<1>3. in[1] \in Commitment
  <2>1. Range(leaves) \subseteq Commitment
    BY DEF IInv, TreeHoldsKnownOnce, TypeOK
  <2> QED BY <1>1, <2>1 DEF SpendParams
<1>4. p.token \in Tokens
  BY <1>3 DEF SpendParams, Commitment
<1> QED BY <1>1, <1>2, <1>4 DEF SpendParams, SpendRange, Addresses

(***************************************************************************)
(* They never repeat a leaf.                                               *)
(***************************************************************************)
LEMMA InitIInv == Init => IInv
<1>1. Init => leaves = << >>
  BY DEF Init
<1>2. IsInjective(<< >>)
  BY DEF IsInjective
<1> QED BY <1>1, <1>2, InitRight, RightIsIInv

LEMMA ShieldIInv ==
  ASSUME IInv, NEW from \in Accounts, NEW c \in Commitment,
         Shield(from, ShieldParams(c))
  PROVE  IInv'
<1>1. PoolRight'
  BY IInvIsRight, ShieldInRange, ShieldKeepsRight
<1>2. leaves' = Append(leaves, c) /\ c \notin knownCommitments
  BY DEF Shield, ShieldAccepted, ShieldParams
<1>3. leaves \in Seq(Commitment) /\ IsInjective(leaves) /\ Range(leaves) = knownCommitments
  BY DEF IInv, TypeOK, TreeHoldsKnownOnce
<1>4. IsInjective(leaves')
  BY <1>2, <1>3, AppendDistinct
<1> QED BY <1>1, <1>4, RightIsIInv

LEMMA SpendIInv ==
  ASSUME IInv, NEW p, NEW in, NEW outs, SpendParams(p, in, outs), Spend(in, p)
  PROVE  IInv'
<1>1. PoolRight'
  BY IInvIsRight, SpendInRange, SpendKeepsRight
<1>2. /\ leaves' = WithOutputs(leaves, outs) /\ outs \in Pairs(Commitment)
      /\ \A i \in 1..2 : outs[i] \notin knownCommitments
  BY DEF Spend, SpendAccepted, NewOutputs, SpendParams
<1>3. leaves \in Seq(Commitment) /\ IsInjective(leaves) /\ Range(leaves) = knownCommitments
  BY DEF IInv, TypeOK, TreeHoldsKnownOnce
<1>4. IsInjective(leaves')
  BY <1>2, <1>3, WithOutputsDistinct
<1> QED BY <1>1, <1>4, RightIsIInv

(***************************************************************************)
(* They pay for what they commit to.                                       *)
(***************************************************************************)
LEMMA ShieldPays ==
  ASSUME IInv, CallersPay, NEW from \in Accounts, NEW c \in Commitment,
         Shield(from, ShieldParams(c))
  PROVE  CallersPay'
<1> DEFINE t == c.token
           amount == c.amount
           fee == ComputeFee(amount)
           own == ToItself(feeRecipient, fee)
           p == ShieldParams(c)
<1>1. p.token = t /\ p.amount = amount /\ p.commitment = c /\ ShieldRange(p) /\ TypeOK
  BY ShieldInRange DEF ShieldParams, IInv
<1>2. ShieldAdded(totals', totals, t, t, amount, fee, own, amount)
  BY <1>1, ShieldCounts
<1> HIDE DEF t, amount, fee, own
<1>3. totals'[t].deposited = totals[t].deposited + amount
      /\ totals'[t].committed = totals[t].committed + amount
  BY <1>2 DEF ShieldAdded
<1>4. t \in Tokens
  BY <1>1 DEF ShieldRange
<1> SUFFICES ASSUME NEW u \in Tokens
             PROVE  /\ totals'[u].committed = totals'[u].deposited
                    /\ totals'[u].twiceIn = 0 /\ totals'[u].twiceOut = 0
  BY DEF CallersPay
<1>5. totals'[u].twiceIn = totals[u].twiceIn /\ totals'[u].twiceOut = totals[u].twiceOut
  BY <1>2 DEF ShieldAdded
<1>6. totals'[u].committed = totals'[u].deposited
  <2>1. CASE u = t
    BY <1>3, <1>4, <2>1 DEF CallersPay
  <2>2. CASE u # t
    <3>1. totals'[u].deposited = totals[u].deposited
          /\ totals'[u].committed = totals[u].committed
      BY <1>2, <2>2 DEF ShieldAdded
    <3> QED BY <3>1 DEF CallersPay
  <2> QED BY <2>1, <2>2
<1> QED BY <1>5, <1>6 DEF CallersPay

LEMMA SpendPays ==
  ASSUME IInv, CallersPay, NEW p, NEW in, NEW outs, SpendParams(p, in, outs), Spend(in, p)
  PROVE  CallersPay'
<1> DEFINE t == p.token
           amount == p.publicAmount
           own == ReleasedToItself(amount, p.recipient)
<1>1. SpendRange(p, in, outs) /\ TypeOK
  BY SpendInRange DEF IInv
<1>2. Repeated(in) = 0 /\ Repeated(outs) = 0
  BY PairsInRange DEF SpendParams
<1>3. SpendAdded(totals', totals, t, amount, own, 0, 0)
  BY <1>1, <1>2, SpendCounts
<1> HIDE DEF t, amount, own
<1> SUFFICES ASSUME NEW u \in Tokens
             PROVE  /\ totals'[u].committed = totals'[u].deposited
                    /\ totals'[u].twiceIn = 0 /\ totals'[u].twiceOut = 0
  BY DEF CallersPay
<1>4. CASE u = t
  <2>1. /\ totals'[t].committed = totals[t].committed
        /\ totals'[t].deposited = totals[t].deposited
        /\ totals'[t].twiceIn = totals[t].twiceIn + 0
        /\ totals'[t].twiceOut = totals[t].twiceOut + 0
    BY <1>3 DEF SpendAdded
  <2> QED BY <1>4, <2>1 DEF CallersPay
<1>5. CASE u # t
  <2>1. totals'[u] = totals[u]
    BY <1>3, <1>5 DEF SpendAdded
  <2> QED BY <2>1 DEF CallersPay
<1> QED BY <1>4, <1>5

-----------------------------------------------------------------------------
(* The memory of a NoteManager, against the tree and the nullifiers of the *)
(* contract: what every session keeps true, whichever events reach it.     *)

Extends(t, s) == Len(s) <= Len(t) /\ \A j \in 1..Len(s) : t[j] = s[j]

\* c is the leaf of index i of s.
IsLeafAt(s, i, c) == i < Len(s) /\ s[i + 1] = c

Note == [index : Nat, path : Seq(Commitment), spent : BOOLEAN]

\* The note of c, in a memory with those leaves and nullifiers.
NoteRight(n, c, kept, heard, tree, dead) ==
  /\ n \in Note
  /\ IsLeafAt(tree, n.index, c) \/ IsLeafAt(kept, n.index, c)
  /\ n.spent => Nullifier(c) \in dead
  /\ Nullifier(c) \in heard => n.spent

IsMemory(v) == v = [leaves |-> v.leaves, root |-> v.root, owned |-> v.owned, spent |-> v.spent]

LeavesRight(s, tree) ==
  s \in Seq(Commitment) /\ IsInjective(s) /\ Range(s) \subseteq Range(tree)

RootRight(r, s) == r # Zero => \E n \in 0..Len(s) : r = RootOf(SubSeq(s, 1, n))

MemoryRight(v, tree, dead) ==
  /\ IsMemory(v)
  /\ LeavesRight(v.leaves, tree)
  /\ RootRight(v.root, v.leaves)
  /\ v.spent \subseteq dead
  /\ DOMAIN v.owned \subseteq Range(tree)
  /\ \A c \in DOMAIN v.owned : NoteRight(v.owned[c], c, v.leaves, v.spent, tree, dead)

(***************************************************************************)
(* A longer sequence has the same beginnings.                              *)
(***************************************************************************)
LEMMA SameBeginning ==
  ASSUME NEW S, NEW s \in Seq(S), NEW t \in Seq(S), Extends(t, s), NEW n \in 0..Len(s)
  PROVE  SubSeq(t, 1, n) = SubSeq(s, 1, n) /\ n \in 0..Len(t)
<1>1. /\ n \in Nat /\ n <= Len(s) /\ n <= Len(t) /\ Len(s) \in Nat /\ Len(t) \in Nat
      /\ \A j \in 1..n : t[j] = s[j]
  BY DEF Extends
<1>2. SubSeq(t, 1, n) = [j \in 1..n |-> t[j]]
  BY <1>1
<1>3. SubSeq(s, 1, n) = [j \in 1..n |-> s[j]]
  BY <1>1
<1> QED BY <1>1, <1>2, <1>3

(***************************************************************************)
(* What a leaf is, it stays.                                               *)
(***************************************************************************)
LEMMA LeafStays ==
  ASSUME NEW S, NEW s \in Seq(S), NEW t \in Seq(S), Extends(t, s),
         NEW i \in Nat, NEW c, IsLeafAt(s, i, c)
  PROVE  IsLeafAt(t, i, c)
<1>1. i < Len(s) /\ s[i + 1] = c /\ Len(s) \in Nat /\ Len(t) \in Nat
  BY DEF IsLeafAt
<1>2. i + 1 \in 1..Len(s)
  BY <1>1
<1>3. Len(s) <= Len(t) /\ t[i + 1] = s[i + 1]
  BY <1>2 DEF Extends
<1> QED BY <1>1, <1>3 DEF IsLeafAt

(***************************************************************************)
(* Extending is reflexive; an insertion extends.                           *)
(***************************************************************************)
LEMMA WithLeafExtends ==
  ASSUME NEW S, NEW s \in Seq(S), NEW c \in S \cup {Zero}
  PROVE  Extends(s, s) /\ WithLeaf(s, c) \in Seq(S) /\ Extends(WithLeaf(s, c), s)
<1>1. Extends(s, s)
  BY DEF Extends
<1>2. CASE c = Zero
  BY <1>1, <1>2 DEF WithLeaf
<1>3. CASE c # Zero
  <2>1. c \in S /\ WithLeaf(s, c) = Append(s, c) BY <1>3 DEF WithLeaf
  <2>2. Append(s, c) \in Seq(S) /\ Extends(Append(s, c), s)
    BY <2>1 DEF Extends
  <2> QED BY <1>1, <2>1, <2>2
<1> QED BY <1>2, <1>3

(***************************************************************************)
(* So do the insertions of a spend.                                        *)
(***************************************************************************)
LEMMA WithOutputsExtends ==
  ASSUME NEW S, NEW s \in Seq(S), NEW outs \in Pairs(S)
  PROVE  WithOutputs(s, outs) \in Seq(S) /\ Extends(WithOutputs(s, outs), s)
<1> DEFINE t == WithLeaf(s, outs[1])
           u == WithLeaf(t, outs[2])
<1>1. outs[1] \in S \cup {Zero} /\ outs[2] \in S \cup {Zero}
  BY DEF Pairs
<1>2. t \in Seq(S) /\ Extends(t, s)
  BY <1>1, WithLeafExtends
<1>3. u \in Seq(S) /\ Extends(u, t)
  <2> HIDE DEF t
  <2> QED BY <1>1, <1>2, WithLeafExtends
<1>4. WithOutputs(s, outs) = u
  BY DEF WithOutputs
<1> HIDE DEF t, u
<1>5. Extends(u, s)
  <2>1. Len(s) \in Nat /\ Len(t) \in Nat /\ Len(u) \in Nat BY <1>2, <1>3
  <2>2. \A j \in 1..Len(s) : j \in 1..Len(t) BY <1>2, <2>1 DEF Extends
  <2> QED BY <1>2, <1>3, <2>1, <2>2 DEF Extends
<1> QED BY <1>3, <1>4, <1>5

(***************************************************************************)
(* Distinct leaves of the contract's tree are no more than it has.         *)
(***************************************************************************)
LEMMA NoMoreLeaves ==
  ASSUME NEW s \in Seq(Commitment), NEW t \in Seq(Commitment),
         IsInjective(s), Range(s) \subseteq Range(t)
  PROVE  Len(s) <= Len(t)
<1> DEFINE m == Len(s)
           n == Len(t)
<1>1. m \in Nat /\ n \in Nat /\ DOMAIN s = 1..m /\ DOMAIN t = 1..n
  OBVIOUS
<1>2. IsFiniteSet(1..n) /\ Cardinality(1..n) = n /\ IsFiniteSet(1..m) /\ Cardinality(1..m) = m
  <2>1. ASSUME NEW k \in Nat PROVE IsFiniteSet(1..k) /\ Cardinality(1..k) = k
    <3>1. IsFiniteSet(1..k) /\ Cardinality(1..k) = IF 1 > k THEN 0 ELSE k - 1 + 1
      BY FS_Interval
    <3> QED BY <3>1
  <2> QED BY <1>1, <2>1
<1> DEFINE at == [i \in 1..m |-> CHOOSE j \in 1..n : t[j] = s[i]]
<1>3. ASSUME NEW i \in 1..m PROVE at[i] \in 1..n /\ t[at[i]] = s[i]
  <2>1. s[i] \in Range(t) BY <1>1 DEF Range
  <2>2. \E j \in 1..n : t[j] = s[i] BY <1>1, <2>1 DEF Range
  <2> QED BY <2>2
<1>4. at \in [1..m -> 1..n] /\ \A i, j \in 1..m : at[i] = at[j] => i = j
  <2>1. at \in [1..m -> 1..n] BY <1>3
  <2>2. ASSUME NEW i \in 1..m, NEW j \in 1..m, at[i] = at[j] PROVE i = j
    <3> HIDE DEF at
    <3>1. s[i] = s[j] BY <1>3, <2>2
    <3> QED BY <1>1, <3>1 DEF IsInjective
  <2> QED BY <2>1, <2>2
<1> HIDE DEF at
<1>5. at \in Injection(1..m, 1..n)
  BY <1>4 DEF Injection, IsInjective
<1> QED BY <1>1, <1>2, <1>5, FS_Injection

(***************************************************************************)
(* A note is right for longer trees and for more spent nullifiers.         *)
(***************************************************************************)
LEMMA NoteStays ==
  ASSUME NEW kept \in Seq(Commitment), NEW kept2 \in Seq(Commitment), Extends(kept2, kept),
         NEW tree \in Seq(Commitment), NEW tree2 \in Seq(Commitment), Extends(tree2, tree),
         NEW dead, NEW dead2, dead \subseteq dead2, NEW heard, NEW n, NEW c,
         NoteRight(n, c, kept, heard, tree, dead)
  PROVE  NoteRight(n, c, kept2, heard, tree2, dead2)
<1>1. n \in Note /\ n.index \in Nat
  BY DEF NoteRight, Note
<1>2. IsLeafAt(tree, n.index, c) => IsLeafAt(tree2, n.index, c)
  BY <1>1, LeafStays
<1>3. IsLeafAt(kept, n.index, c) => IsLeafAt(kept2, n.index, c)
  BY <1>1, LeafStays
<1> QED BY <1>1, <1>2, <1>3 DEF NoteRight

(***************************************************************************)
(* A root that was one of some leaves is one of what they grow to.         *)
(***************************************************************************)
LEMMA RootStays ==
  ASSUME NEW s \in Seq(Commitment), NEW t \in Seq(Commitment), Extends(t, s),
         NEW r, RootRight(r, s)
  PROVE  RootRight(r, t)
<1> SUFFICES ASSUME r # Zero PROVE \E n \in 0..Len(t) : r = RootOf(SubSeq(t, 1, n))
  BY DEF RootRight
<1>1. PICK n \in 0..Len(s) : r = RootOf(SubSeq(s, 1, n))
  BY DEF RootRight
<1>2. SubSeq(t, 1, n) = SubSeq(s, 1, n) /\ n \in 0..Len(t)
  BY SameBeginning
<1> QED BY <1>1, <1>2

(***************************************************************************)
(* A memory stays right while the contract's tree and nullifiers grow.     *)
(***************************************************************************)
LEMMA MemoryGrows ==
  ASSUME NEW v, NEW tree \in Seq(Commitment), NEW tree2 \in Seq(Commitment),
         Extends(tree2, tree), NEW dead, NEW dead2, dead \subseteq dead2,
         MemoryRight(v, tree, dead)
  PROVE  MemoryRight(v, tree2, dead2)
<1>1. Range(tree) \subseteq Range(tree2)
  BY DEF Extends, Range
<1>2. v.leaves \in Seq(Commitment) /\ Extends(v.leaves, v.leaves)
  BY DEF MemoryRight, LeavesRight, Extends
<1>3. ASSUME NEW c \in DOMAIN v.owned
      PROVE  NoteRight(v.owned[c], c, v.leaves, v.spent, tree2, dead2)
  <2>1. NoteRight(v.owned[c], c, v.leaves, v.spent, tree, dead)
    BY DEF MemoryRight
  <2> QED BY <1>2, <2>1, NoteStays
<1> QED BY <1>1, <1>3 DEF MemoryRight, LeavesRight

-----------------------------------------------------------------------------
\* The leaves an event of the log inserts, and what makes it news of that tree.
OutsOf(e) ==
  IF e.type = "Shielded" THEN {e.commitment} ELSE NonZero(Range(e.newCommitments))

EventSound(e, tree, dead) ==
  /\ OutsOf(e) \subseteq Range(tree)
  /\ \/ e.type = "Shielded" /\ e.commitment \in Commitment
     \/ /\ e.type = "Spent"
        /\ e.newCommitments \in Pairs(Commitment)
        /\ NonZero(Range(e.nullifiers)) \subseteq dead

Refreshed(n, kept) == IF n.index < Len(kept) THEN [n EXCEPT !.path = kept] ELSE n

\* What a memory becomes with those leaves and those nullifiers heard of.
Updated(v, kept, heard) ==
  [leaves |-> kept, root |-> v.root,
   owned |-> [c \in DOMAIN v.owned |->
                Refreshed(IF Nullifier(c) \in heard
                          THEN [v.owned[c] EXCEPT !.spent = TRUE] ELSE v.owned[c], kept)],
   spent |-> v.spent \cup heard]

(***************************************************************************)
(* The leaves of a memory grow by those of an event they do not hold: they *)
(* stay leaves of the tree, each once.                                     *)
(***************************************************************************)
LEMMA LeavesGrow ==
  ASSUME NEW tree \in Seq(Commitment), NEW s, LeavesRight(s, tree),
         NEW outs \in Pairs(Commitment), NonZero(Range(outs)) \subseteq Range(tree),
         NonZero(Range(outs)) \cap Range(s) = {}
  PROVE  /\ LeavesRight(WithOutputs(s, outs), tree)
         /\ Extends(WithOutputs(s, outs), s)
         /\ Range(WithOutputs(s, outs)) = Range(s) \cup NonZero(Range(outs))
<1>1. s \in Seq(Commitment) /\ IsInjective(s) /\ Range(s) \subseteq Range(tree)
  BY DEF LeavesRight
<1>2. Range(s) \subseteq Commitment
  BY <1>1 DEF Range
<1>3. \A i \in 1..2 : outs[i] \notin Range(s)
  <2>1. \A i \in 1..2 : outs[i] \in Range(outs)
    BY DEF Pairs, Range
  <2> QED BY <1>2, <2>1, ZeroIsNoHash DEF NonZero
<1>4. /\ WithOutputs(s, outs) \in Seq(Commitment)
      /\ Range(WithOutputs(s, outs)) = Range(s) \cup NonZero(Range(outs))
      /\ IsInjective(WithOutputs(s, outs))
  BY <1>1, <1>3, WithOutputsDistinct
<1>5. Extends(WithOutputs(s, outs), s)
  BY <1>1, WithOutputsExtends
<1> QED BY <1>1, <1>4, <1>5 DEF LeavesRight

(***************************************************************************)
(* Leaves and nullifiers that are the contract's keep a memory right.      *)
(***************************************************************************)
LEMMA UpdatedRight ==
  ASSUME NEW tree \in Seq(Commitment), NEW dead, NEW v, MemoryRight(v, tree, dead),
         NEW kept, LeavesRight(kept, tree), Extends(kept, v.leaves),
         NEW heard, heard \subseteq dead
  PROVE  MemoryRight(Updated(v, kept, heard), tree, dead)
<1> DEFINE u == Updated(v, kept, heard)
<1>1. /\ u.leaves = kept /\ u.root = v.root /\ u.spent = v.spent \cup heard
      /\ DOMAIN u.owned = DOMAIN v.owned /\ IsMemory(u)
  BY DEF Updated, IsMemory
<1>2. /\ v.leaves \in Seq(Commitment) /\ kept \in Seq(Commitment)
      /\ RootRight(v.root, v.leaves) /\ v.spent \subseteq dead
      /\ DOMAIN v.owned \subseteq Range(tree)
  BY DEF MemoryRight, LeavesRight
<1>3. RootRight(v.root, kept)
  BY <1>2, RootStays
<1>4. ASSUME NEW c \in DOMAIN v.owned
      PROVE  NoteRight(u.owned[c], c, kept, v.spent \cup heard, tree, dead)
  <2> DEFINE n == v.owned[c]
             m == IF Nullifier(c) \in heard THEN [n EXCEPT !.spent = TRUE] ELSE n
  <2>1. NoteRight(n, c, v.leaves, v.spent, tree, dead)
    BY DEF MemoryRight
  <2>2. Extends(tree, tree) BY DEF Extends
  <2>3. NoteRight(n, c, kept, v.spent, tree, dead)
    BY <1>2, <2>1, <2>2, NoteStays
  <2>4. u.owned[c] = Refreshed(m, kept)
    BY DEF Updated
  <2> HIDE DEF n
  <2>5. n \in Note /\ n.spent \in BOOLEAN
    BY <2>3 DEF NoteRight, Note
  <2>6. /\ m \in Note /\ m.index = n.index
        /\ m.spent = (n.spent \/ Nullifier(c) \in heard)
    <3>1. CASE Nullifier(c) \in heard
      <4>1. m = [n EXCEPT !.spent = TRUE] BY <3>1
      <4> QED BY <2>5, <3>1, <4>1 DEF Note
    <3>2. CASE Nullifier(c) \notin heard
      <4>1. m = n BY <3>2
      <4> QED BY <2>5, <3>2, <4>1
    <3> QED BY <3>1, <3>2
  <2> HIDE DEF m
  <2> DEFINE r == Refreshed(m, kept)
  <2>7. r \in Note /\ r.index = m.index /\ r.spent = m.spent
    <3>1. m \in Note /\ kept \in Seq(Commitment) BY <1>2, <2>6
    <3>2. [m EXCEPT !.path = kept] \in Note /\ [m EXCEPT !.path = kept].index = m.index
          /\ [m EXCEPT !.path = kept].spent = m.spent
      BY <3>1 DEF Note
    <3> QED BY <3>1, <3>2 DEF Refreshed
  <2>8. NoteRight(r, c, kept, v.spent \cup heard, tree, dead)
    <3> HIDE DEF r
    <3> QED BY <2>3, <2>6, <2>7 DEF NoteRight
  <2> QED BY <2>4, <2>8
<1>5. MemoryRight(u, tree, dead)
  <2> HIDE DEF u
  <2> QED BY <1>1, <1>2, <1>3, <1>4 DEF MemoryRight
<1> QED BY <1>5

(***************************************************************************)
(* What an event does to the memory, all fields at once.                   *)
(***************************************************************************)
LEMMA EventUpdates ==
  ASSUME NEW v, IsMemory(v), NEW e
  PROVE  /\ e.type = "Shielded" /\ Len(v.leaves) = e.leafIndex =>
              OnEvent(v, e) = Updated(v, Append(v.leaves, e.commitment), {})
         /\ e.type = "Shielded" /\ Len(v.leaves) # e.leafIndex =>
              OnEvent(v, e) = Updated(v, v.leaves, {})
         /\ e.type # "Shielded" =>
              OnEvent(v, e) = Updated(v, WithOutputs(v.leaves, e.newCommitments),
                                      NonZero(Range(e.nullifiers)))
<1>0. v = [leaves |-> v.leaves, root |-> v.root, owned |-> v.owned, spent |-> v.spent]
  BY DEF IsMemory
<1> DEFINE same(kept) == [v EXCEPT !.leaves = kept]
<1>1. ASSUME NEW kept PROVE RefreshOwnedSiblings([v EXCEPT !.leaves = kept]) = Updated(v, kept, {})
  <2> DEFINE w == [v EXCEPT !.leaves = kept]
  <2>1. w = [leaves |-> kept, root |-> v.root, owned |-> v.owned, spent |-> v.spent]
    BY <1>0
  <2> HIDE DEF w
  <2>2. RefreshOwnedSiblings(w) =
          [leaves |-> kept, root |-> v.root,
           owned |-> [c \in DOMAIN v.owned |-> Refreshed(v.owned[c], kept)],
           spent |-> v.spent]
    BY <2>1 DEF RefreshOwnedSiblings, Refreshed
  <2> QED BY <2>2 DEF Updated, w
<1>2. v = [v EXCEPT !.leaves = v.leaves]
  BY <1>0
<1>3. e.type = "Shielded" /\ Len(v.leaves) = e.leafIndex =>
        OnEvent(v, e) = Updated(v, Append(v.leaves, e.commitment), {})
  BY <1>1 DEF OnEvent, OnShielded, InsertLeaf
<1>4. e.type = "Shielded" /\ Len(v.leaves) # e.leafIndex =>
        OnEvent(v, e) = Updated(v, v.leaves, {})
  BY <1>1, <1>2 DEF OnEvent, OnShielded, InsertLeaf
<1>5. ASSUME e.type # "Shielded"
      PROVE  OnEvent(v, e) = Updated(v, WithOutputs(v.leaves, e.newCommitments),
                                     NonZero(Range(e.nullifiers)))
  <2> DEFINE heard == NonZero(Range(e.nullifiers))
             kept == WithOutputs(v.leaves, e.newCommitments)
             marked == Marked(v, {c \in DOMAIN v.owned : Nullifier(c) \in heard})
             now == [c \in DOMAIN v.owned |->
                       IF Nullifier(c) \in heard
                       THEN [v.owned[c] EXCEPT !.spent = TRUE] ELSE v.owned[c]]
             w == [marked EXCEPT !.spent = @ \cup heard,
                                 !.leaves = WithOutputs(@, e.newCommitments)]
  <2>1. OnEvent(v, e) = RefreshOwnedSiblings(w)
    BY <1>5 DEF OnEvent, OnSpent
  <2>2. marked = [leaves |-> v.leaves, root |-> v.root, owned |-> now, spent |-> v.spent]
    <3>1. marked = [v EXCEPT !.owned = now]
      BY DEF Marked
    <3> HIDE DEF marked, now
    <3> QED BY <1>0, <3>1
  <2>3. w = [leaves |-> kept, root |-> v.root, owned |-> now, spent |-> v.spent \cup heard]
    <3> HIDE DEF marked, now, heard
    <3>1. w = [marked EXCEPT !.spent = v.spent \cup heard, !.leaves = kept]
      BY <2>2
    <3> HIDE DEF kept, w
    <3> QED BY <2>2, <3>1
  <2>4. RefreshOwnedSiblings(w) =
          [leaves |-> kept, root |-> v.root,
           owned |-> [c \in DOMAIN v.owned |-> Refreshed(now[c], kept)],
           spent |-> v.spent \cup heard]
    <3>1. DOMAIN now = DOMAIN v.owned OBVIOUS
    <3> HIDE DEF w, now, kept, heard
    <3>2. w.owned = now /\ w.leaves = kept
      BY <2>3
    <3> DEFINE F == [c \in DOMAIN w.owned |-> Refreshed(w.owned[c], w.leaves)]
    <3>3. RefreshOwnedSiblings(w) = [w EXCEPT !.owned = F]
      BY DEF RefreshOwnedSiblings, Refreshed
    <3>4. F = [c \in DOMAIN v.owned |-> Refreshed(now[c], kept)]
      BY <3>1, <3>2
    <3> HIDE DEF F
    <3> QED BY <2>3, <3>3, <3>4
  <2>5. \A c \in DOMAIN v.owned :
          now[c] = IF Nullifier(c) \in heard
                   THEN [v.owned[c] EXCEPT !.spent = TRUE] ELSE v.owned[c]
    OBVIOUS
  <2> HIDE DEF w, now, kept, heard
  <2>6. RefreshOwnedSiblings(w) = Updated(v, kept, heard)
    BY <2>4, <2>5 DEF Updated
  <2> QED BY <2>1, <2>6 DEF kept, heard
<1> QED BY <1>3, <1>4, <1>5

(***************************************************************************)
(* Whatever sound event reaches a right memory whose leaves are not those  *)
(* of the event yet, in order or not, leaves it right; its leaves grow by  *)
(* those of the event, if at all.                                          *)
(***************************************************************************)
LEMMA EventKeeps ==
  ASSUME NEW tree \in Seq(Commitment), NEW dead, NEW v, MemoryRight(v, tree, dead),
         NEW e, EventSound(e, tree, dead), OutsOf(e) \cap Range(v.leaves) = {}
  PROVE  /\ MemoryRight(OnEvent(v, e), tree, dead)
         /\ Extends(OnEvent(v, e).leaves, v.leaves)
         /\ Range(OnEvent(v, e).leaves) \subseteq Range(v.leaves) \cup OutsOf(e)
         /\ DOMAIN OnEvent(v, e).owned = DOMAIN v.owned
<1>0. IsMemory(v) /\ LeavesRight(v.leaves, tree) /\ v.leaves \in Seq(Commitment)
  BY DEF MemoryRight, LeavesRight
<1>1. \A kept, heard : /\ Updated(v, kept, heard).leaves = kept
                       /\ DOMAIN Updated(v, kept, heard).owned = DOMAIN v.owned
  BY DEF Updated
<1>2. Extends(v.leaves, v.leaves)
  BY <1>0 DEF Extends
<1>3. CASE e.type = "Shielded" /\ Len(v.leaves) = e.leafIndex
  <2> DEFINE c == e.commitment
             kept == Append(v.leaves, c)
  <2>1. OutsOf(e) = {c} /\ c \in Commitment /\ c \in Range(tree) /\ c \notin Range(v.leaves)
    BY <1>3 DEF OutsOf, EventSound
  <2>2. IsInjective(v.leaves) /\ Range(v.leaves) \subseteq Range(tree)
    BY <1>0 DEF LeavesRight
  <2>3. /\ kept \in Seq(Commitment) /\ Range(kept) = Range(v.leaves) \cup {c}
        /\ IsInjective(kept)
    BY <1>0, <2>1, <2>2, AppendDistinct
  <2>4. LeavesRight(kept, tree)
    BY <2>1, <2>2, <2>3 DEF LeavesRight
  <2>5. Extends(kept, v.leaves)
    BY <1>0, <2>1 DEF Extends
  <2>6. OnEvent(v, e) = Updated(v, kept, {})
    BY <1>0, <1>3, EventUpdates
  <2> HIDE DEF kept
  <2> QED BY <1>1, <2>1, <2>3, <2>4, <2>5, <2>6, UpdatedRight
<1>4. CASE e.type = "Shielded" /\ Len(v.leaves) # e.leafIndex
  <2>1. OnEvent(v, e) = Updated(v, v.leaves, {})
    BY <1>0, <1>4, EventUpdates
  <2> QED BY <1>0, <1>1, <1>2, <2>1, UpdatedRight
<1>5. CASE e.type # "Shielded"
  <2> DEFINE kept == WithOutputs(v.leaves, e.newCommitments)
             heard == NonZero(Range(e.nullifiers))
  <2>1. /\ e.newCommitments \in Pairs(Commitment) /\ heard \subseteq dead
        /\ OutsOf(e) = NonZero(Range(e.newCommitments))
        /\ OutsOf(e) \subseteq Range(tree)
    BY <1>5 DEF EventSound, OutsOf
  <2>2. /\ LeavesRight(kept, tree) /\ Extends(kept, v.leaves)
        /\ Range(kept) = Range(v.leaves) \cup OutsOf(e)
    BY <1>0, <2>1, LeavesGrow
  <2>3. OnEvent(v, e) = Updated(v, kept, heard)
    BY <1>0, <1>5, EventUpdates
  <2> HIDE DEF kept, heard
  <2> QED BY <1>1, <2>1, <2>2, <2>3, UpdatedRight
<1> QED BY <1>3, <1>4, <1>5

-----------------------------------------------------------------------------
(***************************************************************************)
(* Marking notes as spent keeps a memory right if their nullifiers are.    *)
(***************************************************************************)
LEMMA MarkedKeeps ==
  ASSUME NEW tree, NEW dead, NEW v, MemoryRight(v, tree, dead),
         NEW notes, \A c \in notes \cap DOMAIN v.owned : Nullifier(c) \in dead
  PROVE  /\ MemoryRight(Marked(v, notes), tree, dead)
         /\ Marked(v, notes).leaves = v.leaves
         /\ DOMAIN Marked(v, notes).owned = DOMAIN v.owned
<1> DEFINE now == [c \in DOMAIN v.owned |->
                     IF c \in notes THEN [v.owned[c] EXCEPT !.spent = TRUE] ELSE v.owned[c]]
           u == Marked(v, notes)
<1>1. u = [leaves |-> v.leaves, root |-> v.root, owned |-> now, spent |-> v.spent]
  <2>1. u = [v EXCEPT !.owned = now]
    BY DEF Marked
  <2> HIDE DEF u, now
  <2> QED BY <2>1 DEF MemoryRight, IsMemory
<1>2. ASSUME NEW c \in DOMAIN v.owned
      PROVE  NoteRight(now[c], c, v.leaves, v.spent, tree, dead)
  <2> DEFINE n == v.owned[c]
  <2>1. NoteRight(n, c, v.leaves, v.spent, tree, dead)
    BY DEF MemoryRight
  <2>2. now[c] = IF c \in notes THEN [n EXCEPT !.spent = TRUE] ELSE n
    OBVIOUS
  <2> HIDE DEF n, now
  <2>3. CASE c \in notes
    <3>1. Nullifier(c) \in dead /\ now[c] = [n EXCEPT !.spent = TRUE]
      BY <2>2, <2>3
    <3>2. n \in Note BY <2>1 DEF NoteRight
    <3>3. now[c] \in Note /\ now[c].index = n.index /\ now[c].spent
      BY <3>1, <3>2 DEF Note
    <3> QED BY <2>1, <3>1, <3>3 DEF NoteRight
  <2>4. CASE c \notin notes
    BY <2>1, <2>2, <2>4
  <2> QED BY <2>3, <2>4
<1>3. DOMAIN now = DOMAIN v.owned
  OBVIOUS
<1>4. MemoryRight(u, tree, dead) /\ u.leaves = v.leaves /\ DOMAIN u.owned = DOMAIN v.owned
  <2> HIDE DEF u, now
  <2> QED BY <1>1, <1>2, <1>3 DEF MemoryRight, IsMemory
<1> QED BY <1>4

(***************************************************************************)
(* A note tracked where its leaf is, in the contract or in the memory, is  *)
(* right: it is spent as soon as the memory has heard so.                  *)
(***************************************************************************)
LEMMA TrackedRight ==
  ASSUME NEW tree, NEW dead, NEW v, MemoryRight(v, tree, dead),
         NEW c, NEW i \in Nat, IsLeafAt(tree, i, c) \/ IsLeafAt(v.leaves, i, c)
  PROVE  NoteRight(Tracked(v, c, i), c, v.leaves, v.spent, tree, dead)
<1> DEFINE n == Tracked(v, c, i)
<1>1. v.leaves \in Seq(Commitment) /\ v.spent \subseteq dead
  BY DEF MemoryRight, LeavesRight
<1>2. PathAt(v, i) \in Seq(Commitment)
  <2>1. << >> \in Seq(Commitment) OBVIOUS
  <2> QED BY <1>1, <2>1 DEF PathAt
<1>3. (Nullifier(c) \in v.spent) \in BOOLEAN
  OBVIOUS
<1>4. n.index = i /\ n.path = PathAt(v, i) /\ n.spent = (Nullifier(c) \in v.spent)
  BY DEF Tracked
<1>5. n \in Note
  BY <1>2, <1>3 DEF Tracked, Note
<1>6. NoteRight(n, c, v.leaves, v.spent, tree, dead)
  <2> HIDE DEF n
  <2>1. n.spent => Nullifier(c) \in dead
    BY <1>1, <1>4
  <2> QED BY <1>4, <1>5, <2>1 DEF NoteRight
<1> QED BY <1>6

\* A memory with more notes.
WithNotes(v, owned) ==
  [leaves |-> v.leaves, root |-> v.root, owned |-> owned, spent |-> v.spent]

(***************************************************************************)
(* A memory whose notes are each right is right.                           *)
(***************************************************************************)
LEMMA NotesRight ==
  ASSUME NEW tree, NEW dead, NEW v, MemoryRight(v, tree, dead), NEW owned,
         DOMAIN owned \subseteq Range(tree),
         \A c \in DOMAIN owned : NoteRight(owned[c], c, v.leaves, v.spent, tree, dead)
  PROVE  MemoryRight(WithNotes(v, owned), tree, dead)
<1> DEFINE u == WithNotes(v, owned)
<1>1. /\ u.leaves = v.leaves /\ u.root = v.root /\ u.owned = owned /\ u.spent = v.spent
      /\ IsMemory(u)
  BY DEF WithNotes, IsMemory
<1>2. MemoryRight(u, tree, dead)
  <2> HIDE DEF u
  <2> QED BY <1>1 DEF MemoryRight
<1> QED BY <1>2

(***************************************************************************)
(* Tracking a note at its leaf keeps the memory right.                     *)
(***************************************************************************)
LEMMA TrackNoteKeeps ==
  ASSUME NEW tree, NEW dead, NEW v, MemoryRight(v, tree, dead),
         NEW c \in Range(tree), NEW i \in Nat, IsLeafAt(tree, i, c)
  PROVE  /\ MemoryRight(TrackNote(v, c, i), tree, dead)
         /\ TrackNote(v, c, i).leaves = v.leaves
         /\ DOMAIN TrackNote(v, c, i).owned = DOMAIN v.owned \cup {c}
<1> DEFINE new == Tracked(v, c, i)
           owned == [d \in DOMAIN v.owned \cup {c} |-> IF d = c THEN new ELSE v.owned[d]]
<1>1. NoteRight(new, c, v.leaves, v.spent, tree, dead)
  BY TrackedRight
<1> HIDE DEF new
<1>2. DOMAIN owned = DOMAIN v.owned \cup {c}
  OBVIOUS
<1>3. ASSUME NEW d \in DOMAIN owned
      PROVE  NoteRight(owned[d], d, v.leaves, v.spent, tree, dead)
  <2>1. CASE d = c
    BY <1>1, <2>1
  <2>2. CASE d # c
    <3>1. d \in DOMAIN v.owned /\ owned[d] = v.owned[d] BY <2>2
    <3> HIDE DEF owned
    <3> QED BY <3>1 DEF MemoryRight
  <2> QED BY <2>1, <2>2
<1>4. TrackNote(v, c, i) = WithNotes(v, owned)
  <2>1. TrackNote(v, c, i) = [v EXCEPT !.owned = owned]
    BY DEF TrackNote, new
  <2> HIDE DEF owned
  <2> QED BY <2>1 DEF MemoryRight, IsMemory, WithNotes
<1>5. DOMAIN v.owned \subseteq Range(tree)
  BY DEF MemoryRight
<1> HIDE DEF owned
<1>6. MemoryRight(WithNotes(v, owned), tree, dead)
  BY <1>2, <1>3, <1>5, NotesRight
<1> QED BY <1>2, <1>4, <1>6 DEF WithNotes

(***************************************************************************)
(* The index of an element of a sequence is where it is.                   *)
(***************************************************************************)
LEMMA IndexFound ==
  ASSUME NEW S, NEW s \in Seq(S), NEW c \in Range(s)
  PROVE  IndexOf(s, c) \in Nat /\ IsLeafAt(s, IndexOf(s, c), c)
<1> DEFINE i == CHOOSE j \in 1..Len(s) : s[j] = c
<1>1. \E j \in 1..Len(s) : s[j] = c
  BY DEF Range
<1>2. i \in 1..Len(s) /\ s[i] = c
  BY <1>1
<1>3. IndexOf(s, c) = i - 1
  BY DEF IndexOf
<1> HIDE DEF i
<1>4. i - 1 \in Nat /\ i - 1 < Len(s) /\ (i - 1) + 1 = i
  BY <1>2
<1> QED BY <1>2, <1>3, <1>4 DEF IsLeafAt

(***************************************************************************)
(* So does tracking the notes found by their hints among its leaves.       *)
(***************************************************************************)
LEMMA TrackFoundKeeps ==
  ASSUME NEW tree, NEW dead, NEW v, MemoryRight(v, tree, dead), NEW found
  PROVE  /\ MemoryRight(TrackFound(v, found), tree, dead)
         /\ TrackFound(v, found).leaves = v.leaves
         /\ TrackFound(v, found).root = v.root
         /\ TrackFound(v, found).spent = v.spent
         /\ DOMAIN TrackFound(v, found).owned
              = DOMAIN v.owned \cup (found \cap Range(v.leaves))
<1> DEFINE D == DOMAIN v.owned \cup (found \cap Range(v.leaves))
           owned == [c \in D |-> IF c \in DOMAIN v.owned THEN v.owned[c]
                                 ELSE Tracked(v, c, IndexOf(v.leaves, c))]
<1>1. DOMAIN owned = D
  OBVIOUS
<1>2. /\ v.leaves \in Seq(Commitment) /\ Range(v.leaves) \subseteq Range(tree)
      /\ DOMAIN v.owned \subseteq Range(tree)
  BY DEF MemoryRight, LeavesRight
<1>3. ASSUME NEW c \in D
      PROVE  NoteRight(owned[c], c, v.leaves, v.spent, tree, dead)
  <2>1. CASE c \in DOMAIN v.owned
    <3>1. owned[c] = v.owned[c] BY <2>1
    <3> HIDE DEF owned
    <3> QED BY <2>1, <3>1 DEF MemoryRight
  <2>2. CASE c \notin DOMAIN v.owned
    <3>1. c \in Range(v.leaves) /\ owned[c] = Tracked(v, c, IndexOf(v.leaves, c))
      BY <2>2
    <3> HIDE DEF owned
    <3>2. IndexOf(v.leaves, c) \in Nat /\ IsLeafAt(v.leaves, IndexOf(v.leaves, c), c)
      BY <1>2, <3>1, IndexFound
    <3> QED BY <3>1, <3>2, TrackedRight
  <2> QED BY <2>1, <2>2
<1>4. TrackFound(v, found) = WithNotes(v, owned)
  <2>1. TrackFound(v, found) = [v EXCEPT !.owned = owned]
    BY DEF TrackFound
  <2> HIDE DEF owned
  <2> QED BY <2>1 DEF MemoryRight, IsMemory, WithNotes
<1> HIDE DEF owned
<1>5. MemoryRight(WithNotes(v, owned), tree, dead)
  BY <1>1, <1>2, <1>3, NotesRight
<1> QED BY <1>1, <1>4, <1>5 DEF WithNotes

(***************************************************************************)
(* Reading the root caches it for good: it is that of some beginning of    *)
(* the leaves.                                                             *)
(***************************************************************************)
LEMMA RootReadKeeps ==
  ASSUME NEW tree, NEW dead, NEW v, MemoryRight(v, tree, dead)
  PROVE  /\ MemoryRight(RootRead(v), tree, dead)
         /\ RootRead(v).leaves = v.leaves
         /\ RootRead(v).owned = v.owned
         /\ RootRead(v).spent = v.spent
         /\ v.leaves # << >> => RootRead(v).root = CurrentRoot(v)
         /\ \E n \in 0..Len(v.leaves) : CurrentRoot(v) = RootOf(SubSeq(v.leaves, 1, n))
<1> DEFINE r == CurrentRoot(v)
<1>1. v.leaves \in Seq(Commitment) /\ RootRight(v.root, v.leaves)
  BY DEF MemoryRight, LeavesRight
<1>2. \E n \in 0..Len(v.leaves) : r = RootOf(SubSeq(v.leaves, 1, n))
  <2>1. CASE v.root # Zero
    BY <1>1, <2>1 DEF CurrentRoot, RootRight
  <2>2. CASE v.root = Zero
    <3>1. SubSeq(v.leaves, 1, Len(v.leaves)) = v.leaves /\ Len(v.leaves) \in 0..Len(v.leaves)
      BY <1>1
    <3> QED BY <2>2, <3>1 DEF CurrentRoot
  <2> QED BY <2>1, <2>2
<1> HIDE DEF r
<1>3. CASE v.leaves = << >>
  BY <1>2, <1>3 DEF RootRead, r
<1>4. CASE v.leaves # << >>
  <2> DEFINE u == [leaves |-> v.leaves, root |-> r, owned |-> v.owned, spent |-> v.spent]
  <2>1. RootRead(v) = u
    BY <1>4 DEF RootRead, MemoryRight, IsMemory, r
  <2>2. u.leaves = v.leaves /\ u.root = r /\ u.owned = v.owned /\ u.spent = v.spent /\ IsMemory(u)
    BY DEF IsMemory
  <2> HIDE DEF u
  <2>3. MemoryRight(u, tree, dead)
    BY <1>2, <2>2 DEF MemoryRight, RootRight
  <2> QED BY <1>2, <2>1, <2>2, <2>3 DEF r
<1> QED BY <1>3, <1>4

-----------------------------------------------------------------------------
(* Syncing: the events the two queries have found, replayed. *)

ViewFold == INSTANCE Folding WITH op <- LAMBDA x, y : OnQueried(y, x), choose <- Max

\* Events that are news of that tree, of which no two insert a same leaf.
LogSound(log, tree, dead) ==
  /\ \A p \in 1..Len(log) : EventSound(log[p], tree, dead)
  /\ \A p, q \in 1..Len(log) : p # q => OutsOf(log[p]) \cap OutsOf(log[q]) = {}

\* What v is once it knows the first k events of the log, or some of them.
SyncedTo(v, log, k, tree, dead) ==
  /\ MemoryRight(v, tree, dead)
  /\ DOMAIN v.owned = {}
  /\ \A p \in k + 1..Len(log) : OutsOf(log[p]) \cap Range(v.leaves) = {}

(***************************************************************************)
(* A new session knows nothing, rightly.                                   *)
(***************************************************************************)
LEMMA EmptyRight ==
  ASSUME NEW tree, NEW dead
  PROVE  /\ MemoryRight(EmptyView, tree, dead)
         /\ DOMAIN EmptyView.owned = {} /\ Range(EmptyView.leaves) = {}
<1>1. /\ EmptyView.leaves = << >> /\ EmptyView.root = Zero /\ EmptyView.spent = {}
      /\ EmptyView.owned = << >> /\ IsMemory(EmptyView)
  BY DEF EmptyView, IsMemory
<1>2. DOMAIN << >> = {} /\ << >> \in Seq(Commitment) /\ Range(<< >>) = {}
  BY DEF Range
<1>3. IsInjective(<< >>)
  BY <1>2 DEF IsInjective
<1>4. LeavesRight(<< >>, tree) /\ RootRight(Zero, << >>)
  BY <1>2, <1>3 DEF LeavesRight, RootRight
<1> QED BY <1>1, <1>2, <1>4 DEF MemoryRight

(***************************************************************************)
(* The next event of the log, found by its query or missed.                *)
(***************************************************************************)
LEMMA SyncStep ==
  ASSUME NEW log, Len(log) \in Nat, NEW tree \in Seq(Commitment), NEW dead,
         LogSound(log, tree, dead),
         NEW v, NEW k \in 0..Len(log) - 1, SyncedTo(v, log, k, tree, dead),
         NEW q, q.event = log[k + 1]
  PROVE  SyncedTo(OnQueried(v, q), log, k + 1, tree, dead)
<1> DEFINE e == log[k + 1]
           u == OnEvent(v, e)
<1>0. k + 1 \in 1..Len(log) /\ k + 1 \in k + 1..Len(log)
  OBVIOUS
<1>1. EventSound(e, tree, dead) /\ OutsOf(e) \cap Range(v.leaves) = {}
      /\ MemoryRight(v, tree, dead) /\ DOMAIN v.owned = {}
  BY <1>0 DEF LogSound, SyncedTo
<1>2. \A p \in (k + 1) + 1..Len(log) :
        /\ p \in k + 1..Len(log) /\ p \in 1..Len(log) /\ p # k + 1
  OBVIOUS
<1>3. \A p \in (k + 1) + 1..Len(log) :
        /\ OutsOf(log[p]) \cap Range(v.leaves) = {}
        /\ OutsOf(log[p]) \cap OutsOf(e) = {}
  BY <1>0, <1>2 DEF LogSound, SyncedTo
<1> HIDE DEF e
<1>4. CASE q.found
  <2>1. OnQueried(v, q) = u
    BY <1>4 DEF OnQueried, e
  <2>2. /\ MemoryRight(u, tree, dead) /\ DOMAIN u.owned = {}
        /\ Range(u.leaves) \subseteq Range(v.leaves) \cup OutsOf(e)
    BY <1>1, EventKeeps
  <2> HIDE DEF u
  <2> QED BY <1>3, <2>1, <2>2 DEF SyncedTo
<1>5. CASE ~q.found
  <2>1. OnQueried(v, q) = v
    BY <1>5 DEF OnQueried
  <2> QED BY <1>1, <1>3, <2>1 DEF SyncedTo
<1> QED BY <1>4, <1>5

(***************************************************************************)
(* Folding the queried events up to the next one.                          *)
(***************************************************************************)
LEMMA SyncPrefix ==
  ASSUME NEW E, NEW s \in Seq(E), NEW k \in 0..Len(s) - 1
  PROVE  FoldLeft(OnQueried, EmptyView, SubSeq(s, 1, k + 1))
           = OnQueried(FoldLeft(OnQueried, EmptyView, SubSeq(s, 1, k)), s[k + 1])
<1> DEFINE t == SubSeq(s, 1, k)
           e == s[k + 1]
<1>1. /\ k \in Nat /\ t \in Seq(E) /\ Len(t) = k /\ e \in E
      /\ SubSeq(s, 1, k + 1) = Append(t, e)
  OBVIOUS
<1> HIDE DEF t, e
<1>2. \A r : FoldLeft(OnQueried, EmptyView, r) = ViewFold!Fold(EmptyView, r, DOMAIN r)
  BY DEF FoldLeft, MapThenFoldSet, ViewFold!Fold
<1>3. DOMAIN t = 1..k /\ DOMAIN Append(t, e) = 1..k + 1
  BY <1>1
<1>4. LogFold!Chooses(1..k + 1) /\ Max(1..k + 1) = k + 1
  BY <1>1, LastIsMax
<1>5. ViewFold!Chooses(1..k + 1)
  BY <1>4 DEF LogFold!Chooses, ViewFold!Chooses
<1>6. ViewFold!Fold(EmptyView, Append(t, e), 1..k + 1)
        = OnQueried(ViewFold!Fold(EmptyView, t, 1..k), e)
  BY <1>1, <1>4, <1>5, ViewFold!FoldAppend
<1> QED BY <1>1, <1>2, <1>3, <1>6 DEF t, e

(***************************************************************************)
(* Whatever part of a sound log the queries find, replaying it leaves a    *)
(* right memory, with no note yet.                                         *)
(***************************************************************************)
LEMMA ReplayRight ==
  ASSUME NEW E, events \in Seq(E), NEW tree \in Seq(Commitment), NEW dead,
         LogSound(events, tree, dead), NEW n, NEW m
  PROVE  MemoryRight(Replay(n, m), tree, dead) /\ DOMAIN Replay(n, m).owned = {}
<1> DEFINE query(p) == [event |-> events[p],
                        found |-> p <= (IF events[p].type = "Shielded" THEN n ELSE m)]
           s == [p \in 1..Len(events) |-> query(p)]
           F == {query(p) : p \in 1..Len(events)}
           v(k) == FoldLeft(OnQueried, EmptyView, SubSeq(s, 1, k))
           P == {k \in Nat : k <= Len(events) => SyncedTo(v(k), events, k, tree, dead)}
<1>1. Len(events) \in Nat
  OBVIOUS
<1>2. s \in Seq(F) /\ Len(s) = Len(events)
  <2> HIDE DEF query
  <2> QED BY <1>1
<1>3. \A p \in 1..Len(events) : s[p].event = events[p]
  OBVIOUS
<1> HIDE DEF s, F
<1>4. 0 \in P
  <2>1. SubSeq(s, 1, 0) = << >>
    BY <1>2
  <2>2. FoldLeft(OnQueried, EmptyView, << >>) = ViewFold!Fold(EmptyView, << >>, DOMAIN << >>)
    BY DEF FoldLeft, MapThenFoldSet, ViewFold!Fold
  <2>3. DOMAIN << >> = {}
    OBVIOUS
  <2>4. v(0) = EmptyView
    BY <2>1, <2>2, <2>3, ViewFold!FoldEmpty
  <2>5. SyncedTo(EmptyView, events, 0, tree, dead)
    BY EmptyRight DEF SyncedTo
  <2> QED BY <2>4, <2>5
<1>5. ASSUME NEW k \in Nat, k \in P PROVE k + 1 \in P
  <2> SUFFICES ASSUME k + 1 <= Len(events)
               PROVE  SyncedTo(v(k + 1), events, k + 1, tree, dead)
    OBVIOUS
  <2>1. SyncedTo(v(k), events, k, tree, dead) /\ k \in 0..Len(events) - 1
        /\ k + 1 \in 1..Len(events)
    BY <1>1, <1>5
  <2>2. v(k + 1) = OnQueried(v(k), s[k + 1])
    BY <1>2, <2>1, SyncPrefix
  <2>3. s[k + 1].event = events[k + 1]
    BY <1>3, <2>1
  <2> HIDE DEF v
  <2> QED BY <1>1, <2>1, <2>2, <2>3, SyncStep
<1> HIDE DEF P
<1>6. Nat \subseteq P
  BY <1>4, <1>5, ViewFold!Rec!Induction
<1>7. SyncedTo(v(Len(events)), events, Len(events), tree, dead)
  BY <1>1, <1>6 DEF P
<1>8. SubSeq(s, 1, Len(events)) = s
  BY <1>1, <1>2
<1>9. Replay(n, m) = v(Len(events))
  BY <1>8 DEF Replay, s
<1> HIDE DEF v
<1> QED BY <1>7, <1>9 DEF SyncedTo

(***************************************************************************)
(* What a session and a client of the log make of one event.               *)
(***************************************************************************)
LEMMA SameUpdate ==
  ASSUME NEW v, IsMemory(v), NEW w, w = [leaves |-> v.leaves, spent |-> v.spent],
         NEW e, e.type \in {"Shielded", "Spent"}
  PROVE  Applied(w, e) = [leaves |-> OnEvent(v, e).leaves, spent |-> OnEvent(v, e).spent]
<1>1. \A kept, heard : /\ Updated(v, kept, heard).leaves = kept
                       /\ Updated(v, kept, heard).spent = v.spent \cup heard
  BY DEF Updated
<1>2. CASE e.type = "Shielded" /\ Len(v.leaves) = e.leafIndex
  <2>1. OnEvent(v, e) = Updated(v, Append(v.leaves, e.commitment), {})
    BY <1>2, EventUpdates
  <2>2. Applied(w, e) = [leaves |-> Append(v.leaves, e.commitment), spent |-> v.spent]
    BY <1>2 DEF Applied
  <2>3. /\ OnEvent(v, e).leaves = Append(v.leaves, e.commitment)
        /\ OnEvent(v, e).spent = v.spent \cup {}
    BY <1>1, <2>1
  <2>4. v.spent \cup {} = v.spent
    OBVIOUS
  <2> QED BY <2>2, <2>3, <2>4
<1>3. CASE e.type = "Shielded" /\ Len(v.leaves) # e.leafIndex
  <2>1. OnEvent(v, e) = Updated(v, v.leaves, {})
    BY <1>3, EventUpdates
  <2>2. Applied(w, e) = w
    BY <1>3 DEF Applied
  <2>3. OnEvent(v, e).leaves = v.leaves /\ OnEvent(v, e).spent = v.spent \cup {}
    BY <1>1, <2>1
  <2>4. v.spent \cup {} = v.spent
    OBVIOUS
  <2> QED BY <2>2, <2>3, <2>4
<1>4. CASE e.type = "Spent"
  <2>1. OnEvent(v, e) = Updated(v, WithOutputs(v.leaves, e.newCommitments),
                                NonZero(Range(e.nullifiers)))
    BY <1>4, EventUpdates
  <2>2. Applied(w, e) = [leaves |-> WithOutputs(v.leaves, e.newCommitments),
                         spent |-> v.spent \cup NonZero(Range(e.nullifiers))]
    BY <1>4 DEF Applied, WithOutputs
  <2>3. /\ OnEvent(v, e).leaves = WithOutputs(v.leaves, e.newCommitments)
        /\ OnEvent(v, e).spent = v.spent \cup NonZero(Range(e.nullifiers))
    BY <1>1, <2>1
  <2> QED BY <2>2, <2>3
<1> QED BY <1>2, <1>3, <1>4

(***************************************************************************)
(* Folding the log up to the next event.                                   *)
(***************************************************************************)
LEMMA LogPrefix ==
  ASSUME NEW E, NEW s \in Seq(E), NEW k \in 0..Len(s) - 1
  PROVE  FoldLeft(Applied, NoView, SubSeq(s, 1, k + 1))
           = Applied(FoldLeft(Applied, NoView, SubSeq(s, 1, k)), s[k + 1])
<1> DEFINE t == SubSeq(s, 1, k)
<1>1. /\ t \in Seq(E) /\ s[k + 1] \in E
      /\ SubSeq(s, 1, k + 1) = Append(t, s[k + 1])
  OBVIOUS
<1> HIDE DEF t
<1> QED BY <1>1, ReplayAppend DEF t

(***************************************************************************)
(* A session that has queried all of the log has the contract's leaves, in *)
(* their order, and its nullifiers.                                        *)
(***************************************************************************)
LEMMA ReplayComplete ==
  ASSUME NEW E, events \in Seq(E), LogSound(events, leaves, spentNullifiers),
         LogRebuildsTree, leaves \in Seq(Commitment)
  PROVE  LET v == Replay(Len(events), Len(events)) IN
         /\ MemoryRight(v, leaves, spentNullifiers) /\ DOMAIN v.owned = {}
         /\ v.leaves = leaves /\ v.spent = spentNullifiers
<1> DEFINE L == Len(events)
           query(p) == [event |-> events[p],
                        found |-> p <= (IF events[p].type = "Shielded" THEN L ELSE L)]
           s == [p \in 1..L |-> query(p)]
           F == {query(p) : p \in 1..L}
           v(k) == FoldLeft(OnQueried, EmptyView, SubSeq(s, 1, k))
           w(k) == FoldLeft(Applied, NoView, SubSeq(events, 1, k))
           Same(k) == /\ SyncedTo(v(k), events, k, leaves, spentNullifiers)
                      /\ w(k) = [leaves |-> v(k).leaves, spent |-> v(k).spent]
           P == {k \in Nat : k <= L => Same(k)}
<1>1. L \in Nat
  OBVIOUS
<1>2. s \in Seq(F) /\ Len(s) = L
  <2> HIDE DEF query
  <2> QED BY <1>1
<1>3. ASSUME NEW p \in 1..L
      PROVE  s[p].event = events[p] /\ s[p].found
  <2>1. p <= (IF events[p].type = "Shielded" THEN L ELSE L)
    BY <1>1
  <2>2. query(p).event = events[p] /\ query(p).found
    BY <2>1
  <2> HIDE DEF query
  <2>3. s[p] = query(p)
    OBVIOUS
  <2> HIDE DEF s
  <2> QED BY <2>2, <2>3
<1> HIDE DEF s, F
<1>4. 0 \in P
  <2>1. SubSeq(s, 1, 0) = << >> /\ SubSeq(events, 1, 0) = << >> /\ DOMAIN << >> = {}
    BY <1>2
  <2>2. FoldLeft(OnQueried, EmptyView, << >>) = ViewFold!Fold(EmptyView, << >>, DOMAIN << >>)
        /\ FoldLeft(Applied, NoView, << >>) = LogFold!Fold(NoView, << >>, DOMAIN << >>)
    BY DEF FoldLeft, MapThenFoldSet, ViewFold!Fold, LogFold!Fold
  <2>3. v(0) = EmptyView
    BY <2>1, <2>2, ViewFold!FoldEmpty
  <2>4. w(0) = NoView
    BY <2>1, <2>2, LogFold!FoldEmpty
  <2>5. SyncedTo(EmptyView, events, 0, leaves, spentNullifiers)
    BY EmptyRight DEF SyncedTo
  <2>6. NoView = [leaves |-> EmptyView.leaves, spent |-> EmptyView.spent]
    BY DEF NoView, EmptyView
  <2> QED BY <2>3, <2>4, <2>5, <2>6
<1>5. ASSUME NEW k \in Nat, k \in P PROVE k + 1 \in P
  <2> SUFFICES ASSUME k + 1 <= L PROVE Same(k + 1)
    OBVIOUS
  <2>1. Same(k) /\ k \in 0..L - 1 /\ k + 1 \in 1..L
    BY <1>1, <1>5
  <2>2. v(k + 1) = OnQueried(v(k), s[k + 1])
    BY <1>2, <2>1, SyncPrefix
  <2>3. w(k + 1) = Applied(w(k), events[k + 1])
    BY <2>1, LogPrefix
  <2>4. s[k + 1].event = events[k + 1] /\ s[k + 1].found
    BY <1>3, <2>1
  <2> HIDE DEF v, w
  <2>5. SyncedTo(v(k + 1), events, k + 1, leaves, spentNullifiers)
    BY <1>1, <2>1, <2>2, <2>4, SyncStep
  <2>6. v(k + 1) = OnEvent(v(k), events[k + 1])
    BY <2>2, <2>4 DEF OnQueried
  <2>7. IsMemory(v(k))
    BY <2>1 DEF SyncedTo, MemoryRight
  <2>8. events[k + 1].type \in {"Shielded", "Spent"}
    BY <2>1 DEF LogSound, EventSound
  <2> QED BY <2>1, <2>3, <2>5, <2>6, <2>7, <2>8, SameUpdate
<1> HIDE DEF P
<1>6. Nat \subseteq P
  BY <1>4, <1>5, ViewFold!Rec!Induction
<1>7. Same(L)
  BY <1>1, <1>6 DEF P
<1>8. SubSeq(s, 1, L) = s /\ SubSeq(events, 1, L) = events
  BY <1>1, <1>2
<1>9. Replay(L, L) = v(L)
  BY <1>8 DEF Replay, s
<1>10. Replayed = w(L)
  BY <1>8 DEF Replayed, NoView
<1> HIDE DEF v, w
<1> QED BY <1>7, <1>9, <1>10 DEF SyncedTo, LogRebuildsTree

-----------------------------------------------------------------------------
(***************************************************************************)
(* The path of a note leads to a root that commits to the note.            *)
(***************************************************************************)
LEMMA PathCommits ==
  ASSUME NEW v, NEW c \in Commitment, v.owned[c] \in Note,
         NEW root, PathVerifies(v, c, root)
  PROVE  c \in Range(root.committed)
<1> DEFINE n == v.owned[c]
           s == n.path
           t == [s EXCEPT ![n.index + 1] = c]
<1>1. n.index \in Nat /\ s \in Seq(Commitment) /\ n.index < Len(s) /\ root = RootOf(t)
  BY DEF PathVerifies, Note
<1> HIDE DEF n, s
<1>2. n.index + 1 \in 1..Len(s) /\ DOMAIN s = 1..Len(s)
  BY <1>1
<1>3. t[n.index + 1] = c /\ n.index + 1 \in DOMAIN t
  BY <1>2
<1> HIDE DEF t
<1>4. c \in Range(t) BY <1>3 DEF Range
<1> QED BY <1>1, <1>4 DEF RootOf

\* The outputs and the exit of a call take up what its inputs are worth.
Balanced(in, p, t) ==
  /\ SlotAmount(in[1]) + SlotAmount(in[2])
       = SlotAmount(p.newCommitments[1]) + SlotAmount(p.newCommitments[2]) + p.publicAmount
  /\ \A i \in 1..2 : p.newCommitments[i] # Zero =>
       p.newCommitments[i].token = t /\ p.newCommitments[i].amount \in 1..MaxU64
  /\ p.publicAmount = 0 => p.recipient = Zero

(***************************************************************************)
(* What a client proves with the notes it selected satisfies the spend     *)
(* circuit, if the notes are its own and its outputs balance: a selected   *)
(* note is right, so its path leads to the root the call names.            *)
(***************************************************************************)
LEMMA SelectedProvable ==
  ASSUME NEW tree \in Seq(Commitment), NEW dead, NEW v, MemoryRight(v, tree, dead),
         NEW key \in Keys, \A c \in DOMAIN v.owned : c.owner = key /\ c.amount # 0,
         NEW t, NEW amount, NEW in \in SelectNotes(v, t, amount),
         NEW p, p.token = t, Provable(v, in, p.merkleRoot),
         p.nullifiers = [i \in 1..2 |-> SlotNullifier(in[i])], Balanced(in, p, t)
  PROVE  /\ SpendCircuit(in, p)
         /\ in \in Pairs(Range(tree))
         /\ in[1] \in Commitment /\ in[1] # Zero /\ in[1].token = t
<1> DEFINE U == UnspentNotes(v, t)
<1>1. /\ U \subseteq DOMAIN v.owned
      /\ \A c \in U : c.token = t
  BY DEF UnspentNotes
<1>2. in \in Pairs(U) /\ in[1] \in U
  BY DEF SelectNotes, Smallest
<1>3. DOMAIN v.owned \subseteq Range(tree) /\ Range(tree) \subseteq Commitment
  BY DEF MemoryRight, Range
<1> HIDE DEF U
<1>4. in \in Pairs(Range(tree))
  BY <1>1, <1>2, <1>3 DEF Pairs
<1>5. in[1] \in Commitment /\ in[1] # Zero /\ in[1].token = t
  BY <1>1, <1>2, <1>3, ZeroIsNoHash
<1>6. ASSUME NEW i \in 1..2, in[i] # Zero
      PROVE  /\ in[i].owner = key /\ in[i].token = p.token /\ in[i].amount # 0
             /\ in[i] \in Range(p.merkleRoot.committed)
  <2>1. in[i] \in U /\ in[i] \in NonZero(Range(in))
    BY <1>2, <1>6 DEF Pairs, NonZero, Range
  <2>2. in[i] \in Commitment /\ in[i] \in DOMAIN v.owned
    BY <1>1, <1>3, <2>1
  <2>3. v.owned[in[i]] \in Note
    BY <2>2 DEF MemoryRight, NoteRight
  <2>4. PathVerifies(v, in[i], p.merkleRoot)
    BY <2>1 DEF Provable
  <2>5. in[i] \in Range(p.merkleRoot.committed)
    BY <2>2, <2>3, <2>4, PathCommits
  <2> QED BY <1>1, <2>1, <2>2, <2>5
<1>7. \A i \in 1..2 : p.nullifiers[i] = SlotNullifier(in[i])
  OBVIOUS
<1>8. SlotAmount(in[1]) + SlotAmount(in[2]) <= MaxU64
  BY DEF Provable
<1>9. SpendCircuit(in, p)
  BY <1>6, <1>7, <1>8 DEF SpendCircuit, Balanced
<1> QED BY <1>4, <1>5, <1>9

\* The outputs of a call are worth what its inputs leave, in the same token.
OutputsFit(in, outs, t, public) ==
  /\ SlotAmount(in[1]) + SlotAmount(in[2])
       = SlotAmount(outs[1]) + SlotAmount(outs[2]) + public
  /\ \A i \in 1..2 : outs[i] # Zero => outs[i].token = t /\ outs[i].amount \in Nat \ {0}

(***************************************************************************)
(* What each of the two inputs and outputs is worth is a number.           *)
(***************************************************************************)
LEMMA SlotWorth ==
  ASSUME NEW c \in Slot
  PROVE  SlotAmount(c) \in Nat
BY PoolAssumption DEF Slot, SlotAmount, Commitment

(***************************************************************************)
(* The notes selected are worth no less than asked for.                    *)
(***************************************************************************)
LEMMA NotesWorth ==
  ASSUME NEW v, DOMAIN v.owned \subseteq Commitment,
         NEW t, NEW amount \in Nat, NEW in \in SelectNotes(v, t, amount)
  PROVE  /\ amount > 0
         /\ SlotAmount(in[1]) \in Nat /\ SlotAmount(in[2]) \in Nat
         /\ SlotAmount(in[1]) + SlotAmount(in[2]) \in Nat
         /\ SlotAmount(in[1]) + SlotAmount(in[2]) - amount \in Nat
<1>1. /\ in \in Pairs(UnspentNotes(v, t)) /\ amount > 0
      /\ SlotAmount(in[1]) + SlotAmount(in[2]) >= amount
  BY DEF SelectNotes
<1>2. UnspentNotes(v, t) \subseteq Commitment
  BY DEF UnspentNotes
<1>3. in[1] \in Slot /\ in[2] \in Slot
  BY <1>1, <1>2 DEF Pairs, Slot
<1>4. SlotAmount(in[1]) \in Nat /\ SlotAmount(in[2]) \in Nat
  BY <1>3, SlotWorth
<1> QED BY <1>1, <1>4

(***************************************************************************)
(* Outputs that take up what nargo could add up balance the call: none is  *)
(* worth more than the inputs are.                                         *)
(***************************************************************************)
LEMMA FitBalances ==
  ASSUME NEW in, NEW outs \in Pairs(Commitment), NEW t, NEW public \in Nat,
         OutputsFit(in, outs, t, public),
         SlotAmount(in[1]) + SlotAmount(in[2]) <= MaxU64,
         NEW p, p.newCommitments = outs, p.publicAmount = public,
         public = 0 => p.recipient = Zero
  PROVE  Balanced(in, p, t)
<1> DEFINE a == SlotAmount(outs[1])
           b == SlotAmount(outs[2])
           total == SlotAmount(in[1]) + SlotAmount(in[2])
<1>1. outs[1] \in Slot /\ outs[2] \in Slot
  BY DEF Pairs, Slot
<1>2. a \in Nat /\ b \in Nat
  BY <1>1, SlotWorth
<1>3. total = a + b + public /\ total <= MaxU64 /\ MaxU64 \in Nat
  BY PoolAssumption DEF OutputsFit
<1>4. \A i \in 1..2 : outs[i] # Zero => outs[i].token = t /\ outs[i].amount \in Nat \ {0}
  BY DEF OutputsFit
<1> HIDE DEF total
<1>5. a <= MaxU64 /\ b <= MaxU64
  <2> HIDE DEF a, b
  <2> QED BY <1>2, <1>3
<1>6. ASSUME NEW i \in 1..2, outs[i] # Zero PROVE outs[i].amount \in 1..MaxU64
  <2>1. SlotAmount(outs[i]) = outs[i].amount
    BY <1>6 DEF SlotAmount
  <2>2. SlotAmount(outs[i]) <= MaxU64
    <3>1. CASE i = 1 BY <1>5, <3>1
    <3>2. CASE i = 2 BY <1>5, <3>2
    <3> QED BY <3>1, <3>2
  <2> QED BY <1>3, <1>4, <1>6, <2>1, <2>2
<1> QED BY <1>3, <1>4, <1>6 DEF Balanced, total

-----------------------------------------------------------------------------
(* What a call of the pool does for those who follow its log. *)

LogRight == LogSound(events, leaves, spentNullifiers)

PoolInv == IInv /\ KnownProvable /\ LogRight /\ EscrowAccounted /\ CallersPay

(***************************************************************************)
(* An event that is news stays so, and the log stays sound, when an event  *)
(* with new leaves only is appended.                                       *)
(***************************************************************************)
LEMMA LogAppend ==
  ASSUME NEW E, NEW log \in Seq(E), NEW e \in E, NEW tree, NEW tree2, NEW dead, NEW dead2,
         LogSound(log, tree, dead), Range(tree) \subseteq Range(tree2), dead \subseteq dead2,
         EventSound(e, tree2, dead2), OutsOf(e) \cap Range(tree) = {}
  PROVE  LogSound(Append(log, e), tree2, dead2)
<1> DEFINE n == Len(log)
           new == Append(log, e)
<1>1. /\ n \in Nat /\ Len(new) = n + 1 /\ new[n + 1] = e
      /\ \A p \in 1..n : new[p] = log[p]
      /\ \A p \in 1..n + 1 : p \in 1..n \/ p = n + 1
  OBVIOUS
<1>2. ASSUME NEW p \in 1..n
      PROVE  EventSound(log[p], tree2, dead2) /\ OutsOf(log[p]) \cap OutsOf(e) = {}
  <2>1. EventSound(log[p], tree, dead)
    BY DEF LogSound
  <2> QED BY <2>1 DEF EventSound
<1>3. \A p, q \in 1..n : p # q => OutsOf(log[p]) \cap OutsOf(log[q]) = {}
  BY DEF LogSound
<1> HIDE DEF n, new
<1>4. \A p \in 1..n + 1 : EventSound(new[p], tree2, dead2)
  BY <1>1, <1>2
<1>5. ASSUME NEW p \in 1..n + 1, NEW q \in 1..n + 1, p # q
      PROVE  OutsOf(new[p]) \cap OutsOf(new[q]) = {}
  <2>1. CASE p \in 1..n /\ q \in 1..n
    BY <1>1, <1>3, <1>5, <2>1
  <2>2. CASE p = n + 1 /\ q \in 1..n
    BY <1>1, <1>2, <2>2
  <2>3. CASE p \in 1..n /\ q = n + 1
    BY <1>1, <1>2, <2>3
  <2> QED BY <1>1, <1>5, <2>1, <2>2, <2>3
<1>6. LogSound(new, tree2, dead2)
  BY <1>1, <1>4, <1>5 DEF LogSound
<1> QED BY <1>6 DEF new

(***************************************************************************)
(* A shield appends a leaf nobody knows, and logs it.                      *)
(***************************************************************************)
LEMMA ShieldLogged ==
  ASSUME PoolInv, NEW from \in Accounts, NEW c \in Commitment,
         Shield(from, ShieldParams(c))
  PROVE  /\ PoolInv' /\ Extends(leaves', leaves) /\ spentNullifiers \subseteq spentNullifiers'
         /\ leaves' = Append(leaves, c)
         /\ \E e \in EventType : events' = Append(events, e) /\ OutsOf(e) \cap Range(leaves) = {}
<1>0. IInv /\ TypeOK /\ TreeHoldsKnownOnce /\ KnownProvable /\ LogRight
  BY DEF PoolInv, IInv
<1>1. IInv' /\ TypeOK' /\ CallersPay' /\ EscrowAccounted'
  BY <1>0, ShieldIInv, ShieldPays, ShieldEscrow, ShieldInRange, IInvIsRight
     DEF IInv, PoolInv
<1> DEFINE fee == ComputeFee(c.amount)
           e == [type |-> "Shielded", token |-> c.token, netAmount |-> c.amount - fee,
                 fee |-> fee, commitment |-> c, leafIndex |-> Len(leaves)]
<1>2. /\ leaves' = Append(leaves, c) /\ spentNullifiers' = spentNullifiers
      /\ knownCommitments' = knownCommitments \cup {c}
      /\ c \notin knownCommitments /\ c.amount \in 1..MaxU64
      /\ events' = Append(events, e)
  BY DEF Shield, ShieldAccepted, ShieldCircuit, ShieldParams
<1>3. e.type = "Shielded" /\ e.commitment = c
  OBVIOUS
<1> HIDE DEF e
<1>4. leaves \in Seq(Commitment) /\ events \in Seq(EventType) /\ events' \in Seq(EventType)
  BY <1>0, <1>1 DEF TypeOK
<1>5. e \in EventType
  <2>1. Append(events, e)[Len(events) + 1] = e /\ Len(events) + 1 \in 1..Len(Append(events, e))
    BY <1>4
  <2> QED BY <1>2, <1>4, <2>1
<1>6. Range(leaves') = Range(leaves) \cup {c} /\ c \notin Range(leaves) /\ Extends(leaves', leaves)
  <2>1. IsInjective(leaves) /\ Range(leaves) = knownCommitments
    BY <1>0 DEF TreeHoldsKnownOnce
  <2> QED BY <1>2, <1>4, <2>1, AppendDistinct DEF Extends
<1>7. OutsOf(e) = {c} /\ EventSound(e, leaves', spentNullifiers')
  BY <1>3, <1>6 DEF OutsOf, EventSound
<1>8. LogSound(Append(events, e), leaves', spentNullifiers')
  BY <1>0, <1>2, <1>4, <1>5, <1>6, <1>7, LogAppend DEF LogRight
<1>9. KnownProvable'
  BY <1>0, ShieldProvable
<1> QED BY <1>1, <1>2, <1>5, <1>6, <1>7, <1>8, <1>9 DEF PoolInv, LogRight

(***************************************************************************)
(* So does a spend, whose nullifiers are then spent.                       *)
(***************************************************************************)
LEMMA SpendLogged ==
  ASSUME PoolInv, NEW p, NEW in, NEW outs, SpendParams(p, in, outs), Spend(in, p)
  PROVE  /\ PoolInv' /\ Extends(leaves', leaves) /\ spentNullifiers \subseteq spentNullifiers'
         /\ leaves' = WithOutputs(leaves, outs)
         /\ NonZero(Range(p.nullifiers)) \subseteq spentNullifiers'
         /\ \E e \in EventType : events' = Append(events, e) /\ OutsOf(e) \cap Range(leaves) = {}
<1>0. IInv /\ TypeOK /\ TreeHoldsKnownOnce /\ KnownProvable /\ LogRight
  BY DEF PoolInv, IInv
<1>1. IInv' /\ TypeOK' /\ CallersPay' /\ EscrowAccounted'
  BY <1>0, SpendIInv, SpendPays, SpendEscrow, SpendInRange, IInvIsRight
     DEF IInv, PoolInv
<1> DEFINE e == [type |-> "Spent", token |-> p.token, nullifiers |-> p.nullifiers,
                 newCommitments |-> p.newCommitments, publicAmount |-> p.publicAmount]
<1>2. p.newCommitments = outs /\ outs \in Pairs(Commitment)
  BY DEF SpendParams
<1>3. /\ leaves' = WithOutputs(leaves, outs)
      /\ spentNullifiers' = spentNullifiers \cup NonZero(Range(p.nullifiers))
      /\ knownCommitments' = knownCommitments \cup NonZero(Range(outs))
      /\ \A i \in 1..2 : outs[i] \notin knownCommitments
      /\ \A i \in 1..2 : outs[i] # Zero => outs[i].amount \in 1..MaxU64
      /\ events' = Append(events, e)
  BY <1>2 DEF Spend, SpendAccepted, NewOutputs, SpendCircuit
<1>4. e.type = "Spent" /\ e.newCommitments = outs /\ e.nullifiers = p.nullifiers
  BY <1>2
<1> HIDE DEF e
<1>5. leaves \in Seq(Commitment) /\ events \in Seq(EventType) /\ events' \in Seq(EventType)
  BY <1>0, <1>1 DEF TypeOK
<1>6. e \in EventType
  <2>1. Append(events, e)[Len(events) + 1] = e /\ Len(events) + 1 \in 1..Len(Append(events, e))
    BY <1>5
  <2> QED BY <1>3, <1>5, <2>1
<1>7. /\ Range(leaves') = Range(leaves) \cup NonZero(Range(outs))
      /\ Extends(leaves', leaves) /\ \A i \in 1..2 : outs[i] \notin Range(leaves)
  <2>1. IsInjective(leaves) /\ Range(leaves) = knownCommitments
    BY <1>0 DEF TreeHoldsKnownOnce
  <2> QED BY <1>2, <1>3, <1>5, <2>1, WithOutputsDistinct, WithOutputsExtends
<1>8. OutsOf(e) = NonZero(Range(outs))
  BY <1>4 DEF OutsOf
<1>9. OutsOf(e) \cap Range(leaves) = {}
  BY <1>2, <1>7, <1>8 DEF NonZero, Range, Pairs
<1>10. EventSound(e, leaves', spentNullifiers')
  BY <1>2, <1>3, <1>4, <1>7, <1>8 DEF EventSound
<1>11. LogSound(Append(events, e), leaves', spentNullifiers')
  BY <1>0, <1>3, <1>5, <1>6, <1>7, <1>9, <1>10, LogAppend DEF LogRight
<1>12. KnownProvable'
  BY <1>0, SpendInRange, SpendProvable
<1> QED BY <1>1, <1>3, <1>6, <1>7, <1>9, <1>11, <1>12 DEF PoolInv, LogRight

(***************************************************************************)
(* An empty pool has nothing to follow.                                    *)
(***************************************************************************)
LEMMA PoolInitially == Init => PoolInv
<1> SUFFICES ASSUME Init PROVE PoolInv
  OBVIOUS
<1>1. events = << >> /\ knownCommitments = {} /\ totals = [t \in Tokens |-> NoTotals]
  BY DEF Init
<1>2. KnownProvable
  BY <1>1 DEF KnownProvable
<1>3. LogRight
  BY <1>1 DEF LogRight, LogSound
<1>4. CallersPay
  BY <1>1 DEF CallersPay, NoTotals
<1> QED BY <1>2, <1>3, <1>4, InitIInv, EscrowInitially DEF PoolInv

(***************************************************************************)
(* A step of a client alone leaves the pool as it was.                     *)
(***************************************************************************)
LEMMA PoolStutters ==
  ASSUME PoolInv, UNCHANGED poolVars
  PROVE  /\ PoolInv'
         /\ UNCHANGED <<events, leaves, spentNullifiers, knownCommitments>>
<1>1. UNCHANGED <<events, leaves, spentNullifiers, knownCommitments, totals>>
  BY DEF poolVars, treeVars, logVars
<1>2. PoolRight /\ IsInjective(leaves) /\ EscrowAccounted
  BY IInvIsRight DEF PoolInv, IInv, TreeHoldsKnownOnce
<1>3. IInv'
  BY <1>1, <1>2, NextRight, RightIsIInv
<1>4. EscrowAccounted'
  BY <1>2, EscrowStep
<1>5. KnownProvable' /\ LogRight' /\ CallersPay'
  BY <1>1 DEF PoolInv, KnownProvable, LogRight, CallersPay
<1> QED BY <1>1, <1>3, <1>4, <1>5 DEF PoolInv

(***************************************************************************)
(* Where all callers pay, the pool holds what its notes are worth.         *)
(***************************************************************************)
LEMMA PaidForNow ==
  PoolInv => /\ IsInjective(leaves)
             /\ \A t \in Tokens : UnspentValue(t) = Paid(t)
<1> SUFFICES ASSUME PoolInv
             PROVE  /\ IsInjective(leaves)
                    /\ \A t \in Tokens : UnspentValue(t) = Paid(t)
  OBVIOUS
<1>0. TypeOK /\ IsInjective(leaves) /\ EscrowAccounted /\ CallersPay
  BY DEF PoolInv, IInv, TreeHoldsKnownOnce
<1>1. ASSUME NEW t \in Tokens PROVE UnspentValue(t) = Paid(t)
  <2>1. AccountsAre(balance, totals, t)
    BY <1>0, AccountsType
  <2>2. UnspentValue(t) = Paid(t) + Unpaid(t)
    BY <1>0 DEF EscrowAccounted
  <2>3. Unpaid(t) = 0 /\ Paid(t) \in Int
    BY <1>0, <2>1 DEF CallersPay, Unpaid, Paid, AccountsAre
  <2> HIDE DEF Unpaid, Paid, UnspentValue
  <2> QED BY <2>2, <2>3
<1> QED BY <1>0, <1>1
=============================================================================
