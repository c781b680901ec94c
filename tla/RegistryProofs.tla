--------------------------- MODULE RegistryProofs ---------------------------
(***************************************************************************)
(* Theorems about the registry and the distribution of the delegations,    *)
(* for any number of validators and any amounts: both algorithms place     *)
(* every amount they are given, and bonds and removals move the coins      *)
(* where they should.                                                      *)
(***************************************************************************)
EXTENDS Registry, SumsProofs

-----------------------------------------------------------------------------
(***************************************************************************)
(* Distribution: one walk over the validators.                             *)
(***************************************************************************)
\* g obeys the recursion that defines Leftovers.
IsLeft(g, amount, room, n) ==
  g = [i \in 0..n |-> IF i = 0 THEN amount
                      ELSE IF room[i] < g[i - 1] THEN g[i - 1] - room[i] ELSE 0]

\* There is a function of what is left after each validator.
LEMMA LeftoversExist ==
  ASSUME NEW n \in Nat, NEW amount \in Nat, NEW room, \A i \in 1..n : room[i] \in Nat
  PROVE  \E g : IsLeft(g, amount, room, n)
<1> DEFINE Next1(g, i) == IF room[i] < g[i - 1] THEN g[i - 1] - room[i] ELSE 0
           Ok(k) == \E g \in [0..k -> Nat] : /\ g[0] = amount
                                             /\ \A i \in 1..k : g[i] = Next1(g, i)
           S == {k \in Nat : k <= n => Ok(k)}
<1>1. 0 \in S
  <2>1. Ok(0)
    <3> WITNESS [i \in 0..0 |-> amount] \in [0..0 -> Nat]
    <3> QED OBVIOUS
  <2> HIDE DEF Ok
  <2>2. QED
    BY <2>1
<1>2. ASSUME NEW k \in Nat, k \in S PROVE k + 1 \in S
  <2> SUFFICES ASSUME k + 1 <= n PROVE Ok(k + 1)
    OBVIOUS
  <2>1. PICK g \in [0..k -> Nat] : g[0] = amount /\ \A i \in 1..k : g[i] = Next1(g, i)
    <3>1. k <= n => Ok(k)
      <4> HIDE DEF Ok
      <4> QED BY <1>2
    <3>2. k <= n
      OBVIOUS
    <3>3. QED
      BY ONLY <3>1, <3>2
  <2> DEFINE last == IF room[k + 1] < g[k] THEN g[k] - room[k + 1] ELSE 0
             h == [i \in 0..k + 1 |-> IF i <= k THEN g[i] ELSE last]
  <2>2. room[k + 1] \in Nat /\ g[k] \in Nat
    OBVIOUS
  <2>3. h \in [0..k + 1 -> Nat]
    BY <2>2
  <2>4. h[0] = amount
    BY <2>1
  <2>5. ASSUME NEW i \in 1..(k + 1) PROVE h[i] = Next1(h, i)
    <3>1. CASE i <= k
      <4>1. i \in 1..k /\ i \in 0..(k + 1) /\ i - 1 \in 0..(k + 1) /\ i - 1 <= k
        BY <3>1
      <4>2. QED
        BY <4>1, <2>1
    <3>2. CASE i = k + 1
      <4>1. i \in 0..(k + 1) /\ i - 1 \in 0..(k + 1) /\ i - 1 = k /\ ~(i <= k)
        BY <3>2
      <4>2. h[i] = last /\ h[i - 1] = g[k]
        BY <4>1
      <4>3. QED
        BY <3>2, <4>2
    <3>3. QED
      BY <3>1, <3>2
  <2>6. QED
    BY <2>3, <2>4, <2>5
<1> HIDE DEF S
<1>3. n \in S
  BY <1>1, <1>2, NatSetInduction
<1>4. Ok(n)
  <2> HIDE DEF Ok
  <2> QED BY <1>3 DEF S
<1>5. PICK g \in [0..n -> Nat] : g[0] = amount /\ \A i \in 1..n : g[i] = Next1(g, i)
  BY <1>4
<1>6. IsLeft(g, amount, room, n)
  BY <1>5 DEF IsLeft
<1>7. QED
  BY <1>6

\* Leftovers obeys its defining recursion.
LEMMA LeftoversDef ==
  ASSUME NEW n \in Nat, NEW amount \in Nat, NEW room, \A i \in 1..n : room[i] \in Nat
  PROVE  /\ Leftovers(amount, room, n)[0] = amount
         /\ \A i \in 1..n :
              Leftovers(amount, room, n)[i] =
                IF room[i] < Leftovers(amount, room, n)[i - 1]
                THEN Leftovers(amount, room, n)[i - 1] - room[i] ELSE 0
<1> DEFINE left == Leftovers(amount, room, n)
<1>1. PICK g : IsLeft(g, amount, room, n)
  BY LeftoversExist
<1>2. left = [i \in 0..n |-> IF i = 0 THEN amount
                             ELSE IF room[i] < left[i - 1] THEN left[i - 1] - room[i] ELSE 0]
  BY <1>1 DEF Leftovers, IsLeft
<1> HIDE DEF left
<1>3. left[0] = amount /\ \A i \in 1..n : left[i] = IF room[i] < left[i - 1]
                                                    THEN left[i - 1] - room[i] ELSE 0
  BY <1>2
<1>4. QED
  BY <1>3 DEF left

\* After any number of validators, what is left is what they have no room for.
LEMMA LeftoversSum ==
  ASSUME NEW n \in Nat, NEW amount \in Nat, NEW room, \A i \in 1..n : room[i] \in Nat
  PROVE  \A k \in 0..n :
           Leftovers(amount, room, n)[k] =
             IF SumTo(room, k) < amount THEN amount - SumTo(room, k) ELSE 0
<1> DEFINE left == Leftovers(amount, room, n)
           Rest(k) == IF SumTo(room, k) < amount THEN amount - SumTo(room, k) ELSE 0
           K == {k \in Nat : k <= n => left[k] = Rest(k)}
<1>1. left[0] = amount /\ \A i \in 1..n : left[i] = IF room[i] < left[i - 1]
                                                    THEN left[i - 1] - room[i] ELSE 0
  BY LeftoversDef
<1> HIDE DEF left
<1>2. 0 \in K
  <2>1. SumTo(room, 0) = 0
    BY SumToLast
  <2>2. QED
    BY <2>1, <1>1
<1>3. ASSUME NEW k \in Nat, k \in K PROVE k + 1 \in K
  <2> SUFFICES ASSUME k + 1 <= n PROVE left[k + 1] = Rest(k + 1)
    OBVIOUS
  <2>1. left[k] = Rest(k)
    BY <1>3
  <2>2. k + 1 \in 1..n /\ (k + 1) - 1 = k /\ \A i \in 1..k : room[i] \in Nat
    OBVIOUS
  <2> HIDE DEF K
  <2>3. SumTo(room, k + 1) = SumTo(room, k) + room[k + 1] /\ room[k + 1] \in Nat
    BY <2>2, SumToLast
  <2>4. SumTo(room, k) \in Nat
    BY <2>2, SumToType
  <2>5. left[k + 1] = IF room[k + 1] < left[k] THEN left[k] - room[k + 1] ELSE 0
    BY <2>2, <1>1
  <2>6. QED
    BY <2>1, <2>3, <2>4, <2>5
<1> HIDE DEF K
<1>4. \A k \in Nat : k \in K
  BY <1>2, <1>3, NatSetInduction
<1>5. \A k \in 0..n : left[k] = Rest(k)
  BY <1>4 DEF K
<1>6. QED
  BY <1>5 DEF left

\* A validator takes no more than it has room for, and all that is placed is
\* taken by somebody.
LEMMA TakenBound ==
  ASSUME NEW n \in Nat, NEW amount \in Nat, NEW room, \A i \in 1..n : room[i] \in Nat
  PROVE  /\ \A i \in 1..n : /\ Taken(amount, room, n)[i] \in Nat
                            /\ Taken(amount, room, n)[i] <= room[i]
         /\ amount <= SumTo(room, n) =>
              /\ NotPlaced(amount, room, n) = 0
              /\ SumTo(Taken(amount, room, n), n) = amount
<1> DEFINE left == Leftovers(amount, room, n)
           taken == Taken(amount, room, n)
           K == {k \in Nat : k <= n => SumTo(taken, k) = amount - left[k]}
<1>1. left[0] = amount /\ \A i \in 1..n : left[i] = IF room[i] < left[i - 1]
                                                    THEN left[i - 1] - room[i] ELSE 0
  BY LeftoversDef
<1>2. \A k \in 0..n : left[k] = IF SumTo(room, k) < amount THEN amount - SumTo(room, k) ELSE 0
  BY LeftoversSum
<1>3. \A k \in 0..n : left[k] \in Nat
  <2> SUFFICES ASSUME NEW k \in 0..n PROVE left[k] \in Nat
    OBVIOUS
  <2>1. k \in Nat /\ \A i \in 1..k : room[i] \in Nat
    OBVIOUS
  <2>2. SumTo(room, k) \in Nat
    BY <2>1, SumToType
  <2> HIDE DEF left
  <2>3. QED
    BY <1>2, <2>2
<1>4. \A i \in 1..n : taken[i] = left[i - 1] - left[i]
  BY DEF Taken
<1> HIDE DEF left, taken
<1>5. ASSUME NEW i \in 1..n PROVE taken[i] \in Nat /\ taken[i] <= room[i]
  <2>1. i - 1 \in 0..n /\ room[i] \in Nat
    OBVIOUS
  <2>2. left[i - 1] \in Nat /\ taken[i] = left[i - 1] - left[i]
        /\ left[i] = IF room[i] < left[i - 1] THEN left[i - 1] - room[i] ELSE 0
    BY <2>1, <1>1, <1>3, <1>4
  <2>3. QED
    BY <2>1, <2>2
<1>6. 0 \in K
  <2>1. SumTo(taken, 0) = 0
    BY SumToLast, <1>5
  <2>2. QED
    BY <2>1, <1>1
<1>7. ASSUME NEW k \in Nat, k \in K PROVE k + 1 \in K
  <2> SUFFICES ASSUME k + 1 <= n PROVE SumTo(taken, k + 1) = amount - left[k + 1]
    OBVIOUS
  <2>1. SumTo(taken, k) = amount - left[k]
    BY <1>7
  <2> HIDE DEF K
  <2>2. k + 1 \in 1..n /\ (k + 1) - 1 = k /\ k \in 0..n /\ k + 1 \in 0..n
    OBVIOUS
  <2>3. SumTo(taken, k + 1) = SumTo(taken, k) + taken[k + 1]
    BY <2>2, <1>5, SumToLast
  <2>4. taken[k + 1] = left[k] - left[k + 1] /\ left[k] \in Nat /\ left[k + 1] \in Nat
    BY <2>2, <1>3, <1>4
  <2>5. QED
    BY <2>1, <2>3, <2>4
<1> HIDE DEF K
<1>8. n \in K
  BY <1>6, <1>7, NatSetInduction
<1>9. SumTo(taken, n) = amount - left[n]
  BY <1>8 DEF K
<1>10. ASSUME amount <= SumTo(room, n) PROVE left[n] = 0
  <2>1. SumTo(room, n) \in Nat
    BY SumToType
  <2>2. n \in 0..n
    OBVIOUS
  <2>3. QED
    BY <2>1, <2>2, <1>2, <1>10
<1>11. QED
  BY <1>5, <1>9, <1>10 DEF NotPlaced, left, taken

-----------------------------------------------------------------------------
(***************************************************************************)
(* Distribution: the even shares.                                          *)
(***************************************************************************)
\* The even shares of an amount add up to it, and none is more than the
\* amount divided and rounded up.
LEMMA EvenSharesSum ==
  ASSUME NEW coins \in Nat, NEW n \in Nat \ {0}
  PROVE  /\ \A i \in 1..n : /\ EvenShare(coins, i, n) \in Nat
                            /\ EvenShare(coins, i, n) <= Ceiling(coins, n)
         /\ SumTo([i \in 1..n |-> EvenShare(coins, i, n)], n) = coins
<1> DEFINE q == coins \div n
           r == coins % n
           share == [i \in 1..n |-> EvenShare(coins, i, n)]
           one == [i \in 1..n |-> IF i \in 1..n THEN 1 ELSE 0]
           base == [i \in 1..n |-> q * one[i]]
           extra == [i \in 1..n |-> IF i \in 1..r THEN 1 ELSE 0]
<1>1. q \in Nat /\ r \in Nat /\ r < n /\ coins = n * q + r
  OBVIOUS
<1>2. \A i \in 1..n : EvenShare(coins, i, n) = q + IF i <= r THEN 1 ELSE 0
  BY DEF EvenShare
<1> HIDE DEF q, r
<1>3. \A i \in 1..n : /\ base[i] \in Nat /\ extra[i] \in Nat /\ share[i] = base[i] + extra[i]
                      /\ one[i] \in Nat /\ base[i] = q * one[i]
                      /\ share[i] \in Nat /\ share[i] = EvenShare(coins, i, n)
  BY <1>1, <1>2
<1>4. SumTo(one, n) = n
  <2>1. Cardinality(1..n) = n
    BY FS_Interval
  <2>2. SumTo(one, n) = Cardinality(1..n)
    BY SumToCount
  <2>3. QED
    BY <2>1, <2>2
<1>5. SumTo(extra, n) = r
  <2>1. Cardinality(1..r) = r
    BY <1>1, FS_Interval
  <2>2. (1..r) \in SUBSET (1..n)
    BY <1>1
  <2>3. SumTo(extra, n) = Cardinality(1..r)
    BY <2>2, SumToCount
  <2>4. QED
    BY <2>1, <2>3
<1> HIDE DEF one, base, extra, share
<1>6. SumTo(base, n) = q * SumTo(one, n)
  <2>1. \A i \in 1..n : one[i] \in Nat /\ base[i] = q * one[i]
    BY <1>3
  <2>2. n \in Nat /\ q \in Nat
    BY <1>1
  <2>3. QED
    BY ONLY <2>1, <2>2, SumToScaled
<1>7. SumTo(share, n) = SumTo(base, n) + SumTo(extra, n)
  <2>1. \A i \in 1..n : base[i] \in Nat /\ extra[i] \in Nat /\ share[i] = base[i] + extra[i]
    BY <1>3
  <2>2. n \in Nat
    OBVIOUS
  <2>3. QED
    BY ONLY <2>1, <2>2, SumToPlus
<1>8. q * n = n * q
  BY <1>1
<1>9. SumTo(share, n) = coins
  BY <1>1, <1>4, <1>5, <1>6, <1>7, <1>8
<1>10. ASSUME NEW i \in 1..n PROVE EvenShare(coins, i, n) <= Ceiling(coins, n)
  <2> DEFINE c == (coins + n - 1) \div n
  <2>1. c \in Int /\ coins + n - 1 < n * c + n
    <3> DEFINE a == coins + n - 1
    <3>1. a \in Nat
      OBVIOUS
    <3> HIDE DEF a
    <3>2. a \div n \in Nat /\ a < n * (a \div n) + n
      BY <3>1
    <3>3. QED
      BY <3>2 DEF a
  <2> HIDE DEF c
  <2>2. n * q + r < n * c + 1
    BY <1>1, <2>1
  <2>3. CASE r = 0
    <3>1. SUFFICES ASSUME c + 1 <= q PROVE FALSE
      BY <1>1, <1>2, <2>1, <2>3 DEF Ceiling, c
    <3>2. n * (c + 1) <= n * q
      BY <3>1, <1>1, <2>1
    <3>3. n * (c + 1) = n * c + n
      BY <2>1
    <3>4. QED
      BY <3>2, <3>3, <2>2, <2>3, <1>1, <2>1
  <2>4. CASE r # 0
    <3>1. SUFFICES ASSUME c <= q PROVE FALSE
      BY <1>1, <1>2, <2>1, <2>4 DEF Ceiling, c
    <3>2. n * c <= n * q
      BY <3>1, <1>1, <2>1
    <3>3. QED
      BY <3>2, <2>2, <2>4, <1>1, <2>1
  <2>5. QED
    BY <2>3, <2>4
<1>11. QED
  BY <1>3, <1>9, <1>10 DEF share

\* A share of more coins is no smaller.
LEMMA CeilingMonotone ==
  ASSUME NEW a \in Nat, NEW b \in Nat, a <= b, NEW n \in Nat \ {0}
  PROVE  Ceiling(a, n) \in Int /\ Ceiling(b, n) \in Int /\ Ceiling(a, n) <= Ceiling(b, n)
<1> DEFINE x == a + n - 1
           y == b + n - 1
           p == x \div n
           q == y \div n
<1>1. x \in Nat /\ y \in Nat /\ x <= y
  OBVIOUS
<1> HIDE DEF x, y
<1>2. p \in Nat /\ n * p <= x /\ q \in Nat /\ y < n * q + n
  BY <1>1
<1>3. Ceiling(a, n) = p /\ Ceiling(b, n) = q
  BY DEF Ceiling, x, y
<1> HIDE DEF p, q
<1>4. SUFFICES ASSUME q + 1 <= p PROVE FALSE
  BY <1>2, <1>3
<1>5. n * (q + 1) <= n * p
  BY <1>2, <1>4
<1>6. n * (q + 1) = n * q + n
  BY <1>2
<1>7. QED
  BY <1>1, <1>2, <1>5, <1>6

\* calculate_delegations places every amount, and lifts nobody above the even
\* share of what there will be.
LEMMA DelegationsPlaced ==
  ASSUME NEW totals \in Seq(Nat), totals # <<>>, NEW amount \in Nat
  PROVE  LET n == Len(totals)
             given == Delegations(amount, totals)
         IN  /\ CanDelegate(amount, totals)
             /\ \A i \in 1..n :
                  /\ given[i] \in Nat
                  /\ given[i] > 0 =>
                       totals[i] + given[i] <= EvenShare(SumTo(totals, n) + amount, i, n)
             /\ SumTo(given, n) = amount
<1> DEFINE n == Len(totals)
           coins == SumTo(totals, n) + amount
           share == [i \in 1..n |-> EvenShare(coins, i, n)]
           room == DelegationRoom(amount, totals)
           sum == [i \in 1..n |-> room[i] + totals[i]]
<1>1. n \in Nat \ {0} /\ \A i \in 1..n : totals[i] \in Nat
  OBVIOUS
<1>2. SumTo(totals, n) \in Nat /\ coins \in Nat
  <2> HIDE DEF n
  <2>1. SumTo(totals, n) \in Nat
    BY <1>1, SumToType
  <2>2. QED
    BY <2>1
<1>3. \A i \in 1..n : room[i] = IF EvenShare(coins, i, n) < totals[i]
                                THEN 0 ELSE EvenShare(coins, i, n) - totals[i]
  BY DEF DelegationRoom
<1> HIDE DEF n, coins, room
<1>4. /\ \A i \in 1..n : share[i] \in Nat /\ share[i] = EvenShare(coins, i, n)
      /\ SumTo(share, n) = coins
  BY <1>1, <1>2, EvenSharesSum
<1> HIDE DEF share
<1>5. ASSUME NEW i \in 1..n
      PROVE  /\ room[i] \in Nat /\ share[i] <= room[i] + totals[i]
             /\ room[i] > 0 => room[i] + totals[i] = EvenShare(coins, i, n)
  <2> DEFINE even == EvenShare(coins, i, n)
             t == totals[i]
  <2>1. t \in Nat /\ even \in Nat /\ share[i] = even
    BY <1>1, <1>4
  <2>2. room[i] = IF even < t THEN 0 ELSE even - t
    BY <1>3
  <2> HIDE DEF even, t
  <2>3. room[i] \in Nat /\ even <= room[i] + t /\ (room[i] > 0 => room[i] + t = even)
    BY ONLY <2>1, <2>2
  <2>4. QED
    BY <2>1, <2>3 DEF even, t
<1>6. \A i \in 1..n : /\ room[i] \in Nat /\ totals[i] \in Nat
                      /\ sum[i] = room[i] + totals[i] /\ sum[i] \in Nat
                      /\ share[i] \in Nat /\ share[i] <= sum[i]
  BY <1>1, <1>4, <1>5
<1> HIDE DEF sum
<1>7. n \in Nat
  BY <1>1
<1>8. SumTo(sum, n) = SumTo(room, n) + SumTo(totals, n)
  BY ONLY <1>6, <1>7, SumToPlus
<1>9. SumTo(share, n) <= SumTo(sum, n)
  BY ONLY <1>6, <1>7, SumToMonotone
<1>10. SumTo(room, n) \in Nat
  BY ONLY <1>6, <1>7, SumToType
<1>11. amount <= SumTo(room, n)
  BY <1>2, <1>4, <1>8, <1>9, <1>10 DEF coins
<1>12. /\ \A i \in 1..n : /\ Taken(amount, room, n)[i] \in Nat
                          /\ Taken(amount, room, n)[i] <= room[i]
       /\ NotPlaced(amount, room, n) = 0
       /\ SumTo(Taken(amount, room, n), n) = amount
  BY <1>5, <1>7, <1>11, TakenBound
<1>13. CanDelegate(amount, totals)
  BY <1>12 DEF CanDelegate, room, n
<1>14. Delegations(amount, totals) = Taken(amount, room, n)
  BY DEF Delegations, room, n
<1>15. ASSUME NEW i \in 1..n, Taken(amount, room, n)[i] > 0
       PROVE  totals[i] + Taken(amount, room, n)[i] <= EvenShare(coins, i, n)
  <2> DEFINE given == Taken(amount, room, n)[i]
             even == EvenShare(coins, i, n)
  <2>1. given \in Nat /\ given <= room[i] /\ given > 0
    BY <1>12, <1>15
  <2>2. totals[i] \in Nat /\ room[i] \in Nat /\ (room[i] > 0 => room[i] + totals[i] = even)
    BY <1>1, <1>5
  <2> HIDE DEF given, even
  <2>3. totals[i] + given <= even
    BY ONLY <2>1, <2>2
  <2>4. QED
    BY <2>3 DEF given, even
<1>16. QED
  BY <1>12, <1>13, <1>14, <1>15 DEF n, coins

\* One pass of calculate_undelegations places every amount there is, and takes
\* from nobody more than it has.
LEMMA UndelegationsPlaced ==
  ASSUME NEW totals \in Seq(Nat), totals # <<>>, NEW amount \in Nat,
         amount <= SumTo(totals, Len(totals))
  PROVE  LET n == Len(totals)
             taken == Undelegations(amount, totals)
         IN  /\ UndelegationPlaced(amount, totals)
             /\ \A i \in 1..n : taken[i] \in Nat /\ taken[i] <= totals[i]
             /\ SumTo(taken, n) = amount
<1> DEFINE n == Len(totals)
           coins == SumTo(totals, n) - amount
           share == [i \in 1..n |-> EvenShare(coins, i, n)]
           room == UndelegationRoom(amount, totals)
           sum == [i \in 1..n |-> room[i] + share[i]]
<1>1. n \in Nat \ {0} /\ \A i \in 1..n : totals[i] \in Nat
  OBVIOUS
<1>2. SumTo(totals, n) \in Nat /\ coins \in Nat
  <2>1. SumTo(totals, n) \in Nat
    <3> HIDE DEF n
    <3> QED BY <1>1, SumToType
  <2>2. QED
    BY <2>1
<1>3. \A i \in 1..n : room[i] = IF EvenShare(coins, i, n) < totals[i]
                                THEN totals[i] - EvenShare(coins, i, n) ELSE 0
  BY DEF UndelegationRoom
<1> HIDE DEF n, coins, room
<1>4. /\ \A i \in 1..n : share[i] \in Nat /\ share[i] = EvenShare(coins, i, n)
      /\ SumTo(share, n) = coins
  BY <1>1, <1>2, EvenSharesSum
<1> HIDE DEF share
<1>5. \A i \in 1..n : /\ room[i] \in Nat /\ room[i] <= totals[i]
                      /\ totals[i] <= room[i] + share[i]
  BY <1>1, <1>3, <1>4
<1>6. \A i \in 1..n : /\ room[i] \in Nat /\ share[i] \in Nat
                      /\ sum[i] = room[i] + share[i] /\ sum[i] \in Nat
                      /\ totals[i] \in Nat /\ totals[i] <= sum[i]
  BY <1>1, <1>4, <1>5
<1> HIDE DEF sum
<1>7. n \in Nat
  BY <1>1
<1>8. SumTo(sum, n) = SumTo(room, n) + SumTo(share, n)
  BY ONLY <1>6, <1>7, SumToPlus
<1>9. SumTo(totals, n) <= SumTo(sum, n)
  BY ONLY <1>6, <1>7, SumToMonotone
<1>10. SumTo(room, n) \in Nat
  BY ONLY <1>6, <1>7, SumToType
<1>11. amount <= SumTo(room, n)
  BY <1>2, <1>4, <1>8, <1>9, <1>10 DEF coins
<1>12. /\ \A i \in 1..n : /\ Taken(amount, room, n)[i] \in Nat
                          /\ Taken(amount, room, n)[i] <= room[i]
       /\ NotPlaced(amount, room, n) = 0
       /\ SumTo(Taken(amount, room, n), n) = amount
  BY <1>5, <1>7, <1>11, TakenBound
<1>13. UndelegationPlaced(amount, totals)
  BY <1>12 DEF UndelegationPlaced, room, n
<1>14. Undelegations(amount, totals) = Taken(amount, room, n)
  BY DEF Undelegations, room, n
<1>15. \A i \in 1..n : Taken(amount, room, n)[i] <= totals[i]
  BY <1>1, <1>5, <1>12
<1>16. QED
  BY <1>12, <1>13, <1>14, <1>15 DEF n

-----------------------------------------------------------------------------
(***************************************************************************)
(* The order in which the validators are walked.                           *)
(***************************************************************************)
Before(v, S, d) == {w \in S : Precedes(w, v, d)}
Rank(v, S, d) == Cardinality(Before(v, S, d))

\* Of two validators one comes before the other and has the lesser rank.
LEMMA RankOrders ==
  ASSUME NEW S \in SUBSET Nat, IsFiniteSet(S), NEW d, \A v \in S : d[v] \in Int,
         NEW v \in S, NEW w \in S, v # w
  PROVE  Rank(v, S, d) # Rank(w, S, d)
<1>1. ASSUME NEW x \in S
      PROVE  IsFiniteSet(Before(x, S, d)) /\ x \notin Before(x, S, d) /\ Rank(x, S, d) \in Nat
  <2>1. x \notin Before(x, S, d) /\ Before(x, S, d) \in SUBSET S
    BY DEF Before, Precedes
  <2>2. IsFiniteSet(Before(x, S, d))
    BY <2>1, FS_Subset
  <2>3. QED
    BY <2>1, <2>2, FS_CardinalityType DEF Rank
<1>2. ASSUME NEW x \in S, NEW y \in S, Precedes(x, y, d)
      PROVE  Rank(x, S, d) < Rank(y, S, d)
  <2>1. Before(x, S, d) \in SUBSET Before(y, S, d)
    <3>1. ASSUME NEW z \in S, Precedes(z, x, d) PROVE Precedes(z, y, d)
      BY <1>2, <3>1 DEF Precedes
    <3>2. QED
      BY <3>1 DEF Before
  <2>2. x \in Before(y, S, d) /\ x \notin Before(x, S, d)
    BY <1>2, <1>1 DEF Before
  <2>3. Rank(x, S, d) <= Rank(y, S, d) /\ Rank(x, S, d) # Rank(y, S, d)
    BY <2>1, <2>2, <1>1, FS_Subset DEF Rank
  <2>4. QED
    BY <2>3, <1>1
<1>3. Precedes(v, w, d) \/ Precedes(w, v, d)
  BY DEF Precedes
<1>4. Rank(v, S, d) < Rank(w, S, d) \/ Rank(w, S, d) < Rank(v, S, d)
  BY <1>2, <1>3
<1>5. QED
  BY <1>1, <1>4

\* There is a validator of every rank.
LEMMA RankExists ==
  ASSUME NEW S \in SUBSET Nat, IsFiniteSet(S), NEW d, \A v \in S : d[v] \in Int
  PROVE  /\ Cardinality(S) \in Nat
         /\ \A v \in S : Rank(v, S, d) \in 0..(Cardinality(S) - 1)
         /\ \A v, w \in S : Rank(v, S, d) = Rank(w, S, d) => v = w
         /\ \A k \in 0..(Cardinality(S) - 1) : \E v \in S : Rank(v, S, d) = k
<1> DEFINE n == Cardinality(S)
           f == [v \in S |-> Rank(v, S, d)]
<1>1. n \in Nat
  BY FS_CardinalityType
<1>2. \A v \in S : Rank(v, S, d) \in 0..(n - 1)
  <2> SUFFICES ASSUME NEW v \in S PROVE Rank(v, S, d) \in 0..(n - 1)
    OBVIOUS
  <2>1. v \notin Before(v, S, d) /\ Before(v, S, d) \in SUBSET S
    BY DEF Before, Precedes
  <2>2. IsFiniteSet(Before(v, S, d)) /\ Rank(v, S, d) <= n
          /\ (n = Rank(v, S, d) => S = Before(v, S, d))
    BY <2>1, FS_Subset DEF Rank
  <2>3. Rank(v, S, d) \in Nat
    BY <2>2, FS_CardinalityType DEF Rank
  <2>4. QED
    BY <2>1, <2>2, <2>3, <1>1
<1>3. \A v, w \in S : Rank(v, S, d) = Rank(w, S, d) => v = w
  BY RankOrders
<1> HIDE DEF n
<1>4. ASSUME NEW k \in 0..(n - 1), ~ \E v \in S : Rank(v, S, d) = k PROVE FALSE
  <2> DEFINE others == (0..(n - 1)) \ {k}
  <2>1. IsFiniteSet(0..(n - 1)) /\ Cardinality(0..(n - 1)) = n
    BY <1>1, FS_Interval
  <2>2. IsFiniteSet(others) /\ Cardinality(others) < Cardinality(S)
    <3>1. IsFiniteSet(others) /\ Cardinality(others) = n - 1
      <4> DEFINE all == 0..(n - 1)
      <4>1. IsFiniteSet(all) /\ Cardinality(all) = n /\ k \in all
        BY <2>1
      <4> HIDE DEF all
      <4>2. IsFiniteSet(all \ {k}) /\ Cardinality(all \ {k}) = Cardinality(all) - 1
        BY <4>1, FS_RemoveElement
      <4>3. QED
        BY <4>1, <4>2 DEF all
    <3>2. n = Cardinality(S)
      BY DEF n
    <3> HIDE DEF others
    <3>3. QED
      BY ONLY <1>1, <3>1, <3>2
  <2>3. f \in [S -> others]
    BY <1>2, <1>4
  <2> HIDE DEF others, f
  <2>4. \E v, w \in S : v # w /\ f[v] = f[w]
    BY ONLY IsFiniteSet(S), <2>2, <2>3, FS_PigeonHole
  <2>5. QED
    BY <1>3, <2>4 DEF f
<1>5. QED
  BY <1>1, <1>2, <1>3, <1>4 DEF n

\* seq has every validator of S once.
Lists(seq, S) ==
  LET n == Cardinality(S)
  IN  /\ n \in Nat
      /\ seq \in [1..n -> S] /\ seq \in Seq(S) /\ Len(seq) = n
      /\ \A i, j \in 1..n : seq[i] = seq[j] => i = j
      /\ \A v \in S : \E i \in 1..n : seq[i] = v

\* The sort loses no validator and repeats none.
LEMMA AscendingLists ==
  ASSUME NEW S \in SUBSET Nat, IsFiniteSet(S), NEW d, \A v \in S : d[v] \in Int
  PROVE  Lists(Ascending(S, d), S)
<1> DEFINE n == Cardinality(S)
           seq == Ascending(S, d)
<1>1. /\ n \in Nat
      /\ \A v \in S : Rank(v, S, d) \in 0..(n - 1)
      /\ \A v, w \in S : Rank(v, S, d) = Rank(w, S, d) => v = w
      /\ \A k \in 0..(n - 1) : \E v \in S : Rank(v, S, d) = k
  BY RankExists
<1>2. seq = [i \in 1..n |-> CHOOSE v \in S : Rank(v, S, d) = i - 1]
  BY DEF Ascending, Rank, Before
<1> HIDE DEF n, seq
<1>3. ASSUME NEW i \in 1..n PROVE seq[i] \in S /\ Rank(seq[i], S, d) = i - 1
  <2>1. i - 1 \in 0..(n - 1)
    BY <1>1
  <2>2. \E v \in S : Rank(v, S, d) = i - 1
    BY <1>1, <2>1
  <2>3. seq[i] = CHOOSE v \in S : Rank(v, S, d) = i - 1
    BY <1>2
  <2>4. QED
    BY <2>2, <2>3
<1>4. seq \in [1..n -> S] /\ seq \in Seq(S) /\ Len(seq) = n
  BY <1>1, <1>2, <1>3
<1>5. \A i, j \in 1..n : seq[i] = seq[j] => i = j
  <2> SUFFICES ASSUME NEW i \in 1..n, NEW j \in 1..n, seq[i] = seq[j] PROVE i = j
    OBVIOUS
  <2>1. i - 1 = j - 1
    BY <1>3
  <2>2. QED
    BY <1>1, <2>1
<1>6. ASSUME NEW v \in S PROVE \E i \in 1..n : seq[i] = v
  <2> DEFINE i == Rank(v, S, d) + 1
  <2>1. i \in 1..n /\ i - 1 = Rank(v, S, d)
    BY <1>1
  <2>2. seq[i] \in S /\ Rank(seq[i], S, d) = Rank(v, S, d)
    BY <2>1, <1>3
  <2>3. seq[i] = v
    BY <2>2, <1>1
  <2>4. QED
    BY <2>1, <2>3
<1>7. QED
  BY <1>1, <1>4, <1>5, <1>6 DEF n, seq, Lists

\* So does the order from the other end.
LEMMA DescendingLists ==
  ASSUME NEW S \in SUBSET Nat, IsFiniteSet(S), NEW d, \A v \in S : d[v] \in Int
  PROVE  Lists(Descending(S, d), S)
<1> DEFINE neg == [v \in S |-> -d[v]]
<1>1. \A v \in S : neg[v] \in Int
  OBVIOUS
<1> HIDE DEF neg
<1>2. Lists(Ascending(S, neg), S)
  BY <1>1, AscendingLists
<1>3. QED
  BY <1>2 DEF Descending, neg

\* What the listed validators have is what the set has.
LEMMA TotalsListed ==
  ASSUME NEW S, IsFiniteSet(S), NEW seq, Lists(seq, S), NEW d, \A v \in S : d[v] \in Nat
  PROVE  LET totals == TotalsOf(seq, d)
         IN  /\ totals \in Seq(Nat) /\ Len(totals) = Cardinality(S)
             /\ totals = <<>> <=> S = {}
             /\ \A i \in 1..Cardinality(S) : totals[i] = d[seq[i]]
             /\ SumTo(totals, Cardinality(S)) = SumOver(d, S)
<1> DEFINE n == Cardinality(S)
           totals == TotalsOf(seq, d)
<1>1. /\ n \in Nat /\ seq \in Seq(S) /\ Len(seq) = n
      /\ \A i \in 1..n : seq[i] \in S
      /\ \A i, j \in 1..n : seq[i] = seq[j] => i = j
      /\ \A v \in S : \E i \in 1..n : seq[i] = v
  BY DEF Lists
<1>2. n = 0 <=> S = {}
  BY FS_EmptySet
<1> HIDE DEF n
<1>3. totals = [i \in 1..n |-> d[seq[i]]]
  BY <1>1 DEF TotalsOf
<1> HIDE DEF totals
<1>4. totals \in Seq(Nat) /\ Len(totals) = n /\ \A i \in 1..n : totals[i] = d[seq[i]]
  BY <1>1, <1>3
<1>5. totals = <<>> <=> n = 0
  BY <1>1, <1>4
<1>6. \A i \in 1..n : seq[i] \in S /\ totals[i] = d[seq[i]]
  BY <1>1, <1>4
<1>7. SumOver(d, S) = SumTo(totals, n)
  <2>1. /\ n \in Nat /\ IsFiniteSet(S) /\ \A v \in S : d[v] \in Nat
        /\ \A i, j \in 1..n : seq[i] = seq[j] => i = j
        /\ \A v \in S : \E i \in 1..n : seq[i] = v
    BY <1>1
  <2>2. QED
    BY ONLY <2>1, <1>6, SumOverEnumerated
<1>8. QED
  BY <1>2, <1>4, <1>5, <1>7 DEF n, totals

\* Coins handed out along a sequence all arrive, and only there.
LEMMA AddedListed ==
  ASSUME NEW S \in SUBSET Validators, NEW seq, Lists(seq, S),
         NEW d \in [Validators -> Nat],
         NEW coins, \A i \in 1..Cardinality(S) : coins[i] \in Nat
  PROVE  LET added == Added(d, seq, coins)
             n == Cardinality(S)
         IN  /\ added \in [Validators -> Nat]
             /\ \A i \in 1..n : added[seq[i]] = d[seq[i]] + coins[i]
             /\ \A v \in Validators \ S : added[v] = d[v]
             /\ \A W \in SUBSET Validators :
                  S \subseteq W => SumOver(added, W) = SumOver(d, W) + SumTo(coins, n)
<1> DEFINE n == Cardinality(S)
           added == Added(d, seq, coins)
           gain == [v \in Validators |-> added[v] - d[v]]
<1>1. /\ n \in Nat /\ seq \in Seq(S) /\ Len(seq) = n
      /\ \A i \in 1..n : seq[i] \in S
      /\ \A i, j \in 1..n : seq[i] = seq[j] => i = j
      /\ \A v \in S : \E i \in 1..n : seq[i] = v
  BY DEF Lists
<1> HIDE DEF n
<1>2. DOMAIN seq = 1..n /\ \A i \in 1..n : coins[i] \in Nat
  BY <1>1 DEF n
<1>3. added = [v \in Validators |-> IF \E i \in 1..n : seq[i] = v
                                    THEN d[v] + coins[CHOOSE i \in 1..n : seq[i] = v]
                                    ELSE d[v]]
  BY <1>2 DEF Added
<1> HIDE DEF added
<1>4. ASSUME NEW i \in 1..n PROVE added[seq[i]] = d[seq[i]] + coins[i]
  <2>1. seq[i] \in Validators
    BY <1>1
  <2> DEFINE k == CHOOSE j \in 1..n : seq[j] = seq[i]
  <2>2. k \in 1..n /\ seq[k] = seq[i]
    OBVIOUS
  <2>3. k = i
    BY <1>1, <2>2
  <2>4. added[seq[i]] = d[seq[i]] + coins[k]
    BY <1>3, <2>1
  <2>5. QED
    BY <2>3, <2>4
<1>5. \A v \in Validators \ S : added[v] = d[v]
  BY <1>1, <1>3
<1>6. \A v \in Validators : added[v] \in Nat /\ gain[v] \in Nat /\ added[v] = d[v] + gain[v]
  <2> SUFFICES ASSUME NEW v \in Validators
               PROVE  added[v] \in Nat /\ gain[v] \in Nat /\ added[v] = d[v] + gain[v]
    OBVIOUS
  <2>1. CASE v \in S
    <3>1. PICK i \in 1..n : seq[i] = v
      BY <1>1, <2>1
    <3>2. added[v] = d[v] + coins[i] /\ coins[i] \in Nat /\ d[v] \in Nat
      BY <3>1, <1>2, <1>4
    <3>3. QED
      BY <3>2
  <2>2. CASE v \notin S
    BY <2>2, <1>5
  <2>3. QED
    BY <2>1, <2>2
<1>7. added \in [Validators -> Nat]
  BY <1>3, <1>6
<1>8. \A i \in 1..n : seq[i] \in S /\ coins[i] = gain[seq[i]]
  BY <1>1, <1>2, <1>4
<1>9. \A v \in Validators \ S : gain[v] = 0
  BY <1>5
<1> HIDE DEF gain
<1>10. IsFiniteSet(S)
  BY RegistryAssumption, FS_Subset
<1>11. SumOver(gain, S) = SumTo(coins, n)
  <2>1. \A v \in S : gain[v] \in Nat
    BY <1>6
  <2>2. /\ n \in Nat
        /\ \A i, j \in 1..n : seq[i] = seq[j] => i = j
        /\ \A v \in S : \E i \in 1..n : seq[i] = v
    BY <1>1
  <2>3. QED
    BY ONLY <1>8, <1>10, <2>1, <2>2, SumOverEnumerated
<1>12. ASSUME NEW W \in SUBSET Validators, S \subseteq W
       PROVE  SumOver(added, W) = SumOver(d, W) + SumTo(coins, n)
  <2>1. IsFiniteSet(W) /\ S \in SUBSET W
    BY <1>12, RegistryAssumption, FS_Subset
  <2>2. \A v \in W : d[v] \in Nat /\ gain[v] \in Nat /\ added[v] = d[v] + gain[v]
    BY <1>6
  <2>3. SumOver(added, W) = SumOver(d, W) + SumOver(gain, W)
    BY <2>1, <2>2, SumOverPlus
  <2>4. \A v \in W \ S : gain[v] = 0
    BY <1>9
  <2>5. SumOver(gain, W) = SumOver(gain, S)
    BY <2>1, <2>2, <2>4, SumOverSupport
  <2>6. QED
    BY <2>3, <2>5, <1>11
<1>13. QED
  BY <1>4, <1>5, <1>7, <1>12 DEF n, added

\* Coins taken along a sequence are no more than there were.
LEMMA RemovedListed ==
  ASSUME NEW S \in SUBSET Validators, NEW seq, Lists(seq, S),
         NEW d \in [Validators -> Nat],
         NEW coins, \A i \in 1..Cardinality(S) : coins[i] \in Nat /\ coins[i] <= d[seq[i]]
  PROVE  /\ Removed(d, seq, coins) \in [Validators -> Nat]
         /\ \A v \in Validators : Removed(d, seq, coins)[v] <= d[v]
<1> DEFINE n == Cardinality(S)
           removed == Removed(d, seq, coins)
<1>1. /\ n \in Nat /\ DOMAIN seq = 1..n /\ \A i \in 1..n : seq[i] \in S
      /\ \A i \in 1..n : coins[i] \in Nat /\ coins[i] <= d[seq[i]]
  BY DEF Lists
<1> HIDE DEF n
<1>2. removed = [v \in Validators |-> IF \E i \in 1..n : seq[i] = v
                                      THEN d[v] - coins[CHOOSE i \in 1..n : seq[i] = v]
                                      ELSE d[v]]
  BY <1>1 DEF Removed
<1> HIDE DEF removed
<1>3. ASSUME NEW v \in Validators PROVE removed[v] \in Nat /\ removed[v] <= d[v]
  <2>1. d[v] \in Nat
    OBVIOUS
  <2>2. CASE \E i \in 1..n : seq[i] = v
    <3> DEFINE k == CHOOSE j \in 1..n : seq[j] = v
    <3>1. k \in 1..n /\ seq[k] = v
      BY <2>2
    <3>2. removed[v] = d[v] - coins[k]
      BY <1>2, <2>2
    <3> HIDE DEF k
    <3>3. coins[k] \in Nat /\ coins[k] <= d[v]
      BY <1>1, <3>1
    <3>4. QED
      BY <2>1, <3>2, <3>3
  <2>3. CASE ~ \E i \in 1..n : seq[i] = v
    BY <1>2, <2>1, <2>3
  <2>4. QED
    BY <2>2, <2>3
<1>4. QED
  BY <1>2, <1>3 DEF removed

-----------------------------------------------------------------------------
(***************************************************************************)
(* What a bond and a redelegation do to the delegations.                   *)
(***************************************************************************)
\* The amount is spread over S, and lifts nobody above the even share.
LEMMA BondedPlaced ==
  ASSUME NEW S \in SUBSET Validators, S # {}, NEW amount \in Nat,
         NEW d \in [Validators -> Nat]
  PROVE  LET bonded == Bonded(amount, S, d)
         IN  /\ CanDelegate(amount, TotalsOf(Ascending(S, d), d))
             /\ bonded \in [Validators -> Nat]
             /\ \A v \in Validators : d[v] <= bonded[v]
             /\ \A v \in Validators \ S : bonded[v] = d[v]
             /\ \A v \in S : bonded[v] > d[v] =>
                  bonded[v] <= Ceiling(SumOver(bonded, S), Cardinality(S))
             /\ \A W \in SUBSET Validators :
                  S \subseteq W => SumOver(bonded, W) = SumOver(d, W) + amount
<1> DEFINE n == Cardinality(S)
           seq == Ascending(S, d)
           totals == TotalsOf(seq, d)
           given == Delegations(amount, totals)
           bonded == Bonded(amount, S, d)
<1>1. IsFiniteSet(S) /\ S \in SUBSET Nat /\ (\A v \in S : d[v] \in Nat) /\ \A v \in S : d[v] \in Int
  <2>1. IsFiniteSet(S)
    BY RegistryAssumption, FS_Subset
  <2>2. S \in SUBSET Nat /\ \A v \in S : d[v] \in Nat
    BY RegistryAssumption
  <2>3. QED
    BY <2>1, <2>2
<1>2. Lists(seq, S)
  BY <1>1, AscendingLists
<1> HIDE DEF seq
<1>3. /\ totals \in Seq(Nat) /\ Len(totals) = n /\ totals # <<>>
      /\ \A i \in 1..n : totals[i] = d[seq[i]]
      /\ SumTo(totals, n) = SumOver(d, S)
  <2>1. \A v \in S : d[v] \in Nat
    BY <1>1
  <2>2. IsFiniteSet(S) /\ S # {}
    BY <1>1
  <2>3. totals = TotalsOf(seq, d) /\ n = Cardinality(S)
    OBVIOUS
  <2> HIDE DEF totals, n
  <2>4. /\ totals \in Seq(Nat) /\ Len(totals) = n /\ (totals = <<>> <=> S = {})
        /\ \A i \in 1..n : totals[i] = d[seq[i]]
    BY ONLY <1>2, <2>1, <2>2, <2>3, TotalsListed
  <2>5. SumTo(totals, n) = SumOver(d, S)
    BY ONLY <1>2, <2>1, <2>2, <2>3, TotalsListed
  <2>6. QED
    BY <2>2, <2>4, <2>5
<1>4. /\ n \in Nat \ {0} /\ \A i \in 1..n : seq[i] \in S
      /\ \A v \in S : \E i \in 1..n : seq[i] = v
  <2>1. n # 0
    BY <1>1, FS_EmptySet
  <2>2. QED
    BY <1>2, <2>1 DEF Lists
<1> HIDE DEF totals
<1>5. /\ CanDelegate(amount, totals)
      /\ \A i \in 1..n :
           /\ given[i] \in Nat
           /\ given[i] > 0 =>
                totals[i] + given[i] <= EvenShare(SumTo(totals, n) + amount, i, n)
      /\ SumTo(given, n) = amount
  BY <1>3, DelegationsPlaced
<1>6. bonded = Added(d, seq, given)
  BY DEF Bonded, seq, totals
<1> HIDE DEF given, bonded
<1>7. /\ bonded \in [Validators -> Nat]
      /\ \A i \in 1..n : bonded[seq[i]] = d[seq[i]] + given[i]
      /\ \A v \in Validators \ S : bonded[v] = d[v]
      /\ \A W \in SUBSET Validators :
           S \subseteq W => SumOver(bonded, W) = SumOver(d, W) + SumTo(given, n)
  <2>1. \A i \in 1..Cardinality(S) : given[i] \in Nat
    BY <1>5
  <2> HIDE DEF n
  <2>2. QED
    BY <1>2, <1>6, <2>1, AddedListed DEF n
<1> HIDE DEF n
<1>8. SumOver(d, S) \in Nat /\ SumOver(bonded, S) = SumOver(d, S) + amount
  <2>1. SumOver(bonded, S) = SumOver(d, S) + SumTo(given, n)
    BY <1>7
  <2>2. SumOver(d, S) \in Nat
    BY <1>1, SumOverType
  <2>3. QED
    BY <2>1, <2>2, <1>5
<1>9. ASSUME NEW v \in S
      PROVE  /\ d[v] <= bonded[v]
             /\ bonded[v] > d[v] => bonded[v] <= Ceiling(SumOver(bonded, S), n)
  <2>1. PICK i \in 1..n : seq[i] = v
    BY <1>4
  <2>2. bonded[v] = d[v] + given[i] /\ given[i] \in Nat /\ d[v] \in Nat /\ totals[i] = d[v]
    BY <2>1, <1>1, <1>3, <1>5, <1>7
  <2>3. EvenShare(SumOver(bonded, S), i, n) <= Ceiling(SumOver(bonded, S), n)
          /\ EvenShare(SumOver(bonded, S), i, n) \in Nat
    <3>1. SumOver(bonded, S) \in Nat
      BY <1>8
    <3>2. QED
      BY <1>4, <3>1, EvenSharesSum
  <2>4. given[i] > 0 => bonded[v] <= EvenShare(SumOver(bonded, S), i, n)
    BY <2>2, <1>3, <1>5, <1>8
  <2>5. Ceiling(SumOver(bonded, S), n) \in Int
    BY <1>4, <1>8 DEF Ceiling
  <2>6. QED
    BY <2>2, <2>3, <2>4, <2>5
<1>10. \A v \in Validators : d[v] <= bonded[v]
  BY <1>7, <1>9
<1>11. QED
  BY <1>5, <1>7, <1>9, <1>10 DEF n, bonded, totals, seq

\* The coins of v are spread over S, and none is lost.
LEMMA MovedPlaced ==
  ASSUME NEW S \in SUBSET Validators, S # {}, NEW v \in Validators \ S,
         NEW d \in [Validators -> Nat]
  PROVE  LET moved == [Bonded(d[v], S, d) EXCEPT ![v] = 0]
         IN  /\ moved \in [Validators -> Nat]
             /\ moved[v] = 0
             /\ \A w \in Validators \ {v} : moved[w] = Bonded(d[v], S, d)[w]
             /\ SumOver(moved, Validators) = SumOver(d, Validators)
             /\ SumOver(moved, S) = SumOver(Bonded(d[v], S, d), S)
<1> DEFINE bonded == Bonded(d[v], S, d)
           moved == [bonded EXCEPT ![v] = 0]
<1>1. /\ bonded \in [Validators -> Nat] /\ bonded[v] = d[v]
      /\ SumOver(bonded, Validators) = SumOver(d, Validators) + d[v]
  BY BondedPlaced
<1> HIDE DEF bonded
<1>2. /\ moved \in [Validators -> Nat] /\ moved[v] = 0
      /\ \A w \in Validators \ {v} : moved[w] = bonded[w]
  BY <1>1
<1> HIDE DEF moved
<1>3. \A w \in Validators : bonded[w] \in Nat /\ moved[w] \in Nat
  BY <1>1, <1>2
<1>4. SumOver(moved, Validators) + bonded[v] = SumOver(bonded, Validators) + moved[v]
  <2>1. IsFiniteSet(Validators) /\ v \in Validators
    BY RegistryAssumption
  <2>2. \A w \in Validators \ {v} : moved[w] = bonded[w]
    BY <1>2
  <2>3. QED
    BY ONLY <2>1, <2>2, <1>3, SumOverChange
<1>5. SumOver(d, Validators) \in Nat /\ SumOver(moved, Validators) \in Nat /\ d[v] \in Nat
  BY <1>3, SumOverType, RegistryAssumption
<1>6. SumOver(moved, Validators) = SumOver(d, Validators)
  BY <1>1, <1>2, <1>4, <1>5
<1>7. SumOver(moved, S) = SumOver(bonded, S)
  <2>1. \A w \in S : bonded[w] \in Nat /\ moved[w] = bonded[w]
    BY <1>2, <1>3
  <2>2. IsFiniteSet(S)
    BY RegistryAssumption, FS_Subset
  <2>3. QED
    BY <2>1, <2>2, SumOverSame
<1>8. QED
  BY <1>2, <1>6, <1>7 DEF moved, bonded

-----------------------------------------------------------------------------
(***************************************************************************)
(* What each transaction does to the delegations.                          *)
(***************************************************************************)
\* Bonding adds the amount, to registered validators only.
LEMMA BondStep ==
  ASSUME TypeOK, NEW amount \in Amounts, Bond(amount)
  PROVE  /\ registry # {} /\ registry' = registry /\ amount \in Nat \ {0}
         /\ delegation' = Bonded(amount, registry, delegation)
         /\ delegation' \in [Validators -> Nat]
         /\ \A v \in Validators \ registry : delegation'[v] = delegation[v]
<1>1. registry # {}
  <2> SUFFICES ASSUME registry = {} PROVE FALSE
    OBVIOUS
  <2>1. IsFiniteSet({}) /\ {} \in SUBSET Nat /\ \A v \in {} : delegation[v] \in Int
    BY FS_EmptySet
  <2>2. Lists(Ascending({}, delegation), {})
    BY <2>1, AscendingLists
  <2>3. TotalsOf(Ascending({}, delegation), delegation) = <<>>
    BY <2>1, <2>2, TotalsListed
  <2>4. QED
    BY <2>3 DEF Bond, CanBond, CanDelegate
<1>2. amount \in Nat \ {0}
  BY RegistryAssumption
<1>3. delegation' = Bonded(amount, registry, delegation) /\ registry' = registry
  BY DEF Bond
<1>4. registry \in SUBSET Validators /\ delegation \in [Validators -> Nat] /\ amount \in Nat
  BY <1>2 DEF TypeOK
<1> DEFINE bonded == Bonded(amount, registry, delegation)
<1>5. bonded \in [Validators -> Nat] /\ \A v \in Validators \ registry : bonded[v] = delegation[v]
  BY <1>1, <1>4, BondedPlaced
<1> HIDE DEF bonded
<1>6. delegation' = bonded
  BY <1>3 DEF bonded
<1>7. QED
  BY <1>1, <1>2, <1>3, <1>5, <1>6

\* Undelegating takes coins from validators that have them, and gives none.
LEMMA UndelegateStep ==
  ASSUME TypeOK, NEW amount \in Amounts, Undelegate(amount)
  PROVE  /\ delegation' \in [Validators -> Nat]
         /\ \A v \in Validators : delegation'[v] <= delegation[v]
<1> DEFINE seq == Descending(Delegated, delegation)
           totals == TotalsOf(seq, delegation)
           taken == Undelegations(amount, totals)
<1>1. /\ Delegated \in SUBSET Validators /\ Delegated \in SUBSET Nat /\ IsFiniteSet(Delegated)
      /\ \A v \in Delegated : delegation[v] \in Nat
  <2>1. Delegated \in SUBSET Validators
    BY DEF Delegated
  <2>2. QED
    BY <2>1, RegistryAssumption, FS_Subset DEF TypeOK
<1>2. Lists(seq, Delegated)
  <2>1. \A v \in Delegated : delegation[v] \in Int
    BY <1>1
  <2>2. QED
    BY <1>1, <2>1, DescendingLists
<1> HIDE DEF seq
<1>3. /\ totals \in Seq(Nat) /\ Len(totals) = Cardinality(Delegated)
      /\ \A i \in 1..Cardinality(Delegated) : totals[i] = delegation[seq[i]]
  <2>1. IsFiniteSet(Delegated) /\ \A v \in Delegated : delegation[v] \in Nat
    BY <1>1
  <2>2. QED
    BY ONLY <1>2, <2>1, TotalsListed
<1>4. totals # <<>> /\ amount <= SumTo(totals, Len(totals)) /\ amount \in Nat
      /\ delegation' = Removed(delegation, seq, taken)
  BY RegistryAssumption DEF Undelegate, CanUndelegate, seq
<1> HIDE DEF totals
<1>5. \A i \in 1..Cardinality(Delegated) : taken[i] \in Nat /\ taken[i] <= delegation[seq[i]]
  BY <1>3, <1>4, UndelegationsPlaced
<1> HIDE DEF taken
<1>6. delegation \in [Validators -> Nat]
  BY DEF TypeOK
<1>7. QED
  BY <1>1, <1>2, <1>4, <1>5, <1>6, RemovedListed

\* A removal with a redelegation leaves nothing at the validator, loses no coin
\* and gives only to validators that stay.
LEMMA RemoveStep ==
  ASSUME TypeOK, NEW v \in Validators, NEW rewards \in {0} \union Amounts,
         RemoveAndRedelegate(v, rewards)
  PROVE  LET rest == registry \ {v}
         IN  /\ rest # {} /\ rest \in SUBSET Validators /\ registry' = rest
             /\ delegation' \in [Validators -> Nat]
             /\ delegation'[v] = 0
             /\ \A w \in Validators \ rest : delegation'[w] <= delegation[w]
             /\ \A w \in rest : delegation'[w] > delegation[w] =>
                  delegation'[w] <= Ceiling(SumOver(delegation', rest), Cardinality(rest))
             /\ SumOver(delegation', Validators) = SumOver(delegation, Validators) + rewards
<1> DEFINE rest == registry \ {v}
           d == delegation
           bonded == Bonded(d[v], rest, d)
           moved == [bonded EXCEPT ![v] = 0]
           n == Cardinality(rest)
<1>1. /\ rest # {} /\ rest \in SUBSET Validators /\ registry' = rest /\ v \in Validators \ rest
      /\ d \in [Validators -> Nat] /\ d[v] \in Nat
  BY DEF TypeOK, RemoveAndRedelegate
<1>2. delegation' = IF rewards = 0 THEN moved ELSE Bonded(rewards, rest, moved)
  BY DEF RemoveAndRedelegate, Bonded
<1> HIDE DEF rest, d
<1>3. /\ bonded \in [Validators -> Nat]
      /\ \A w \in Validators \ rest : bonded[w] = d[w]
      /\ \A w \in rest : bonded[w] > d[w] => bonded[w] <= Ceiling(SumOver(bonded, rest), n)
  BY <1>1, BondedPlaced
<1>4. /\ moved \in [Validators -> Nat]
      /\ moved[v] = 0
      /\ \A w \in Validators \ {v} : moved[w] = bonded[w]
      /\ SumOver(moved, Validators) = SumOver(d, Validators)
      /\ SumOver(moved, rest) = SumOver(bonded, rest)
  BY <1>1, MovedPlaced
<1> HIDE DEF bonded, moved
<1>5. /\ \A w \in Validators \ rest : moved[w] <= d[w]
      /\ \A w \in rest : moved[w] > d[w] => moved[w] <= Ceiling(SumOver(moved, rest), n)
  <2>1. \A w \in rest : w # v /\ w \in Validators
    BY <1>1
  <2>2. \A w \in Validators : d[w] \in Nat /\ moved[w] \in Nat
    BY <1>1, <1>4
  <2>3. \A w \in Validators \ rest : moved[w] <= d[w]
    BY <2>2, <1>1, <1>3, <1>4
  <2>4. QED
    BY <2>1, <2>3, <1>3, <1>4
<1>6. IsFiniteSet(rest) /\ n \in Nat \ {0} /\ SumOver(moved, rest) \in Nat
  <2>1. IsFiniteSet(rest)
    BY <1>1, RegistryAssumption, FS_Subset
  <2>2. n \in Nat \ {0}
    BY <2>1, <1>1, FS_CardinalityType, FS_EmptySet
  <2>3. \A w \in rest : moved[w] \in Nat
    BY <1>1, <1>4
  <2>4. QED
    BY <2>1, <2>2, <2>3, SumOverType
<1>7. SumOver(d, Validators) \in Nat
  <2>1. \A w \in Validators : d[w] \in Nat
    BY <1>1
  <2>2. QED
    BY <2>1, SumOverType, RegistryAssumption
<1>8. CASE rewards = 0
  <2>1. delegation' = moved
    BY <1>2, <1>8
  <2>2. SumOver(delegation', Validators) = SumOver(d, Validators) + rewards
    BY <2>1, <1>4, <1>7, <1>8
  <2>3. QED
    BY <2>1, <2>2, <1>1, <1>4, <1>5 DEF n, rest, d
<1>9. CASE rewards # 0
  <2> DEFINE final == Bonded(rewards, rest, moved)
  <2>1. delegation' = final /\ rewards \in Nat
    BY <1>2, <1>9, RegistryAssumption
  <2>2. /\ final \in [Validators -> Nat]
        /\ \A w \in Validators : moved[w] <= final[w]
        /\ \A w \in Validators \ rest : final[w] = moved[w]
        /\ \A w \in rest : final[w] > moved[w] => final[w] <= Ceiling(SumOver(final, rest), n)
        /\ SumOver(final, Validators) = SumOver(moved, Validators) + rewards
        /\ SumOver(final, rest) = SumOver(moved, rest) + rewards
    <3>1. /\ final \in [Validators -> Nat]
          /\ \A w \in Validators : moved[w] <= final[w]
          /\ \A w \in Validators \ rest : final[w] = moved[w]
          /\ \A w \in rest : final[w] > moved[w] => final[w] <= Ceiling(SumOver(final, rest), n)
          /\ \A W \in SUBSET Validators :
               rest \subseteq W => SumOver(final, W) = SumOver(moved, W) + rewards
      BY ONLY <1>1, <1>4, <2>1, BondedPlaced
    <3> HIDE DEF final, n
    <3>2. QED
      BY <1>1, <3>1
  <2> HIDE DEF final, n
  <2>3. \A w \in rest : final[w] > d[w] => final[w] <= Ceiling(SumOver(final, rest), n)
    <3> SUFFICES ASSUME NEW w \in rest, final[w] > d[w]
                 PROVE  final[w] <= Ceiling(SumOver(final, rest), n)
      OBVIOUS
    <3>1. w \in Validators /\ final[w] \in Nat /\ moved[w] \in Nat /\ moved[w] <= final[w]
      BY <1>1, <1>4, <2>2
    <3>2. CASE final[w] > moved[w]
      BY <3>2, <2>2
    <3>3. CASE final[w] = moved[w]
      <4>1. final[w] <= Ceiling(SumOver(moved, rest), n)
        BY <3>3, <1>5
      <4>2. /\ Ceiling(SumOver(moved, rest), n) <= Ceiling(SumOver(final, rest), n)
            /\ Ceiling(SumOver(moved, rest), n) \in Int
            /\ Ceiling(SumOver(final, rest), n) \in Int
        BY <1>6, <2>1, <2>2, CeilingMonotone
      <4>3. QED
        BY <4>1, <4>2, <3>1
    <3>4. QED
      BY <3>1, <3>2, <3>3
  <2>4. final[v] = 0 /\ \A w \in Validators \ rest : final[w] <= d[w]
    BY <1>1, <1>4, <1>5, <2>2
  <2>5. SumOver(final, Validators) = SumOver(d, Validators) + rewards
    BY <1>4, <2>2
  <2>6. QED
    BY <2>1, <2>2, <2>3, <2>4, <2>5, <1>1 DEF n, rest, d
<1>10. QED
  BY <1>8, <1>9

\* A redelegation by the owner moves coins and changes no total.
LEMMA ProxyStep ==
  ASSUME TypeOK, NEW src \in Validators, NEW dst \in Validators, NEW amount \in Amounts,
         RedelegateProxy(src, dst, amount)
  PROVE  delegation' \in [Validators -> Nat] /\ Total' = Total
<1> DEFINE mid == [delegation EXCEPT ![src] = @ - amount]
<1>1. /\ delegation \in [Validators -> Nat] /\ src # dst /\ amount \in Nat
      /\ amount <= delegation[src] /\ IsFiniteSet(Validators)
  BY RegistryAssumption DEF TypeOK, RedelegateProxy
<1>2. /\ mid \in [Validators -> Nat] /\ mid[src] = delegation[src] - amount
      /\ \A w \in Validators \ {src} : mid[w] = delegation[w]
  BY <1>1
<1>3. /\ delegation' = [mid EXCEPT ![dst] = @ + amount]
  BY <1>1 DEF RedelegateProxy
<1> HIDE DEF mid
<1>4. /\ delegation' \in [Validators -> Nat] /\ delegation'[dst] = mid[dst] + amount
      /\ \A w \in Validators \ {dst} : delegation'[w] = mid[w]
  BY <1>1, <1>2, <1>3
<1>5. /\ \A w \in Validators : delegation[w] \in Nat /\ mid[w] \in Nat
      /\ \A w \in Validators : mid[w] \in Nat /\ delegation'[w] \in Nat
  BY <1>1, <1>2, <1>4
<1>6. SumOver(mid, Validators) + delegation[src] = SumOver(delegation, Validators) + mid[src]
  BY ONLY src \in Validators, <1>1, <1>2, <1>5, SumOverChange
<1> DEFINE e == delegation'
<1>7. SumOver(e, Validators) + mid[dst] = SumOver(mid, Validators) + e[dst]
  <2>1. \A w \in Validators : mid[w] \in Nat /\ e[w] \in Nat
    BY <1>5
  <2>2. \A w \in Validators \ {dst} : e[w] = mid[w]
    BY <1>4
  <2>3. IsFiniteSet(Validators) /\ dst \in Validators
    BY <1>1
  <2> HIDE DEF e
  <2>4. QED
    BY ONLY <2>1, <2>2, <2>3, SumOverChange
<1>8. /\ SumOver(mid, Validators) \in Nat /\ SumOver(delegation, Validators) \in Nat
      /\ SumOver(e, Validators) \in Nat
  <2> HIDE DEF e
  <2>1. \A w \in Validators : e[w] \in Nat
    BY <1>5 DEF e
  <2>2. QED
    BY <1>1, <1>5, <2>1, SumOverType
<1>9. SumOver(e, Validators) = SumOver(delegation, Validators)
  BY <1>1, <1>2, <1>4, <1>5, <1>6, <1>7, <1>8
<1>10. QED
  BY <1>4, <1>9 DEF Total

-----------------------------------------------------------------------------
(***************************************************************************)
(* The theorems.                                                           *)
(***************************************************************************)
\* Every transaction and every step of the chain keeps the types: no delegation
\* becomes negative, whatever is undelegated, moved or slashed.
LEMMA TypeStep ==
  ASSUME TypeOK, [Next]_vars
  PROVE  TypeOK'
<1>1. /\ registry \subseteq Validators /\ delegation \in [Validators -> Nat]
      /\ receiving \subseteq Validators /\ paused \in BOOLEAN
  BY DEF TypeOK
<1>2. CASE \E amount \in Amounts : Bond(amount)
  <2>1. PICK amount \in Amounts : Bond(amount)
    BY <1>2
  <2>2. registry' = registry /\ delegation' \in [Validators -> Nat]
    BY <2>1, BondStep
  <2>3. receiving' = receiving /\ paused' = paused
    BY <2>1 DEF Bond
  <2>4. QED
    BY <1>1, <2>2, <2>3 DEF TypeOK
<1>3. CASE \E amount \in Amounts : Undelegate(amount)
  <2>1. PICK amount \in Amounts : Undelegate(amount)
    BY <1>3
  <2>2. delegation' \in [Validators -> Nat]
    BY <2>1, UndelegateStep
  <2>3. registry' = registry /\ receiving' = receiving /\ paused' = paused
    BY <2>1 DEF Undelegate
  <2>4. QED
    BY <1>1, <2>2, <2>3 DEF TypeOK
<1>4. CASE \E v \in Validators : AddValidator(v) \/ RemoveOnly(v) \/ RedelegationCompletes(v)
  BY <1>1, <1>4 DEF AddValidator, RemoveOnly, RedelegationCompletes, TypeOK
<1>5. CASE \E v \in Validators, rewards \in {0} \union Amounts : RemoveAndRedelegate(v, rewards)
  <2>1. PICK v \in Validators, rewards \in {0} \union Amounts : RemoveAndRedelegate(v, rewards)
    BY <1>5
  <2>2. registry' \in SUBSET Validators /\ delegation' \in [Validators -> Nat]
    BY <2>1, RemoveStep
  <2>3. receiving' \subseteq Validators /\ paused' = paused
    BY <1>1, <2>1 DEF RemoveAndRedelegate
  <2>4. QED
    BY <1>1, <2>2, <2>3 DEF TypeOK
<1>6. CASE \E src, dst \in Validators, amount \in Amounts : RedelegateProxy(src, dst, amount)
  <2>1. PICK src \in Validators, dst \in Validators, amount \in Amounts :
          RedelegateProxy(src, dst, amount)
    BY <1>6
  <2>2. delegation' \in [Validators -> Nat]
    BY <2>1, ProxyStep
  <2>3. registry' = registry /\ receiving' = receiving \union {dst} /\ paused' = paused
    BY <2>1 DEF RedelegateProxy
  <2>4. QED
    BY <1>1, <2>2, <2>3 DEF TypeOK
<1>7. CASE \E p \in BOOLEAN : SetPaused(p)
  BY <1>1, <1>7 DEF SetPaused, TypeOK
<1>8. CASE \E v \in Validators, loss \in Losses : Slash(v, loss)
  <2>1. PICK v \in Validators, loss \in Losses : Slash(v, loss)
    BY <1>8
  <2>2. loss \in Nat /\ delegation[v] \in Nat /\ loss < delegation[v]
        /\ delegation' = [delegation EXCEPT ![v] = @ - loss]
    BY <1>1, <2>1, RegistryAssumption DEF Slash
  <2>3. delegation' \in [Validators -> Nat]
    BY <1>1, <2>2
  <2>4. registry' = registry /\ receiving' = receiving /\ paused' = paused
    BY <2>1 DEF Slash
  <2>5. QED
    BY <1>1, <2>3, <2>4 DEF TypeOK
<1>9. CASE UNCHANGED vars
  BY <1>1, <1>9 DEF vars, TypeOK
<1>10. QED
  BY <1>2, <1>3, <1>4, <1>5, <1>6, <1>7, <1>8, <1>9 DEF Next

\* Every item of the registry's storage and every delegation has its type.
THEOREM TypeCorrect ==
  Spec => []TypeOK
<1>1. Init => TypeOK
  <2> SUFFICES ASSUME Init PROVE TypeOK
    OBVIOUS
  <2>1. delegation \in [Validators -> Nat]
    BY DEF Init
  <2>2. QED
    BY <2>1 DEF Init, TypeOK
<1>2. TypeOK /\ [Next]_vars => TypeOK'
  BY TypeStep
<1>3. QED
  BY <1>1, <1>2, PTL DEF Spec

\* The error that calculate_delegations calls impossible never happens while a
\* validator is registered: for any number of validators with any delegations,
\* every amount is placed.
THEOREM EveryBondIsPlaced ==
  Spec => []BondsArePlaced
<1>1. ASSUME TypeOK PROVE BondsArePlaced
  <2> SUFFICES ASSUME registry # {}, NEW amount \in 1..MaxTotal
               PROVE  CanDelegate(amount, TotalsOf(Ascending(registry, delegation), delegation))
    BY DEF BondsArePlaced
  <2>1. amount \in Nat /\ registry \in SUBSET Validators /\ delegation \in [Validators -> Nat]
    BY <1>1 DEF TypeOK
  <2>2. QED
    BY <2>1, BondedPlaced
<1>2. QED
  BY <1>1, TypeCorrect, PTL

\* calculate_undelegations ends after one pass, and takes from no validator
\* more than is delegated to it: every amount up to the total can be taken.
THEOREM EveryUndelegationIsPlaced ==
  Spec => []UndelegationsArePlaced
<1>1. ASSUME TypeOK PROVE UndelegationsArePlaced
  <2> DEFINE seq == Descending(Delegated, delegation)
             totals == TotalsOf(seq, delegation)
  <2> SUFFICES ASSUME NEW amount \in 1..Total
               PROVE  /\ UndelegationPlaced(amount, totals)
                      /\ \A i \in DOMAIN seq : Undelegations(amount, totals)[i] <= totals[i]
    BY DEF UndelegationsArePlaced
  <2>1. /\ Delegated \in SUBSET Validators /\ Delegated \in SUBSET Nat
        /\ IsFiniteSet(Delegated) /\ IsFiniteSet(Validators)
        /\ \A v \in Validators : delegation[v] \in Nat
        /\ \A v \in Validators \ Delegated : delegation[v] = 0
    <3>1. Delegated \in SUBSET Validators
      BY DEF Delegated
    <3>2. \A v \in Validators : delegation[v] \in Nat
      BY <1>1 DEF TypeOK
    <3>3. \A v \in Validators \ Delegated : delegation[v] = 0
      BY <3>2 DEF Delegated
    <3>4. QED
      BY <3>1, <3>2, <3>3, RegistryAssumption, FS_Subset
  <2>2. Lists(seq, Delegated)
    <3>1. \A v \in Delegated : delegation[v] \in Int
      BY <2>1
    <3>2. QED
      BY <2>1, <3>1, DescendingLists
  <2> HIDE DEF seq
  <2>3. /\ totals \in Seq(Nat) /\ Len(totals) = Cardinality(Delegated)
        /\ (totals = <<>> <=> Delegated = {})
        /\ SumTo(totals, Cardinality(Delegated)) = SumOver(delegation, Delegated)
    <3>1. \A v \in Delegated : delegation[v] \in Nat
      BY <2>1
    <3>2. IsFiniteSet(Delegated)
      BY <2>1
    <3>3. QED
      BY ONLY <2>2, <3>1, <3>2, TotalsListed
  <2>4. SumOver(delegation, Delegated) = Total
    <3>1. SumOver(delegation, Validators) = SumOver(delegation, Delegated)
      BY ONLY <2>1, SumOverSupport
    <3>2. QED
      BY <3>1 DEF Total
  <2>5. Total \in Nat
    BY <2>1, SumOverType DEF Total
  <2>6. amount \in Nat /\ amount <= Total /\ amount # 0
    BY <2>5
  <2>7. totals # <<>>
    <3> SUFFICES ASSUME Delegated = {} PROVE FALSE
      BY <2>3
    <3>1. SumOver(delegation, {}) = 0
      BY SumOverStart, RegistryAssumption
    <3>2. QED
      BY <3>1, <2>4, <2>6
  <2>8. DOMAIN seq = 1..Len(totals)
    BY <2>2, <2>3 DEF Lists
  <2> HIDE DEF totals
  <2>9. QED
    BY <2>3, <2>4, <2>6, <2>7, <2>8, UndelegationsPlaced
<1>2. QED
  BY <1>1, TypeCorrect, PTL

\* Only bonds and removals let the total grow or change the registry together
\* with the delegations.
LEMMA OtherSteps ==
  ASSUME TypeOK, [Next]_vars,
         ~ \E amount \in Amounts : Bond(amount),
         ~ \E v \in Validators, rewards \in {0} \union Amounts : RemoveAndRedelegate(v, rewards)
  PROVE  /\ Total' <= Total /\ Total \in Nat /\ Total' \in Nat
         /\ registry' # registry => delegation' = delegation
<1>1. TypeOK'
  BY TypeStep
<1>2. /\ IsFiniteSet(Validators)
      /\ \A v \in Validators : delegation[v] \in Nat /\ delegation'[v] \in Nat
  BY <1>1, RegistryAssumption DEF TypeOK
<1> DEFINE d == delegation
           e == delegation'
<1>3. Total = SumOver(d, Validators) /\ Total' = SumOver(e, Validators)
  BY DEF Total
<1>4. \A v \in Validators : d[v] \in Nat /\ e[v] \in Nat
  BY <1>2
<1>5. Total \in Nat /\ Total' \in Nat
  <2> HIDE DEF d, e
  <2> QED BY <1>2, <1>3, <1>4, SumOverType
<1>6. ASSUME \A v \in Validators : e[v] <= d[v] PROVE Total' <= Total
  <2> HIDE DEF d, e
  <2>1. \A v \in Validators : e[v] \in Nat /\ d[v] \in Nat /\ e[v] <= d[v]
    BY <1>4, <1>6
  <2>2. SumOver(e, Validators) <= SumOver(d, Validators)
    BY ONLY <1>2, <2>1, SumOverMonotone
  <2>3. QED
    BY <1>3, <2>2
<1>7. CASE \E amount \in Amounts : Undelegate(amount)
  <2>1. PICK amount \in Amounts : Undelegate(amount)
    BY <1>7
  <2>2. \A v \in Validators : e[v] <= d[v]
    BY <2>1, UndelegateStep
  <2>3. registry' = registry
    BY <2>1 DEF Undelegate
  <2>4. QED
    BY <1>5, <1>6, <2>2, <2>3
<1>8. CASE delegation' = delegation
  BY <1>5, <1>8 DEF Total
<1>9. CASE \E v \in Validators : AddValidator(v) \/ RemoveOnly(v) \/ RedelegationCompletes(v)
  BY <1>8, <1>9 DEF AddValidator, RemoveOnly, RedelegationCompletes
<1>10. CASE \E src, dst \in Validators, amount \in Amounts : RedelegateProxy(src, dst, amount)
  <2>1. Total' = Total
    BY <1>10, ProxyStep
  <2>2. registry' = registry
    BY <1>10 DEF RedelegateProxy
  <2>3. QED
    BY <1>5, <2>1, <2>2
<1>11. CASE \E p \in BOOLEAN : SetPaused(p)
  BY <1>8, <1>11 DEF SetPaused
<1>12. CASE \E v \in Validators, loss \in Losses : Slash(v, loss)
  <2>1. PICK v \in Validators, loss \in Losses : Slash(v, loss)
    BY <1>12
  <2>2. loss \in Nat /\ registry' = registry /\ delegation \in [Validators -> Nat]
        /\ delegation' = [delegation EXCEPT ![v] = @ - loss]
    BY <2>1, RegistryAssumption DEF Slash, TypeOK
  <2>3. \A w \in Validators : e[w] <= d[w]
    BY <2>2
  <2>4. QED
    BY <1>5, <1>6, <2>2, <2>3
<1>13. CASE UNCHANGED vars
  BY <1>8, <1>13 DEF vars
<1>14. QED
  BY <1>7, <1>9, <1>10, <1>11, <1>12, <1>13 DEF Next

\* However many validators there are and whatever the owner has moved where: a
\* bond and a removal give coins only to validators that are registered.
THEOREM CoinsStayRegistered ==
  Spec => OnlyRegisteredGain
<1> DEFINE Gain == \A v \in Validators :
                     (Total' > Total \/ registry' # registry) /\ delegation'[v] > delegation[v]
                       => v \in registry'
<1>1. ASSUME TypeOK, [Next]_vars PROVE Gain
  <2>1. TypeOK'
    BY <1>1, TypeStep
  <2>2. \A v \in Validators : delegation[v] \in Nat /\ delegation'[v] \in Nat
    BY <1>1, <2>1 DEF TypeOK
  <2>3. CASE \E amount \in Amounts : Bond(amount)
    <3>1. registry' = registry /\ \A v \in Validators \ registry : delegation'[v] = delegation[v]
      BY <1>1, <2>3, BondStep
    <3>2. QED
      BY <2>2, <3>1
  <2>4. CASE \E v \in Validators, rewards \in {0} \union Amounts : RemoveAndRedelegate(v, rewards)
    <3>1. PICK v \in Validators, rewards \in {0} \union Amounts : RemoveAndRedelegate(v, rewards)
      BY <2>4
    <3>2. registry' = registry \ {v}
          /\ \A w \in Validators \ (registry \ {v}) : delegation'[w] <= delegation[w]
      BY <1>1, <3>1, RemoveStep
    <3>3. QED
      BY <2>2, <3>2
  <2>5. CASE /\ ~ \E amount \in Amounts : Bond(amount)
             /\ ~ \E v \in Validators, rewards \in {0} \union Amounts :
                     RemoveAndRedelegate(v, rewards)
    <3>1. /\ Total' <= Total /\ Total \in Nat /\ Total' \in Nat
          /\ registry' # registry => delegation' = delegation
      BY <1>1, <2>5, OtherSteps
    <3>2. QED
      BY <2>2, <3>1
  <2>6. QED
    BY <2>3, <2>4, <2>5
<1>2. QED
  BY <1>1, TypeCorrect, PTL DEF Spec, OnlyRegisteredGain

\* A removed validator keeps coins only when they were still arriving there,
\* and no removal loses a coin.
THEOREM RemovalKeepsCoins ==
  Spec => RemovalMovesEverything
<1>1. ASSUME TypeOK, [Next]_vars
      PROVE  \A v \in registry \ registry' :
               /\ delegation'[v] > 0 => v \in receiving
               /\ Total' >= Total
  <2> SUFFICES ASSUME NEW v \in registry \ registry'
               PROVE  (delegation'[v] > 0 => v \in receiving) /\ Total' >= Total
    OBVIOUS
  <2>1. /\ registry' # registry /\ v \in Validators /\ delegation[v] \in Nat
    BY <1>1 DEF TypeOK
  <2>2. Total \in Nat
    <3>1. IsFiniteSet(Validators) /\ \A w \in Validators : delegation[w] \in Nat
      BY <1>1, RegistryAssumption DEF TypeOK
    <3>2. QED
      BY <3>1, SumOverType DEF Total
  <2>3. CASE \E w \in Validators : RemoveOnly(w)
    <3>1. PICK w \in Validators : RemoveOnly(w)
      BY <2>3
    <3>2. /\ registry' = registry \ {w} /\ delegation' = delegation
          /\ w \notin Delegated \/ w \in receiving
      BY <3>1 DEF RemoveOnly
    <3>3. v = w
      BY <3>2
    <3>4. delegation[v] > 0 => v \in receiving
      BY <2>1, <3>2, <3>3 DEF Delegated
    <3>5. Total' = Total
      BY <3>2 DEF Total
    <3>6. QED
      BY <2>2, <3>2, <3>4, <3>5
  <2>4. CASE \E w \in Validators, rewards \in {0} \union Amounts : RemoveAndRedelegate(w, rewards)
    <3>1. PICK w \in Validators, rewards \in {0} \union Amounts : RemoveAndRedelegate(w, rewards)
      BY <2>4
    <3>2. /\ registry' = registry \ {w} /\ delegation'[w] = 0
          /\ SumOver(delegation', Validators) = SumOver(delegation, Validators) + rewards
      BY <1>1, <3>1, RemoveStep
    <3>3. v = w /\ rewards \in Nat
      BY <3>2, RegistryAssumption
    <3>4. Total' = Total + rewards
      BY <3>2 DEF Total
    <3>5. QED
      BY <2>2, <3>2, <3>3, <3>4
  <2>5. \/ \E w \in Validators : RemoveOnly(w)
        \/ \E w \in Validators, rewards \in {0} \union Amounts : RemoveAndRedelegate(w, rewards)
    BY <1>1, <2>1 DEF Next, Bond, Undelegate, AddValidator, RedelegationCompletes,
                      RedelegateProxy, SetPaused, Slash, vars
  <2>6. QED
    BY <2>3, <2>4, <2>5
<1>2. QED
  BY <1>1, TypeCorrect, PTL DEF Spec, RemovalMovesEverything

\* Bonding never lifts a validator above its even share: however uneven the
\* delegations are, it only works against that.
THEOREM BondsLevel ==
  Spec => BondOnlyLevels
<1>1. ASSUME TypeOK, [Next]_vars
      PROVE  \A v \in registry :
               Total' > Total /\ delegation'[v] > delegation[v] /\ registry' = registry
                 => delegation'[v] <= Ceiling(SumOver(delegation', registry),
                                              Cardinality(registry))
  <2> SUFFICES ASSUME NEW v \in registry, Total' > Total, delegation'[v] > delegation[v],
                      registry' = registry
               PROVE  delegation'[v] <= Ceiling(SumOver(delegation', registry),
                                                Cardinality(registry))
    OBVIOUS
  <2>1. registry \in SUBSET Validators /\ delegation \in [Validators -> Nat]
    BY <1>1 DEF TypeOK
  <2>2. CASE \E amount \in Amounts : Bond(amount)
    <3>1. PICK amount \in Amounts : Bond(amount)
      BY <2>2
    <3>2. /\ registry # {} /\ amount \in Nat
          /\ delegation' = Bonded(amount, registry, delegation)
      BY <1>1, <3>1, BondStep
    <3> DEFINE bonded == Bonded(amount, registry, delegation)
    <3>3. bonded[v] > delegation[v] =>
            bonded[v] <= Ceiling(SumOver(bonded, registry), Cardinality(registry))
      BY <2>1, <3>2, BondedPlaced
    <3>4. QED
      BY <3>2, <3>3
  <2>3. CASE \E w \in Validators, rewards \in {0} \union Amounts : RemoveAndRedelegate(w, rewards)
    <3>1. PICK w \in Validators, rewards \in {0} \union Amounts : RemoveAndRedelegate(w, rewards)
      BY <2>3
    <3> DEFINE rest == registry \ {w}
    <3>2. /\ registry' = rest
          /\ \A x \in rest : delegation'[x] > delegation[x] =>
               delegation'[x] <= Ceiling(SumOver(delegation', rest), Cardinality(rest))
      BY <1>1, <3>1, RemoveStep
    <3>3. rest = registry
      BY <3>2
    <3> HIDE DEF rest
    <3>4. QED
      BY <3>2, <3>3
  <2>4. CASE /\ ~ \E amount \in Amounts : Bond(amount)
             /\ ~ \E w \in Validators, rewards \in {0} \union Amounts :
                     RemoveAndRedelegate(w, rewards)
    <3>1. Total' <= Total /\ Total \in Nat /\ Total' \in Nat
      BY <1>1, <2>4, OtherSteps
    <3>2. QED
      BY <3>1
  <2>5. QED
    BY <2>2, <2>3, <2>4
<1>2. QED
  BY <1>1, TypeCorrect, PTL DEF Spec, BondOnlyLevels
=============================================================================
