---------------------------- MODULE Distribution ----------------------------
(***************************************************************************)
(* How the registry library (common.rs) splits an amount over validators.  *)
(* Both algorithms walk the validators once in the order given, hand each  *)
(* of them what separates its delegation from its even share of the total  *)
(* there will be, and stop when the amount is used up.  totals is the      *)
(* sequence of their present delegations.                                  *)
(***************************************************************************)
EXTENDS Sums, Sequences

EvenShareTruncated(coins, i, n) == coins \div n  \* mutant: no extra_coin

\* coins_per_validator + extra_coin: the first remaining_coins validators get
\* one coin more.
EvenShare(coins, i, n) == coins \div n + IF i <= coins % n THEN 1 ELSE 0

\* What is left of amount after the first i validators have taken what they
\* have room for.
Leftovers(amount, room, n) ==
  LET left[i \in 0..n] ==
        IF i = 0 THEN amount
        ELSE IF room[i] < left[i - 1] THEN left[i - 1] - room[i] ELSE 0
  IN  left

\* What calculate_delegations and one pass of calculate_undelegations hand to
\* each validator, and what they could not place.
Taken(amount, room, n) ==
  LET left == Leftovers(amount, room, n)
  IN  [i \in 1..n |-> left[i - 1] - left[i]]
NotPlaced(amount, room, n) == Leftovers(amount, room, n)[n]

DelegationRoomAll(amount, totals) ==  \* mutant: the first validator takes all
  [i \in 1..Len(totals) |-> amount]

\* to_delegate, before it is cut to what is left
DelegationRoom(amount, totals) ==
  LET n == Len(totals)
      coins == SumTo(totals, n) + amount
  IN  [i \in 1..n |-> IF EvenShare(coins, i, n) < totals[i]
                      THEN 0 ELSE EvenShare(coins, i, n) - totals[i]]

UndelegationRoomEven(amount, totals) ==  \* mutant: the amount is split evenly
  [i \in 1..Len(totals) |-> EvenShare(amount, i, Len(totals))]

UndelegationRoomOfTotal(amount, totals) ==  \* mutant: the shares of what there was
  LET n == Len(totals)
      coins == SumTo(totals, n)
  IN  [i \in 1..n |-> IF EvenShare(coins, i, n) < totals[i]
                      THEN totals[i] - EvenShare(coins, i, n) ELSE 0]

\* to_undelegate, before it is cut to what is left
UndelegationRoom(amount, totals) ==
  LET n == Len(totals)
      coins == SumTo(totals, n) - amount
  IN  [i \in 1..n |-> IF EvenShare(coins, i, n) < totals[i]
                      THEN totals[i] - EvenShare(coins, i, n) ELSE 0]

\* calculate_delegations; it fails without validators and, "impossible", when
\* something could not be placed.
CanDelegate(amount, totals) ==
  /\ totals # <<>>
  /\ NotPlaced(amount, DelegationRoom(amount, totals), Len(totals)) = 0

Delegations(amount, totals) == Taken(amount, DelegationRoom(amount, totals), Len(totals))

\* calculate_undelegations.  Its loop runs again while something is left; one
\* pass is the whole of it as long as UndelegationPlaced holds.
CanUndelegate(amount, totals) == totals # <<>> /\ amount <= SumTo(totals, Len(totals))

UndelegationPlaced(amount, totals) ==
  NotPlaced(amount, UndelegationRoom(amount, totals), Len(totals)) = 0

Undelegations(amount, totals) == Taken(amount, UndelegationRoom(amount, totals), Len(totals))
=============================================================================
