------------------------------ MODULE Registry ------------------------------
(***************************************************************************)
(* The validators registry contract and the delegations the hub makes with *)
(* it.  Validators are numbered in the order of their addresses, in which  *)
(* the registry's storage is iterated and which a stable sort keeps for    *)
(* equal delegations.  An action is a transaction: a handler with all the  *)
(* messages it causes, or no step when one of them fails.                  *)
(***************************************************************************)
EXTENDS Distribution

CONSTANTS
  Validators,  \* the validators of the chain, a set of numbers
  Amounts,     \* coins bonded or undelegated at once, and rewards dispatched
  Losses,      \* coins slashed from a delegation
  MaxTotal     \* bound on the coins delegated

ASSUME RegistryAssumption ==
  /\ Validators \subseteq Nat
  /\ IsFiniteSet(Validators)
  /\ Amounts \subseteq Nat \ {0}
  /\ Losses \subseteq Nat \ {0}

VARIABLES
  registry,   \* REGISTRY
  delegation, \* by validator, the coins the hub has delegated to it
  receiving,  \* validators with a redelegation to them still in progress
  paused      \* params.paused of the hub

vars == <<registry, delegation, receiving, paused>>

\* What the chain lists for the hub: a record for each validator with coins.
Delegated == {v \in Validators : delegation[v] > 0}

Total == SumOver(delegation, Validators)

Init ==
  /\ registry \in SUBSET Validators
  /\ delegation = [v \in Validators |-> 0]
  /\ receiving = {}
  /\ paused = FALSE

\* Whether v is sorted before w: by what is delegated, the least first, and by
\* address when as much is.
Precedes(v, w, d) == d[v] < d[w] \/ (d[v] = d[w] /\ v < w)

\* query_validators sorted as GetValidatorsForDelegation and remove_validator
\* sort it: the i-th validator is the one that i - 1 others precede.
Ascending(validators, d) ==
  [i \in 1..Cardinality(validators) |->
     CHOOSE v \in validators : Cardinality({w \in validators : Precedes(w, v, d)}) = i - 1]

\* The delegations the hub's undelegate works on: most first.
Descending(validators, d) == Ascending(validators, [v \in validators |-> -d[v]])

TotalsOf(seq, d) == [i \in DOMAIN seq |-> d[seq[i]]]

\* d with the i-th of coins added to the i-th validator of seq.
Added(d, seq, coins) ==
  [v \in Validators |-> IF \E i \in DOMAIN seq : seq[i] = v
                        THEN d[v] + coins[CHOOSE i \in DOMAIN seq : seq[i] = v]
                        ELSE d[v]]

Removed(d, seq, coins) ==
  [v \in Validators |-> IF \E i \in DOMAIN seq : seq[i] = v
                        THEN d[v] - coins[CHOOSE i \in DOMAIN seq : seq[i] = v]
                        ELSE d[v]]

\* The delegations of execute_bond: amount spread over the registry.
CanBond(amount, validators, d) ==
  ~paused /\ CanDelegate(amount, TotalsOf(Ascending(validators, d), d))

BondedAnywhere(amount, validators, d) ==  \* mutant: registered or not
  LET seq == Ascending(Validators, d)
  IN  Added(d, seq, Delegations(amount, TotalsOf(seq, d)))

Bonded(amount, validators, d) ==
  LET seq == Ascending(validators, d)
  IN  Added(d, seq, Delegations(amount, TotalsOf(seq, d)))

-----------------------------------------------------------------------------
Bond(amount) ==
  /\ CanBond(amount, registry, delegation)
  /\ Total + amount <= MaxTotal
  /\ delegation' = Bonded(amount, registry, delegation)
  /\ UNCHANGED <<registry, receiving, paused>>

\* undelegate of the hub, which goes by the delegations and not the registry.
Undelegate(amount) ==
  LET seq == Descending(Delegated, delegation)
      totals == TotalsOf(seq, delegation)
  IN  /\ ~paused
      /\ CanUndelegate(amount, totals)
      /\ delegation' = Removed(delegation, seq, Undelegations(amount, totals))
      /\ UNCHANGED <<registry, receiving, paused>>

\* add_validator by the owner or the hub
AddValidator(v) ==
  /\ registry' = registry \union {v}
  /\ UNCHANGED <<delegation, receiving, paused>>

(***************************************************************************)
(* remove_validator by the owner, for a registered validator or not.  The  *)
(* last validator cannot be removed.                                       *)
(***************************************************************************)
RemoveWithoutLooking(v) ==  \* mutant: delegations are not looked at
  /\ registry \ {v} # {}
  /\ registry' = registry \ {v}
  /\ UNCHANGED <<delegation, receiving, paused>>

\* Nothing is delegated to v, or its coins cannot be redelegated because they
\* are still arriving from another validator: only the registry changes.
RemoveOnly(v) ==
  /\ registry \ {v} # {}
  /\ v \notin Delegated \/ v \in receiving
  /\ registry' = registry \ {v}
  /\ UNCHANGED <<delegation, receiving, paused>>

\* RedelegateProxy moves the coins of v to the validators that remain, and
\* DispatchRewards bonds the rewards; while the hub is paused it refuses and
\* the removal fails.
RemoveAndRedelegate(v, rewards) ==
  LET rest == Ascending(registry \ {v}, delegation)
      totals == TotalsOf(rest, delegation)
      moved == [Added(delegation, rest, Delegations(delegation[v], totals)) EXCEPT ![v] = 0]
  IN  /\ registry \ {v} # {}
      /\ v \in Delegated
      /\ v \notin receiving
      /\ CanDelegate(delegation[v], totals)
      /\ ~paused
      /\ rewards = 0 \/ CanBond(rewards, registry \ {v}, moved)
      /\ Total + rewards <= MaxTotal
      /\ registry' = registry \ {v}
      /\ delegation' = IF rewards = 0 THEN moved ELSE Bonded(rewards, registry \ {v}, moved)
      /\ receiving' = receiving \union {w \in Validators : moved[w] > delegation[w]}
      /\ UNCHANGED paused

\* execute_redelegate_proxy sent by the owner of the hub: to any validator,
\* registered or not, and while the hub is paused.  The chain refuses coins
\* that are still arriving at src.
RedelegateProxy(src, dst, amount) ==
  /\ src # dst
  /\ src \notin receiving
  /\ amount <= delegation[src]
  /\ delegation' = [delegation EXCEPT ![src] = @ - amount, ![dst] = @ + amount]
  /\ receiving' = receiving \union {dst}
  /\ UNCHANGED <<registry, paused>>

\* execute_pause_contracts and execute_unpause_contracts of the hub
SetPaused(p) ==
  /\ paused' = p
  /\ UNCHANGED <<registry, delegation, receiving>>

\* The chain: a validator is slashed, or redelegations to it complete.
Slash(v, loss) ==
  /\ loss < delegation[v]
  /\ delegation' = [delegation EXCEPT ![v] = @ - loss]
  /\ UNCHANGED <<registry, receiving, paused>>

RedelegationCompletes(v) ==
  /\ receiving' = receiving \ {v}
  /\ UNCHANGED <<registry, delegation, paused>>

Next ==
  \/ \E amount \in Amounts : Bond(amount) \/ Undelegate(amount)
  \/ \E v \in Validators : AddValidator(v) \/ RemoveOnly(v) \/ RedelegationCompletes(v)
  \/ \E v \in Validators, rewards \in {0} \union Amounts : RemoveAndRedelegate(v, rewards)
  \/ \E src, dst \in Validators, amount \in Amounts : RedelegateProxy(src, dst, amount)
  \/ \E p \in BOOLEAN : SetPaused(p)
  \/ \E v \in Validators, loss \in Losses : Slash(v, loss)

Spec == Init /\ [][Next]_vars

-----------------------------------------------------------------------------
TypeOK ==
  /\ registry \subseteq Validators
  /\ delegation \in [Validators -> Nat]
  /\ receiving \subseteq Validators
  /\ paused \in BOOLEAN

\* The error calculate_delegations calls impossible is impossible: as long as
\* a validator is registered, every amount can be spread, however uneven the
\* delegations have become.
BondsArePlaced ==
  registry # {} =>
    \A amount \in 1..MaxTotal :
      CanDelegate(amount, TotalsOf(Ascending(registry, delegation), delegation))

\* The first pass of calculate_undelegations places the whole amount, so its
\* loop ends, and takes from no validator more than it has.
UndelegationsArePlaced ==
  \A amount \in 1..Total :
    LET seq == Descending(Delegated, delegation)
        totals == TotalsOf(seq, delegation)
    IN  /\ UndelegationPlaced(amount, totals)
        /\ \A i \in DOMAIN seq : Undelegations(amount, totals)[i] <= totals[i]

Ceiling(a, b) == (a + b - 1) \div b

\* Bonding never lifts a validator above its even share of what is delegated
\* to the registered validators: it only works against imbalance.
BondOnlyLevels ==
  [][\A v \in registry :
       Total' > Total /\ delegation'[v] > delegation[v] /\ registry' = registry
         => delegation'[v] <= Ceiling(SumOver(delegation', registry),
                                      Cardinality(registry))]_vars

\* A bond and a removal never move coins to a validator that is not registered
\* when they arrive, though the owner may have moved some there.
OnlyRegisteredGain ==
  [][\A v \in Validators :
       (Total' > Total \/ registry' # registry) /\ delegation'[v] > delegation[v]
         => v \in registry']_vars

\* A validator leaves the registry with coins still delegated to it only when
\* they could not be redelegated; removal never loses a coin.
RemovalMovesEverything ==
  [][\A v \in registry \ registry' :
       /\ delegation'[v] > 0 => v \in receiving
       /\ Total' >= Total]_vars

\* Two validators with equal delegations are given the same, to a coin, when
\* an amount is bonded.
BondedEqually ==
  [][\A v, w \in registry :
       registry' = registry /\ Total' > Total /\ delegation[v] = delegation[w]
         => delegation'[v] <= delegation'[w] + 1]_vars
=============================================================================
