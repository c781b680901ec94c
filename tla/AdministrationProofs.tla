------------------------ MODULE AdministrationProofs ------------------------
(***************************************************************************)
(* Theorems about the wiring of the contracts, for any number of people,   *)
(* dispatchers and tokens, any fee rates and any order of configuring and  *)
(* using them.                                                             *)
(***************************************************************************)
EXTENDS Administration, DecimalsProofs

(***************************************************************************)
(* RewardsReachTheDispatcher and IssuedCanUnbond are not inductive alone:  *)
(* the withdraw address follows the configuration, and nothing is earned   *)
(* before there is a dispatcher.                                           *)
(***************************************************************************)
WiringInv ==
  /\ TypeOK
  /\ config.dispatcher # None => withdraw = config.dispatcher
  /\ config.dispatcher = None => staked = 0 /\ rewards = 0
  /\ IssuedCanUnbond

\* The step RewardsReachTheDispatcher allows.
RewardsWellPaid ==
  \A a \in Dispatchers \union {"hub"} : held'[a] > held[a] => a = config'.dispatcher

Holding == Dispatchers \union {"hub", "fees"}

\* What the chain pays goes to one address.
LEMMA PaidFacts ==
  ASSUME TypeOK
  PROVE  /\ Paid \in [Holding -> Nat]
         /\ \A a \in Holding : a # withdraw => Paid[a] = held[a]
         /\ \A d \in Dispatchers : Fee(d) \in Nat
<1>1. held \in [Holding -> Nat] /\ rewards \in Nat /\ withdraw \in Holding
  BY DEF TypeOK, Holding
<1>2. Paid \in [Holding -> Nat] /\ \A a \in Holding : a # withdraw => Paid[a] = held[a]
  BY <1>1 DEF Paid
<1>3. ASSUME NEW d \in Dispatchers PROVE Fee(d) \in Nat
  <2>1. dispatcher[d].lido_fee_rate \in Nat
    BY AdministrationAssumption DEF TypeOK
  <2>2. Paid[d] \in Nat
    BY <1>2 DEF Holding
  <2>3. QED
    BY <2>1, <2>2, TimesBound DEF Fee
<1>4. QED
  BY <1>2, <1>3

\* Deployed contracts have earned nothing yet.
LEMMA WiringInit ==
  Init => WiringInv
<1> SUFFICES ASSUME Init PROVE WiringInv
  OBVIOUS
<1>1. PICK deployer \in Accounts :
        /\ config = [creator |-> deployer, dispatcher |-> None, registry |-> None, token |-> None]
        /\ guardians = {}
        /\ dispatcher \in [Dispatchers ->
             [owner : {deployer}, hub_contract : {"hub"}, lido_fee_rate : FeeRates]]
        /\ registry = [owner |-> deployer, hub_contract |-> "hub"]
  BY DEF Init
<1>2. /\ paused = FALSE /\ withdraw = "hub" /\ staked = 0 /\ rewards = 0
      /\ issued = [t \in Tokens |-> 0]
      /\ held = [a \in Dispatchers \union {"hub", "fees"} |-> 0]
  BY DEF Init
<1>3. TypeOK
  BY <1>1, <1>2, AdministrationAssumption DEF TypeOK, Optional
<1>4. QED
  BY <1>1, <1>2, <1>3 DEF WiringInv, IssuedCanUnbond

-----------------------------------------------------------------------------
\* The hub's configuration: the withdraw address changes with the dispatcher,
\* and the token only once.
LEMMA WiringUpdateHubConfig ==
  ASSUME WiringInv, NEW sender \in Accounts, NEW new \in HubConfigs, UpdateHubConfig(sender, new)
  PROVE  WiringInv' /\ RewardsWellPaid
<1>1. /\ new.creator \in Accounts \union {None}
      /\ new.dispatcher \in Dispatchers \union {None}
      /\ new.registry \in {"registry", None}
      /\ new.token \in Tokens \union {None}
      /\ DOMAIN config = {"creator", "dispatcher", "registry", "token"}
      /\ config \in [creator : Accounts, dispatcher : Dispatchers \union {None},
                     registry : {"registry", None}, token : Tokens \union {None}]
  BY DEF HubConfigs, Optional, WiringInv, TypeOK
<1>2. config' = [f \in DOMAIN config |-> Given(new[f], config[f])]
  BY DEF UpdateHubConfig
<1>3. /\ config'.creator = Given(new.creator, config.creator)
      /\ config'.dispatcher = Given(new.dispatcher, config.dispatcher)
      /\ config'.registry = Given(new.registry, config.registry)
      /\ config'.token = Given(new.token, config.token)
  BY <1>1, <1>2
<1>4. config' = [creator |-> config'.creator, dispatcher |-> config'.dispatcher,
                 registry |-> config'.registry, token |-> config'.token]
  BY <1>1, <1>2
<1>5. /\ config'.creator \in Accounts
      /\ config'.dispatcher \in Dispatchers \union {None}
      /\ config'.registry \in {"registry", None}
      /\ config'.token \in Tokens \union {None}
  BY <1>1, <1>3 DEF Given
<1>6. /\ withdraw' = Given(new.dispatcher, withdraw)
      /\ UNCHANGED <<guardians, paused, dispatcher, registry, staked, issued, rewards, held>>
      /\ new.token # None => config.token = None
  BY DEF UpdateHubConfig, WithdrawAddress, TokenAccepted, money
<1>7. withdraw' \in Dispatchers \union {"hub"}
  BY <1>1, <1>6 DEF Given, WiringInv, TypeOK
<1>8. config' \in [creator : Accounts, dispatcher : Optional(Dispatchers),
                   registry : {"registry", None}, token : Optional(Tokens)]
  BY <1>4, <1>5 DEF Optional
<1>9. TypeOK'
  BY <1>6, <1>7, <1>8 DEF WiringInv, TypeOK
<1>10. /\ config'.dispatcher # None => withdraw' = config'.dispatcher
       /\ config'.dispatcher = None => staked' = 0 /\ rewards' = 0
  BY <1>3, <1>6 DEF Given, WiringInv
<1>11. IssuedCanUnbond'
  <2> SUFFICES ASSUME NEW t \in Tokens, issued[t] > 0 PROVE t = config'.token
    BY <1>6 DEF IssuedCanUnbond
  <2>1. t = config.token /\ t # None
    BY AdministrationAssumption DEF WiringInv, IssuedCanUnbond
  <2>2. new.token = None
    BY <1>6, <2>1
  <2>3. QED
    BY <1>3, <2>1, <2>2 DEF Given
<1>12. RewardsWellPaid
  <2>1. \A a \in Dispatchers \union {"hub"} : held[a] \in Nat /\ held'[a] = held[a]
    BY <1>6 DEF WiringInv, TypeOK
  <2>2. QED
    BY <2>1 DEF RewardsWellPaid
<1>13. QED
  BY <1>9, <1>10, <1>11, <1>12 DEF WiringInv

\* Other configuration changes neither the hub's nor any money.
LEMMA WiringOtherwise ==
  ASSUME WiringInv, TypeOK', UNCHANGED <<config, withdraw, staked, issued, rewards, held>>
  PROVE  WiringInv' /\ RewardsWellPaid
<1>1. \A a \in Dispatchers \union {"hub"} : held[a] \in Nat
  BY DEF WiringInv, TypeOK
<1>2. QED
  BY <1>1 DEF WiringInv, IssuedCanUnbond, RewardsWellPaid

\* What the owners of dispatchers and registry may do keeps the types.
LEMMA TypeUpdateDispatcherConfig ==
  ASSUME TypeOK, NEW sender \in Accounts, NEW d \in Dispatchers, NEW new \in DispatcherConfigs,
         UpdateDispatcherConfig(sender, d, new)
  PROVE  TypeOK'
<1> DEFINE old == dispatcher[d]
           updated == [f \in DOMAIN old |-> Given(new[f], old[f])]
<1>1. /\ old \in [owner : Accounts, hub_contract : {"hub", Elsewhere}, lido_fee_rate : FeeRates]
      /\ DOMAIN old = {"owner", "hub_contract", "lido_fee_rate"}
      /\ new.owner \in Accounts \union {None}
      /\ new.hub_contract \in {"hub", Elsewhere, None}
      /\ new.lido_fee_rate \in FeeRates \union {None}
  BY DEF TypeOK, DispatcherConfigs, Optional
<1>2. /\ updated = [owner |-> updated.owner, hub_contract |-> updated.hub_contract,
                    lido_fee_rate |-> updated.lido_fee_rate]
      /\ updated.owner = Given(new.owner, old.owner)
      /\ updated.hub_contract = Given(new.hub_contract, old.hub_contract)
      /\ updated.lido_fee_rate = Given(new.lido_fee_rate, old.lido_fee_rate)
  BY <1>1
<1>3. dispatcher' = [dispatcher EXCEPT ![d] = updated]
  BY DEF UpdateDispatcherConfig
<1> HIDE DEF updated
<1>4. updated.owner \in Accounts /\ updated.hub_contract \in {"hub", Elsewhere}
        /\ updated.lido_fee_rate \in FeeRates
  BY <1>1, <1>2 DEF Given
<1>5. updated \in [owner : Accounts, hub_contract : {"hub", Elsewhere}, lido_fee_rate : FeeRates]
  BY <1>2, <1>4
<1>6. dispatcher' \in [Dispatchers -> [owner : Accounts, hub_contract : {"hub", Elsewhere},
                                       lido_fee_rate : FeeRates]]
  BY <1>3, <1>5 DEF TypeOK
<1>7. UNCHANGED <<config, guardians, paused, registry, withdraw, staked, issued, rewards, held>>
  BY DEF UpdateDispatcherConfig, money
<1>8. QED
  BY <1>6, <1>7 DEF TypeOK

\* The same for the registry.
LEMMA TypeUpdateRegistryConfig ==
  ASSUME TypeOK, NEW sender \in Accounts, NEW new \in RegistryConfigs,
         UpdateRegistryConfig(sender, new)
  PROVE  TypeOK'
<1>1. /\ registry \in [owner : Accounts, hub_contract : {"hub", Elsewhere}]
      /\ DOMAIN registry = {"owner", "hub_contract"}
      /\ new.owner \in Accounts \union {None}
      /\ new.hub_contract \in {"hub", Elsewhere, None}
  BY DEF TypeOK, RegistryConfigs, Optional
<1>2. registry' = [f \in DOMAIN registry |-> Given(new[f], registry[f])]
  BY DEF UpdateRegistryConfig
<1>3. /\ registry' = [owner |-> registry'.owner, hub_contract |-> registry'.hub_contract]
      /\ registry'.owner = Given(new.owner, registry.owner)
      /\ registry'.hub_contract = Given(new.hub_contract, registry.hub_contract)
  BY <1>1, <1>2
<1>4. registry'.owner \in Accounts /\ registry'.hub_contract \in {"hub", Elsewhere}
  BY <1>1, <1>3 DEF Given
<1>5. UNCHANGED <<config, guardians, paused, dispatcher, withdraw, staked, issued, rewards, held>>
  BY DEF UpdateRegistryConfig, money
<1>6. QED
  BY <1>3, <1>4, <1>5 DEF TypeOK

-----------------------------------------------------------------------------
\* Whoever makes the chain pay while there is a dispatcher: it is paid.
LEMMA WiringPaid ==
  ASSUME WiringInv, UNCHANGED wiring, config.dispatcher # None,
         staked' \in Nat, issued' \in [Tokens -> Nat],
         rewards' = 0, held' = Paid, IssuedCanUnbond'
  PROVE  WiringInv' /\ RewardsWellPaid
<1>1. /\ Paid \in [Holding -> Nat]
      /\ \A a \in Holding : a # withdraw => Paid[a] = held[a]
      /\ \A a \in Holding : held[a] \in Nat
  BY PaidFacts DEF WiringInv, TypeOK, Holding
<1>2. TypeOK'
  BY <1>1 DEF WiringInv, TypeOK, wiring, Holding
<1>3. RewardsWellPaid
  BY <1>1 DEF WiringInv, RewardsWellPaid, wiring, Holding
<1>4. QED
  BY <1>2, <1>3 DEF WiringInv, wiring

\* A dispatch leaves the dispatcher nothing.
LEMMA WiringDispatched ==
  ASSUME WiringInv, UNCHANGED wiring, Dispatched
  PROVE  WiringInv' /\ RewardsWellPaid
<1> DEFINE d == config.dispatcher
<1>1. d \in Dispatchers
  BY DEF Dispatched, WiringInv, TypeOK, Optional
<1>2. /\ Paid \in [Holding -> Nat]
      /\ \A a \in Holding : a # withdraw => Paid[a] = held[a]
      /\ \A a \in Holding : held[a] \in Nat
      /\ Fee(d) \in Nat
  BY <1>1, PaidFacts DEF WiringInv, TypeOK, Holding
<1>3. /\ Fee(d) <= Paid[d]
      /\ staked' = staked + (Paid[d] - Fee(d))
      /\ held' = [Paid EXCEPT ![d] = 0, !["fees"] = @ + Fee(d)]
      /\ rewards' = 0 /\ issued' = issued
  BY DEF Dispatched, FeeCovered
<1>4. withdraw = d /\ d # None
  BY DEF WiringInv, Dispatched
<1> HIDE DEF d
<1>5. staked' \in Nat
  BY <1>1, <1>2, <1>3 DEF WiringInv, TypeOK, Holding
<1>6. d # "fees" /\ d # "hub"
  BY <1>1, AdministrationAssumption
<1>7. /\ held' \in [Holding -> Nat]
      /\ \A a \in Dispatchers \union {"hub"} : a # d => held'[a] = held[a]
      /\ held'[d] = 0
  BY <1>1, <1>2, <1>3, <1>4, <1>6, AdministrationAssumption DEF Holding
<1>8. TypeOK'
  BY <1>3, <1>5, <1>7 DEF WiringInv, TypeOK, wiring, Holding
<1>9. RewardsWellPaid
  BY <1>1, <1>2, <1>7 DEF RewardsWellPaid, Holding
<1>10. QED
  BY <1>3, <1>4, <1>8, <1>9 DEF WiringInv, IssuedCanUnbond, wiring, d

\* Bonds and unbondings.
LEMMA WiringTokens ==
  ASSUME WiringInv, BondForStAtom \/ \E token \in Tokens : Unbond(token)
  PROVE  WiringInv' /\ RewardsWellPaid
<1>1. staked \in Nat /\ issued \in [Tokens -> Nat]
  BY DEF WiringInv, TypeOK
<1>2. CASE BondForStAtom
  <2>1. config.token \in Tokens /\ config.dispatcher # None
    BY <1>2 DEF BondForStAtom, MayBond, WiringInv, TypeOK, Optional
  <2>2. /\ staked' = staked + 1
        /\ issued' = [issued EXCEPT ![config.token] = @ + 1]
        /\ held' = Paid /\ rewards' = 0 /\ UNCHANGED wiring
    BY <1>2 DEF BondForStAtom
  <2>3. issued' \in [Tokens -> Nat] /\ \A t \in Tokens : t # config.token => issued'[t] = issued[t]
    BY <1>1, <2>1, <2>2
  <2>4. IssuedCanUnbond'
    BY <2>2, <2>3 DEF WiringInv, IssuedCanUnbond, wiring
  <2>5. QED
    BY <1>1, <2>1, <2>2, <2>3, <2>4, WiringPaid
<1>3. CASE \E token \in Tokens : Unbond(token)
  <2>1. PICK token \in Tokens : Unbond(token)
    BY <1>3
  <2>2. /\ staked > 0 /\ staked' = staked - 1
        /\ issued[token] > 0 /\ issued' = [issued EXCEPT ![token] = @ - 1]
        /\ held' = Paid /\ rewards' = 0 /\ UNCHANGED wiring
    BY <2>1 DEF Unbond
  <2>3. config.dispatcher # None
    BY <1>1, <2>2 DEF WiringInv
  <2>4. issued' \in [Tokens -> Nat] /\ \A t \in Tokens : issued'[t] > 0 => issued[t] > 0
    BY <1>1, <2>2
  <2>5. IssuedCanUnbond'
    BY <2>2, <2>4 DEF WiringInv, IssuedCanUnbond, wiring
  <2>6. staked' \in Nat
    BY <1>1, <2>2
  <2>7. QED
    BY <2>2, <2>3, <2>4, <2>5, <2>6, WiringPaid
<1>4. QED
  BY <1>2, <1>3

\* Every use of the contracts.
LEMMA WiringUse ==
  ASSUME WiringInv, Use
  PROVE  WiringInv' /\ RewardsWellPaid
<1>1. staked \in Nat /\ rewards \in Nat
  BY DEF WiringInv, TypeOK
<1>2. CASE BondForStAtom \/ \E token \in Tokens : Unbond(token)
  BY <1>2, WiringTokens
<1>3. CASE DispatchRewards
  BY <1>3, WiringDispatched DEF DispatchRewards
<1>4. CASE \E sender \in Accounts : RemoveValidator(sender)
  BY <1>4, WiringDispatched DEF RemoveValidator
<1>5. CASE \E sender \in Accounts : RedelegateProxy(sender)
  <2>1. staked > 0 /\ held' = Paid /\ rewards' = 0 /\ UNCHANGED <<wiring, staked, issued>>
    BY <1>5 DEF RedelegateProxy
  <2>2. config.dispatcher # None
    BY <1>1, <2>1 DEF WiringInv
  <2>3. staked' \in Nat /\ issued' \in [Tokens -> Nat] /\ IssuedCanUnbond'
    BY <1>1, <2>1 DEF WiringInv, TypeOK, IssuedCanUnbond, wiring
  <2>4. QED
    BY <2>1, <2>2, <2>3, WiringPaid
<1>6. CASE RewardsGrow
  <2>1. staked > 0 /\ rewards' = rewards + 1 /\ UNCHANGED <<wiring, staked, issued, held>>
    BY <1>6 DEF RewardsGrow
  <2>2. config.dispatcher # None
    BY <1>1, <2>1 DEF WiringInv
  <2>3. \A a \in Dispatchers \union {"hub"} : held[a] \in Nat
    BY DEF WiringInv, TypeOK
  <2>4. TypeOK'
    BY <1>1, <2>1 DEF WiringInv, TypeOK, wiring
  <2>5. QED
    BY <2>1, <2>2, <2>3, <2>4 DEF WiringInv, IssuedCanUnbond, RewardsWellPaid, wiring
<1>7. QED
  BY <1>2, <1>3, <1>4, <1>5, <1>6 DEF Use

\* Every step.
LEMMA WiringStep ==
  ASSUME WiringInv, [Next]_vars
  PROVE  WiringInv' /\ RewardsWellPaid
<1>1. TypeOK
  BY DEF WiringInv
<1>2. CASE \/ \E sender, a \in Accounts : AddGuardians(sender, {a})
           \/ \E sender \in Accounts, addresses \in SUBSET Accounts :
                RemoveGuardians(sender, addresses)
  <2>1. guardians' \subseteq Accounts /\ paused' \in BOOLEAN
          /\ UNCHANGED <<config, dispatcher, registry, withdraw, staked, issued, rewards, held>>
    BY <1>1, <1>2 DEF AddGuardians, RemoveGuardians, TypeOK, money
  <2>2. QED
    BY <1>1, <2>1, WiringOtherwise DEF TypeOK
<1>3. CASE \E sender \in Accounts : PauseContracts(sender) \/ UnpauseContracts(sender)
  <2>1. guardians' \subseteq Accounts /\ paused' \in BOOLEAN
          /\ UNCHANGED <<config, dispatcher, registry, withdraw, staked, issued, rewards, held>>
    BY <1>1, <1>3 DEF PauseContracts, UnpauseContracts, TypeOK, money
  <2>2. QED
    BY <1>1, <2>1, WiringOtherwise DEF TypeOK
<1>4. CASE \E sender \in Accounts : Configure(sender)
  <2>1. PICK sender \in Accounts : Configure(sender)
    BY <1>4
  <2>2. CASE \E new \in HubConfigs : UpdateHubConfig(sender, new)
    BY <2>2, WiringUpdateHubConfig
  <2>3. CASE \E d \in Dispatchers, new \in DispatcherConfigs :
               UpdateDispatcherConfig(sender, d, new)
    <3>1. TypeOK'
      BY <1>1, <2>3, TypeUpdateDispatcherConfig
    <3>2. UNCHANGED <<config, withdraw, staked, issued, rewards, held>>
      BY <2>3 DEF UpdateDispatcherConfig, money
    <3>3. QED
      BY <3>1, <3>2, WiringOtherwise
  <2>4. CASE \E new \in RegistryConfigs : UpdateRegistryConfig(sender, new)
    <3>1. TypeOK'
      BY <1>1, <2>4, TypeUpdateRegistryConfig
    <3>2. UNCHANGED <<config, withdraw, staked, issued, rewards, held>>
      BY <2>4 DEF UpdateRegistryConfig, money
    <3>3. QED
      BY <3>1, <3>2, WiringOtherwise
  <2>5. QED
    BY <2>1, <2>2, <2>3, <2>4 DEF Configure
<1>5. CASE Use
  BY <1>5, WiringUse
<1>6. CASE UNCHANGED vars
  <2>1. TypeOK'
    BY <1>1, <1>6 DEF vars, TypeOK
  <2>2. QED
    BY <1>6, <2>1, WiringOtherwise DEF vars
<1>7. QED
  BY <1>2, <1>3, <1>4, <1>5, <1>6 DEF Next

-----------------------------------------------------------------------------
\* The strengthened invariant holds in every reachable state.
LEMMA WiringAlways ==
  Spec => []WiringInv
<1>1. WiringInv /\ [Next]_vars => WiringInv'
  BY WiringStep
<1>2. QED
  BY WiringInit, <1>1, PTL DEF Spec

\* No handler takes more than there is, at any fee rate: one above one only
\* makes dispatches fail.
THEOREM ConfigurationTypes ==
  Spec => []TypeOK
<1>1. WiringInv => TypeOK
  BY DEF WiringInv
<1>2. QED
  BY <1>1, WiringAlways, PTL

\* The token is registered once, so nobody is left with stAtom of another.
THEOREM TokenIsForGood ==
  Spec => []IssuedCanUnbond
<1>1. WiringInv => IssuedCanUnbond
  BY DEF WiringInv
<1>2. QED
  BY <1>1, WiringAlways, PTL

\* The chain pays the rewards to the dispatcher in use, through all changes.
THEOREM DispatcherIsPaid ==
  Spec => RewardsReachTheDispatcher
<1>1. WiringInv /\ [Next]_vars => [RewardsWellPaid]_vars
  BY WiringStep
<1>2. QED
  BY <1>1, WiringAlways, PTL DEF Spec, RewardsReachTheDispatcher, RewardsWellPaid
=============================================================================
