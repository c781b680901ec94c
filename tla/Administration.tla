--------------------------- MODULE Administration ---------------------------
(***************************************************************************)
(* Who runs the contracts, and how they are wired: the configurations of   *)
(* the hub, the dispatchers and the registry, each with an owner of its    *)
(* own, the guardians, and the withdraw address the chain pays the hub's   *)
(* rewards to.  Several dispatchers and tokens may be deployed; the hub    *)
(* uses those it is told of.  What is delegated, issued and earned appears *)
(* as far as the wiring decides where it goes.  An action is a transaction *)
(* with all the messages it causes.                                        *)
(***************************************************************************)
EXTENDS Decimals

LOCAL INSTANCE FiniteSetsExt

CONSTANTS
  Accounts,     \* people
  Dispatchers,  \* the rewards dispatchers deployed
  Tokens,       \* the tokens deployed, all with the hub for their minter
  None,
  FeeRates,     \* values of lido_fee_rate, which nothing limits
  MaxStaked,    \* bound on staked
  MaxRewards    \* bound on the rewards paid and still to be paid

ASSUME AdministrationAssumption ==
  /\ None \notin Accounts \union Dispatchers \union Tokens
  /\ Dispatchers \intersect {"hub", "fees"} = {} /\ None # "hub"
  /\ FeeRates \subseteq Nat
  /\ {MaxStaked, MaxRewards} \subseteq Nat

VARIABLES
  config,     \* CONFIG of the hub
  guardians,  \* GUARDIANS of the hub
  paused,     \* params.paused of the hub
  dispatcher, \* CONFIG of each dispatcher
  registry,   \* CONFIG of the registry
  withdraw,   \* the chain's withdraw address for the hub
  staked,     \* what the hub has delegated
  issued,     \* supply of each token
  rewards,    \* rewards the chain has still to pay for what is delegated
  held        \* rewards in the hands of the hub, each dispatcher, the fee address

vars == <<config, guardians, paused, dispatcher, registry, withdraw, staked, issued,
          rewards, held>>
wiring == <<config, guardians, paused, dispatcher, registry, withdraw>>
money == <<staked, issued, rewards, held>>

\* An address that may be a hub_contract but is not the hub.
Elsewhere == "elsewhere"

Optional(S) == S \union {None}

\* What the deployer, one of the people, has instantiated; the chain pays
\* rewards to the delegator until it is told otherwise.
Init ==
  \E deployer \in Accounts :
    /\ config = [creator |-> deployer, dispatcher |-> None, registry |-> None, token |-> None]
    /\ guardians = {}
    /\ paused = FALSE
    /\ dispatcher \in [Dispatchers ->
         [owner : {deployer}, hub_contract : {"hub"}, lido_fee_rate : FeeRates]]
    /\ registry = [owner |-> deployer, hub_contract |-> "hub"]
    /\ withdraw = "hub"
    /\ staked = 0
    /\ issued = [t \in Tokens |-> 0]
    /\ rewards = 0
    /\ held = [a \in Dispatchers \union {"hub", "fees"} |-> 0]

-----------------------------------------------------------------------------
(***************************************************************************)
(* Configuration.  A field that is not given keeps its value.              *)
(***************************************************************************)
Given(new, old) == IF new = None THEN old ELSE new

WithdrawAddressKept(new) == withdraw  \* mutant: SetWithdrawAddress is not sent

\* SetWithdrawAddress is sent when a dispatcher is given.
WithdrawAddress(new) == Given(new.dispatcher, withdraw)

TokenReplaced(new) == TRUE  \* mutant: the token may be updated

\* A token address can be given once.
TokenAccepted(new) == new.token # None => config.token = None

\* execute_update_config of the hub
UpdateHubConfig(sender, new) ==
  /\ sender = config.creator
  /\ TokenAccepted(new)
  /\ config' = [f \in DOMAIN config |-> Given(new[f], config[f])]
  /\ withdraw' = WithdrawAddress(new)
  /\ UNCHANGED <<guardians, paused, dispatcher, registry, money>>

\* execute_add_guardians
AddGuardians(sender, addresses) ==
  /\ sender = config.creator
  /\ guardians' = guardians \union addresses
  /\ UNCHANGED <<config, paused, dispatcher, registry, withdraw, money>>

RemoveWhenOpen(sender, addresses) ==  \* mutant: refused while the contracts are paused
  /\ sender = config.creator
  /\ ~paused
  /\ guardians' = guardians \ addresses
  /\ UNCHANGED <<config, paused, dispatcher, registry, withdraw, money>>

\* execute_remove_guardians
RemoveGuardians(sender, addresses) ==
  /\ sender = config.creator
  /\ guardians' = guardians \ addresses
  /\ UNCHANGED <<config, paused, dispatcher, registry, withdraw, money>>

\* execute_pause_contracts
PauseContracts(sender) ==
  /\ sender = config.creator \/ sender \in guardians
  /\ paused' = TRUE
  /\ UNCHANGED <<config, guardians, dispatcher, registry, withdraw, money>>

\* execute_unpause_contracts
UnpauseContracts(sender) ==
  /\ sender = config.creator
  /\ paused' = FALSE
  /\ UNCHANGED <<config, guardians, dispatcher, registry, withdraw, money>>

\* execute_update_config of dispatcher d.  The fee address does not matter
\* here, and an attempt to change the denom of the rewards is an error.
UpdateDispatcherConfig(sender, d, new) ==
  /\ sender = dispatcher[d].owner
  /\ dispatcher' = [dispatcher EXCEPT ![d] = [f \in DOMAIN @ |-> Given(new[f], @[f])]]
  /\ UNCHANGED <<config, guardians, paused, registry, withdraw, money>>

\* execute_update_config of the registry
UpdateRegistryConfig(sender, new) ==
  /\ sender = registry.owner
  /\ registry' = [f \in DOMAIN registry |-> Given(new[f], registry[f])]
  /\ UNCHANGED <<config, guardians, paused, dispatcher, withdraw, money>>

-----------------------------------------------------------------------------
(***************************************************************************)
(* What the wiring decides.  Whenever a delegation changes the chain pays  *)
(* the rewards earned so far.                                              *)
(***************************************************************************)
Paid == [held EXCEPT ![withdraw] = @ + rewards]

\* What execute_bond needs to know, whoever bonds.
MayBond ==
  /\ ~paused
  /\ config.dispatcher # None
  /\ config.registry # None

\* execute_bond for BondType::StAtom
BondForStAtom ==
  /\ MayBond
  /\ config.token # None
  /\ staked < MaxStaked
  /\ staked' = staked + 1
  /\ issued' = [issued EXCEPT ![config.token] = @ + 1]
  /\ held' = Paid
  /\ rewards' = 0
  /\ UNCHANGED wiring

\* receive_cw20 with Unbond, undelegated at once: only the registered token is
\* heard.
Unbond(token) ==
  /\ ~paused
  /\ token = config.token
  /\ issued[token] > 0
  /\ staked > 0
  /\ staked' = staked - 1
  /\ issued' = [issued EXCEPT ![token] = @ - 1]
  /\ held' = Paid
  /\ rewards' = 0
  /\ UNCHANGED wiring

\* The dispatcher asks its hub_contract, which answers if it is the hub.
NotPaused(d) == dispatcher[d].hub_contract = "hub" /\ ~paused

Fee(d) == Times(Paid[d], dispatcher[d].lido_fee_rate)

AnyFee(d) == TRUE  \* mutant: the subtraction of the fee is not checked

\* The fee is taken off the rewards, and cannot exceed them.
FeeCovered(d) == Fee(d) <= Paid[d]

\* execute_dispatch_rewards of the hub and of its dispatcher: the dispatcher
\* obeys the hub it knows, and the rest of the rewards after the fee, if there
\* is any, is bonded.
Dispatched ==
  LET d == config.dispatcher
  IN  /\ ~paused
      /\ d # None
      /\ NotPaused(d)
      /\ FeeCovered(d)
      /\ Fee(d) < Paid[d] => MayBond
      /\ staked' = staked + (Paid[d] - Fee(d))
      /\ held' = [Paid EXCEPT ![d] = 0, !["fees"] = @ + Fee(d)]
      /\ rewards' = 0
      /\ UNCHANGED issued

DispatchRewards == Dispatched /\ UNCHANGED wiring

\* remove_validator for a validator with coins that can be redelegated: the
\* hub must take RedelegateProxy from this registry, and dispatches.
RemoveValidator(sender) ==
  /\ sender = registry.owner
  /\ registry.hub_contract = "hub"
  /\ config.registry # None
  /\ staked > 0
  /\ Dispatched
  /\ UNCHANGED wiring

\* execute_redelegate_proxy sent by the owner of the hub, paused or not.
RedelegateProxy(sender) ==
  /\ config.registry # None
  /\ sender = config.creator
  /\ staked > 0
  /\ held' = Paid
  /\ rewards' = 0
  /\ UNCHANGED <<wiring, staked, issued>>

RewardsGrow ==
  /\ staked > 0
  /\ staked + rewards + MapThenSumSet(LAMBDA a : held[a], DOMAIN held) < MaxRewards
  /\ rewards' = rewards + 1
  /\ UNCHANGED <<wiring, staked, issued, held>>

-----------------------------------------------------------------------------
HubConfigs ==
  [creator : Optional(Accounts), dispatcher : Optional(Dispatchers),
   registry : {"registry", None}, token : Optional(Tokens)]

DispatcherConfigs ==
  [owner : Optional(Accounts), hub_contract : {"hub", Elsewhere, None},
   lido_fee_rate : Optional(FeeRates)]

RegistryConfigs == [owner : Optional(Accounts), hub_contract : {"hub", Elsewhere, None}]

Configure(sender) ==
  \/ \E new \in HubConfigs : UpdateHubConfig(sender, new)
  \/ \E d \in Dispatchers, new \in DispatcherConfigs : UpdateDispatcherConfig(sender, d, new)
  \/ \E new \in RegistryConfigs : UpdateRegistryConfig(sender, new)

Use ==
  \/ BondForStAtom
  \/ \E token \in Tokens : Unbond(token)
  \/ DispatchRewards
  \/ \E sender \in Accounts : RemoveValidator(sender) \/ RedelegateProxy(sender)
  \/ RewardsGrow

Next ==
  \/ \E sender, a \in Accounts : AddGuardians(sender, {a})
  \/ \E sender \in Accounts, addresses \in SUBSET Accounts : RemoveGuardians(sender, addresses)
  \/ \E sender \in Accounts : PauseContracts(sender) \/ UnpauseContracts(sender)
  \/ \E sender \in Accounts : Configure(sender)
  \/ Use

Spec == Init /\ [][Next]_vars

\* The owner dismisses one guardian after the other and unpauses; nobody else
\* has to do anything.
FairSpec ==
  /\ Spec
  /\ \A g \in Accounts : WF_vars(\E sender \in Accounts : RemoveGuardians(sender, {g}))
  /\ WF_vars(\E sender \in Accounts : UnpauseContracts(sender))

-----------------------------------------------------------------------------
\* The configurations name people and contracts, and nobody holds a negative
\* amount.
TypeOK ==
  /\ config \in [creator : Accounts, dispatcher : Optional(Dispatchers),
                 registry : {"registry", None}, token : Optional(Tokens)]
  /\ guardians \subseteq Accounts
  /\ paused \in BOOLEAN
  /\ dispatcher \in [Dispatchers -> [owner : Accounts, hub_contract : {"hub", Elsewhere},
                                     lido_fee_rate : FeeRates]]
  /\ registry \in [owner : Accounts, hub_contract : {"hub", Elsewhere}]
  /\ withdraw \in Dispatchers \union {"hub"}
  /\ staked \in Nat
  /\ issued \in [Tokens -> Nat]
  /\ rewards \in Nat
  /\ held \in [Dispatchers \union {"hub", "fees"} -> Nat]

\* Rewards, which the chain pays whenever a delegation changes and whoever
\* changes it, go to the dispatcher the hub is told of, through every change of
\* dispatcher: never to one it had before, and never to the hub itself, where
\* the next withdrawal would take them for unbonded coins.
RewardsReachTheDispatcher ==
  [][\A a \in Dispatchers \union {"hub"} : held'[a] > held[a] => a = config'.dispatcher]_vars

\* However often the contracts are rewired, all stAtom ever issued is of the
\* token whose holders can unbond and whose supply the hub prices with.
IssuedCanUnbond == \A t \in Tokens : issued[t] > 0 => t = config.token

\* A guardian who keeps pausing the contracts cannot outlast the owner, also
\* when the ownership changes hands: if from some time on nobody is appointed
\* and nobody pauses who is not a guardian, the contracts are open for good.
OwnerPrevails ==
  <>[][guardians' \subseteq guardians /\ (paused' => paused \/ guardians # {})]_vars
    => <>[]~paused
=============================================================================
