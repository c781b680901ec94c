-------------------------- MODULE TransactionProofs --------------------------
(***************************************************************************)
(* What whole transactions do, from the signed message to the last message *)
(* it causes.  To the validators each of them is one action of module      *)
(* Registry: it is shown by what is still ahead of a transaction, the      *)
(* validators as the messages to the chain will leave them, which does not *)
(* change when the next of these messages is carried out.  And a dispatch  *)
(* takes all the rewards: it is shown by how far the rewards have come,    *)
(* from the validators over the dispatcher and the hub.                    *)
(***************************************************************************)
EXTENDS ProtocolProofs, SequenceTheorems

-----------------------------------------------------------------------------
(***************************************************************************)
(* The validators as they will be when the messages to the chain have been *)
(* carried out.                                                            *)
(***************************************************************************)
Record(registry, delegation, receiving, paused) ==
  [registry |-> registry, delegation |-> delegation, receiving |-> receiving, paused |-> paused]

\* What module Registry knows of a world, and of one with ms still to come.
Reg(w) == Record(w.registry, w.delegation, w.receiving, w.params.paused)

Gained(ms, v) == Due(ms, GainOf(v))
Lost(ms, v) == Due(ms, LossOf(v))
Arrivals(ms) == {v \in Validators : Due(ms, ArrivalAt(v)) > 0}

Ahead(w, ms) ==
  Record(w.registry,
         [v \in Validators |-> w.delegation[v] + Gained(ms, v) - Lost(ms, v)],
         w.receiving \union Arrivals(ms), w.params.paused)

\* Messages that answer with nothing that has not been taken into account.
LeafTypes ==
  {"Delegate", "Undelegate", "Redelegate", "WithdrawDelegatorReward", "BankSend", "Mint", "Burn",
   "CheckSlashing"}
Leaves == {m \in Messages : m.type \in LeafTypes}

Weightless == {m \in Messages : m.type \notin {"Delegate", "Undelegate", "Redelegate"}}

LEMMA LeavesAre ==
  /\ Leaves \subseteq Messages /\ Weightless \subseteq Messages
  /\ ToDelegate \subseteq Leaves /\ ToUndelegate \subseteq Leaves /\ ToRedelegate \subseteq Leaves
<1>1. ToDelegate \subseteq Messages /\ ToUndelegate \subseteq Messages /\ ToRedelegate \subseteq Messages
  BY StakeMessages
<1>2. /\ \A m \in ToDelegate : m.type = "Delegate"
      /\ \A m \in ToUndelegate : m.type = "Undelegate"
      /\ \A m \in ToRedelegate : m.type = "Redelegate"
  BY DEF ToDelegate, ToUndelegate, ToRedelegate
<1>3. QED
  BY <1>1, <1>2 DEF Leaves, Weightless, LeafTypes

LEMMA DueAmounts ==
  ASSUME NEW ms \in Seq(Messages), NEW v
  PROVE  Gained(ms, v) \in Nat /\ Lost(ms, v) \in Nat /\ Due(ms, ArrivalAt(v)) \in Nat
<1>1. /\ GainOf(v) \in [Messages -> Nat] /\ LossOf(v) \in [Messages -> Nat]
      /\ ArrivalAt(v) \in [Messages -> Nat]
  BY WeightsType
<1>2. QED
  BY <1>1, DueType DEF Gained, Lost

LEMMA DueBoth ==
  ASSUME NEW a \in Seq(Messages), NEW b \in Seq(Messages), NEW v
  PROVE  /\ Gained(a \o b, v) = Gained(a, v) + Gained(b, v)
         /\ Lost(a \o b, v) = Lost(a, v) + Lost(b, v)
         /\ Due(a \o b, ArrivalAt(v)) = Due(a, ArrivalAt(v)) + Due(b, ArrivalAt(v))
<1>1. /\ GainOf(v) \in [Messages -> Nat] /\ LossOf(v) \in [Messages -> Nat]
      /\ ArrivalAt(v) \in [Messages -> Nat]
  BY WeightsType
<1>2. QED
  BY <1>1, DueConcat DEF Gained, Lost

LEMMA DueHead ==
  ASSUME NEW ms \in Seq(Messages), ms # <<>>, NEW v
  PROVE  /\ Gained(ms, v) = GainOf(v)[Head(ms)] + Gained(Tail(ms), v)
         /\ Lost(ms, v) = LossOf(v)[Head(ms)] + Lost(Tail(ms), v)
         /\ Due(ms, ArrivalAt(v)) = ArrivalAt(v)[Head(ms)] + Due(Tail(ms), ArrivalAt(v))
<1>1. /\ GainOf(v) \in [Messages -> Nat] /\ LossOf(v) \in [Messages -> Nat]
      /\ ArrivalAt(v) \in [Messages -> Nat]
  BY WeightsType
<1>2. QED
  BY <1>1, DueFirst DEF Gained, Lost

LEMMA DueWeightless ==
  ASSUME NEW ms \in Seq(Weightless), NEW v
  PROVE  Gained(ms, v) = 0 /\ Lost(ms, v) = 0 /\ Due(ms, ArrivalAt(v)) = 0
<1>1. \A m \in Weightless : GainOf(v)[m] = 0 /\ LossOf(v)[m] = 0 /\ ArrivalAt(v)[m] = 0
  BY WeightsType DEF Weightless
<1>2. QED
  BY <1>1, DueNothing DEF Gained, Lost

\* Messages that move no coins of the validators are not looked at.
LEMMA AheadWeightless ==
  ASSUME NEW w \in Worlds, NEW a \in Seq(Messages), NEW b \in Seq(Weightless)
  PROVE  Ahead(w, a \o b) = Ahead(w, a) /\ Ahead(w, b \o a) = Ahead(w, a)
<1>1. b \in Seq(Messages)
  BY LeavesAre, SeqMonotone
<1>2. ASSUME NEW v \in Validators
      PROVE  /\ Gained(a \o b, v) = Gained(a, v) /\ Gained(b \o a, v) = Gained(a, v)
             /\ Lost(a \o b, v) = Lost(a, v) /\ Lost(b \o a, v) = Lost(a, v)
             /\ Due(a \o b, ArrivalAt(v)) = Due(a, ArrivalAt(v))
             /\ Due(b \o a, ArrivalAt(v)) = Due(a, ArrivalAt(v))
  BY <1>1, DueBoth, DueWeightless, DueAmounts
<1>3. Arrivals(a \o b) = Arrivals(a) /\ Arrivals(b \o a) = Arrivals(a)
  BY <1>2 DEF Arrivals
<1>4. QED
  BY <1>2, <1>3 DEF Ahead

LEMMA AheadNothing ==
  ASSUME NEW w \in Worlds, NEW b \in Seq(Weightless)
  PROVE  Ahead(w, b) = Reg(w)
<1>1. w.delegation \in [Validators -> Nat]
  BY DEF Worlds
<1>2. \A v \in Validators : Gained(b, v) = 0 /\ Lost(b, v) = 0 /\ Due(b, ArrivalAt(v)) = 0
  BY DueWeightless
<1>3. Arrivals(b) = {}
  BY <1>2 DEF Arrivals
<1>4. \A v \in Validators : w.delegation[v] + 0 - 0 = w.delegation[v]
  BY <1>1
<1>5. [v \in Validators |-> w.delegation[v] + Gained(b, v) - Lost(b, v)] = w.delegation
  BY <1>1, <1>2, <1>4
<1>6. QED
  BY <1>3, <1>5 DEF Ahead, Reg

-----------------------------------------------------------------------------
(***************************************************************************)
(* A message to the chain does what was expected of it.                    *)
(***************************************************************************)
Shifts(m) ==
  /\ work'.registry = work.registry /\ work'.params.paused = work.params.paused
  /\ \A v \in Validators :
       work'.delegation[v] = work.delegation[v] + GainOf(v)[m] - LossOf(v)[m]
  /\ work'.receiving = work.receiving \union {v \in Validators : ArrivalAt(v)[m] > 0}

Handled ==
  HubHandler \/ TokenHandler \/ DispatchRewards \/ AddValidator \/ RemoveValidator \/ ChainHandler

\* Which handler carries a message out is a matter of its type.
LEMMA HandlerOf ==
  ASSUME Handled
  PROVE  /\ queue # <<>> /\ committed' = committed /\ now' = now
         /\ \/ Bond /\ Message.type \in {"BondForStAtom", "BondRewards"}
            \/ ReceiveUnbond /\ Message.type = "Receive"
            \/ WithdrawUnbonded /\ Message.type = "WithdrawUnbonded"
            \/ CheckSlashing /\ Message.type = "CheckSlashing"
            \/ WithdrawAllRewards /\ Message.type = "WithdrawAndDispatch"
            \/ RedelegateProxy /\ Message.type = "RedelegateProxy"
            \/ SetPaused /\ Message.type \in {"PauseContracts", "UnpauseContracts"}
            \/ Mint /\ Message.type = "Mint"
            \/ IncreaseAllowance /\ Message.type = "IncreaseAllowance"
            \/ DecreaseAllowance /\ Message.type = "DecreaseAllowance"
            \/ Transfer /\ Message.type \in {"Transfer", "TransferFrom"}
            \/ Send /\ Message.type \in {"Send", "SendFrom"}
            \/ Burn /\ Message.type \in {"Burn", "BurnFrom"}
            \/ DispatchRewards /\ Message.type = "DispatchRewards"
            \/ AddValidator /\ Message.type = "AddValidator"
            \/ RemoveValidator /\ Message.type = "RemoveValidator"
            \/ Delegate /\ Message.type = "Delegate"
            \/ Undelegate /\ Message.type = "Undelegate"
            \/ Redelegate /\ Message.type = "Redelegate"
            \/ WithdrawDelegatorReward /\ Message.type = "WithdrawDelegatorReward"
            \/ BankSend /\ Message.type = "BankSend"
  BY DEF Handled, HubHandler, TokenHandler, ChainHandler, Bond, ReceiveUnbond, WithdrawUnbonded,
     CheckSlashing, WithdrawAllRewards, RedelegateProxy, SetPaused, Mint, IncreaseAllowance,
     DecreaseAllowance, Transfer, Send, Burn, TokenOpen, DispatchRewards, AddValidator,
     RemoveValidator, Delegate, Undelegate, Redelegate, WithdrawDelegatorReward, BankSend,
     Handling, Answer

LEMMA WeightlessShifts ==
  ASSUME Typed, queue # <<>>, Message \in Weightless, StakeKept
  PROVE  Shifts(Message)
<1>1. work.delegation \in [Validators -> Nat]
  BY DEF Typed, WorldOK, Worlds
<1>2. Message \in Messages /\ Message.type \notin {"Delegate", "Undelegate", "Redelegate"}
  BY DEF Weightless
<1>3. \A v : GainOf(v)[Message] = 0 /\ LossOf(v)[Message] = 0 /\ ArrivalAt(v)[Message] = 0
  BY <1>2, WeightsType
<1>4. \A v \in Validators :
        work.delegation[v] = work.delegation[v] + GainOf(v)[Message] - LossOf(v)[Message]
  BY <1>1, <1>3
<1>5. {v \in Validators : ArrivalAt(v)[Message] > 0} = {}
  BY <1>3
<1>6. QED
  BY <1>4, <1>5 DEF StakeKept, Shifts

LEMMA DelegateShifts ==
  ASSUME Typed, Delegate
  PROVE  Shifts(Message)
<1> DEFINE m == Message
           u == m.validator
           n == m.amount
<1>1. /\ u \in Validators /\ n \in Nat /\ m.type = "Delegate"
      /\ work'.delegation = [work.delegation EXCEPT ![u] = @ + n]
      /\ work'.receiving = work.receiving
      /\ work'.registry = work.registry /\ work'.params = work.params
  BY DelegateEffect
<1>2. m \in Messages /\ work.delegation \in [Validators -> Nat]
  BY FirstMessage DEF Typed, WorldOK, Worlds, Delegate, Handling
<1>3. \A v : /\ GainOf(v)[m] = IF u = v THEN n ELSE 0
             /\ LossOf(v)[m] = 0 /\ ArrivalAt(v)[m] = 0
  BY <1>1, <1>2 DEF GainOf, LossOf, ArrivalAt
<1> HIDE DEF u, n
<1>4. \A v \in Validators :
        work'.delegation[v] = work.delegation[v] + (IF u = v THEN n ELSE 0) - 0
  BY <1>1, <1>2
<1>5. {v \in Validators : ArrivalAt(v)[m] > 0} = {}
  BY <1>3
<1>6. QED
  BY <1>1, <1>3, <1>4, <1>5 DEF Shifts

LEMMA UndelegateShifts ==
  ASSUME Typed, Undelegate
  PROVE  Shifts(Message)
<1> DEFINE m == Message
           u == m.validator
           n == m.amount
<1>1. /\ u \in Validators /\ n \in Nat /\ m.type = "Undelegate"
      /\ work'.delegation = [work.delegation EXCEPT ![u] = @ - n]
      /\ work'.receiving = work.receiving
      /\ work'.registry = work.registry /\ work'.params = work.params
  BY UndelegateEffect
<1>2. m \in Messages /\ work.delegation \in [Validators -> Nat]
  BY FirstMessage DEF Typed, WorldOK, Worlds, Undelegate, Handling
<1>3. \A v : /\ LossOf(v)[m] = IF u = v THEN n ELSE 0
             /\ GainOf(v)[m] = 0 /\ ArrivalAt(v)[m] = 0
  BY <1>1, <1>2 DEF GainOf, LossOf, ArrivalAt
<1> HIDE DEF u, n
<1>4. \A v \in Validators :
        work'.delegation[v] = work.delegation[v] + 0 - (IF u = v THEN n ELSE 0)
  BY <1>1, <1>2
<1>5. {v \in Validators : ArrivalAt(v)[m] > 0} = {}
  BY <1>3
<1>6. QED
  BY <1>1, <1>3, <1>4, <1>5 DEF Shifts

LEMMA RedelegateShifts ==
  ASSUME Typed, Redelegate
  PROVE  Shifts(Message)
<1> DEFINE m == Message
           s == m.src
           u == m.validator
           n == m.amount
<1>1. /\ s \in Validators /\ u \in Validators /\ n \in Nat /\ s # u /\ m.type = "Redelegate"
      /\ work'.delegation = Moved(work.delegation, s, u, n)
      /\ work'.receiving = work.receiving \union {u}
      /\ work'.registry = work.registry /\ work'.params = work.params
  BY RedelegateEffect
<1>2. m \in Messages /\ work.delegation \in [Validators -> Nat]
  BY FirstMessage DEF Typed, WorldOK, Worlds, Redelegate, Handling
<1>3. \A v : /\ GainOf(v)[m] = IF u = v THEN n ELSE 0
             /\ LossOf(v)[m] = IF s = v THEN n ELSE 0
             /\ ArrivalAt(v)[m] = IF u = v THEN 1 ELSE 0
  BY <1>1, <1>2 DEF GainOf, LossOf, ArrivalAt
<1> HIDE DEF u, n, s
<1>4. ASSUME NEW v \in Validators
      PROVE  work'.delegation[v]
               = work.delegation[v] + (IF u = v THEN n ELSE 0) - (IF s = v THEN n ELSE 0)
  <2>1. work.delegation[v] \in Nat
    BY <1>2
  <2>2. CASE v = u
    BY <1>1, <1>2, <2>1, <2>2 DEF Moved
  <2>3. CASE v = s
    BY <1>1, <1>2, <2>1, <2>3 DEF Moved
  <2>4. CASE v # s /\ v # u
    BY <1>1, <1>2, <2>1, <2>4 DEF Moved
  <2>5. QED
    BY <2>2, <2>3, <2>4
<1>5. {v \in Validators : ArrivalAt(v)[m] > 0} = {u}
  BY <1>1, <1>3
<1>6. QED
  BY <1>1, <1>3, <1>4, <1>5 DEF Shifts

\* A burn has the hub look for slashing.
LEMMA ChecksWeightless ==
  ASSUME NEW m
  PROVE  CheckMessages(m) \in Seq(Weightless) /\ CheckMessages(m) \in Seq(Leaves)
<1>1. [type |-> "CheckSlashing"] \in Weightless /\ [type |-> "CheckSlashing"] \in Leaves
  BY DEF Weightless, Leaves, Messages, ToHub, LeafTypes
<1>2. QED
  BY <1>1 DEF CheckMessages

LEMMA LeafEffect ==
  ASSUME Typed, queue # <<>>, Message \in Leaves, Handled
  PROVE  Shifts(Message) /\ \E cs \in Seq(Weightless) : cs \in Seq(Leaves) /\ Answer(cs)
<1>1. <<>> \in Seq(Weightless) /\ <<>> \in Seq(Leaves)
  OBVIOUS
<1>2. Message \in Messages /\ Message.type \in LeafTypes
  BY DEF Leaves
<1>3. \/ Delegate \/ Undelegate \/ Redelegate \/ WithdrawDelegatorReward \/ BankSend
      \/ Mint \/ Burn \/ CheckSlashing
  BY <1>2, HandlerOf DEF LeafTypes
<1>4. CASE Delegate \/ Undelegate \/ Redelegate
  <2>1. Answer(<<>>)
    BY <1>4 DEF Delegate, Undelegate, Redelegate
  <2>2. QED
    BY <1>1, <1>4, <2>1, DelegateShifts, UndelegateShifts, RedelegateShifts
<1>5. CASE WithdrawDelegatorReward \/ BankSend
  <2>1. StakeKept /\ Answer(<<>>) /\ Message.type \in {"WithdrawDelegatorReward", "BankSend"}
    BY <1>5, WithdrawEffect, BankSendEffect
  <2>2. Message \in Weightless
    BY <1>2, <2>1 DEF Weightless
  <2>3. QED
    BY <1>1, <2>1, <2>2, WeightlessShifts
<1>6. CASE Mint \/ CheckSlashing
  <2>1. Answer(<<>>) /\ BookKeeping /\ Message.type \in {"Mint", "CheckSlashing"}
    BY <1>6 DEF Mint, CheckSlashing, TokenOpen, Handling, BookKeeping, TokenHandler
  <2>2. Message \in Weightless
    BY <1>2, <2>1 DEF Weightless
  <2>3. QED
    BY <1>1, <2>1, <2>2, WeightlessShifts, BooksOnly
<1>7. CASE Burn
  <2>1. Answer(CheckMessages(Message)) /\ BookKeeping /\ Message.type \in {"Burn", "BurnFrom"}
    BY <1>7 DEF Burn, TokenOpen, Handling, BookKeeping, TokenHandler
  <2>2. Message \in Weightless
    BY <1>2, <2>1 DEF Weightless
  <2>3. QED
    BY <2>1, <2>2, WeightlessShifts, BooksOnly, ChecksWeightless
<1>8. QED
  BY <1>3, <1>4, <1>5, <1>6, <1>7

\* The first of two sequences gives the head of both.
LEMMA ConcatHead ==
  ASSUME NEW S, NEW a \in Seq(S), NEW b \in Seq(S), a # <<>>
  PROVE  Head(a \o b) = Head(a) /\ Tail(a \o b) = Tail(a) \o b /\ Head(a) \in S
         /\ Tail(a) \in Seq(S) /\ a \o b # <<>>
  OBVIOUS

\* The queue shrinks and what is to come stays.
LEMMA LeafStep ==
  ASSUME Typed, NEW ls \in Seq(Leaves), NEW ts \in Seq(Messages), queue = ls \o ts, ls # <<>>,
         Handled
  PROVE  \E ks \in Seq(Leaves) : queue' = ks \o ts /\ Ahead(work', ks) = Ahead(work, ls)
                                 /\ committed' = committed
<1>1. ls \in Seq(Messages)
  BY LeavesAre, SeqMonotone
<1>2. /\ queue # <<>> /\ Message = Head(ls) /\ Tail(queue) = Tail(ls) \o ts
  BY <1>1, ConcatHead DEF Message
<1>3. Message \in Leaves /\ Tail(ls) \in Seq(Leaves) /\ Tail(ls) \in Seq(Messages)
  BY <1>1, <1>2
<1>4. /\ Shifts(Message)
      /\ \E cs \in Seq(Weightless) : cs \in Seq(Leaves) /\ Answer(cs)
  BY <1>2, <1>3, LeafEffect
<1>5. PICK cs \in Seq(Weightless) : cs \in Seq(Leaves) /\ Answer(cs)
  BY <1>4
<1> DEFINE ks == cs \o Tail(ls)
<1>6. cs \in Seq(Messages)
  BY LeavesAre, SeqMonotone
<1>7. queue' = ks \o ts /\ committed' = committed
  <2>1. queue' = cs \o (Tail(ls) \o ts) /\ committed' = committed
    BY <1>2, <1>5 DEF Answer
  <2>2. QED
    BY <1>3, <1>6, <2>1, ConcatAssociative, SMTT(20)
<1>8. ks \in Seq(Leaves)
  BY <1>3, <1>5
<1>9. ASSUME NEW v \in Validators
      PROVE  /\ work'.delegation[v] + Gained(ks, v) - Lost(ks, v)
                  = work.delegation[v] + Gained(ls, v) - Lost(ls, v)
             /\ Due(ks, ArrivalAt(v)) = Due(Tail(ls), ArrivalAt(v))
  <2>1. /\ Gained(ks, v) = Gained(Tail(ls), v) /\ Lost(ks, v) = Lost(Tail(ls), v)
        /\ Due(ks, ArrivalAt(v)) = Due(Tail(ls), ArrivalAt(v))
        /\ Gained(Tail(ls), v) \in Nat /\ Lost(Tail(ls), v) \in Nat
    <3>1. Gained(cs, v) = 0 /\ Lost(cs, v) = 0 /\ Due(cs, ArrivalAt(v)) = 0
      BY DueWeightless
    <3>2. /\ Gained(Tail(ls), v) \in Nat /\ Lost(Tail(ls), v) \in Nat
          /\ Due(Tail(ls), ArrivalAt(v)) \in Nat
      BY <1>3, DueAmounts
    <3>3. /\ Gained(ks, v) = Gained(cs, v) + Gained(Tail(ls), v)
          /\ Lost(ks, v) = Lost(cs, v) + Lost(Tail(ls), v)
          /\ Due(ks, ArrivalAt(v)) = Due(cs, ArrivalAt(v)) + Due(Tail(ls), ArrivalAt(v))
      BY <1>3, <1>6, DueBoth
    <3> HIDE DEF ks
    <3>4. QED
      BY <3>1, <3>2, <3>3
  <2>2. /\ Gained(ls, v) = GainOf(v)[Message] + Gained(Tail(ls), v)
        /\ Lost(ls, v) = LossOf(v)[Message] + Lost(Tail(ls), v)
    BY <1>1, <1>2, DueHead
  <2>3. /\ GainOf(v)[Message] \in Nat /\ LossOf(v)[Message] \in Nat
        /\ work.delegation[v] \in Nat
    <3>1. Message \in Messages /\ work.delegation \in [Validators -> Nat]
      BY <1>3 DEF Leaves, Typed, WorldOK, Worlds
    <3>2. QED
      BY <3>1, WeightsType
  <2>4. work'.delegation[v] = work.delegation[v] + GainOf(v)[Message] - LossOf(v)[Message]
    BY <1>4 DEF Shifts
  <2> HIDE DEF ks
  <2>5. QED
    BY <2>1, <2>2, <2>3, <2>4
<1>10. work'.receiving \union Arrivals(ks) = work.receiving \union Arrivals(ls)
  <2>1. Arrivals(ks) = Arrivals(Tail(ls))
    BY <1>9 DEF Arrivals
  <2>2. Arrivals(ls) = {v \in Validators : ArrivalAt(v)[Message] > 0} \union Arrivals(Tail(ls))
    <3>1. ASSUME NEW v \in Validators
          PROVE  Due(ls, ArrivalAt(v)) > 0
                   <=> ArrivalAt(v)[Message] > 0 \/ Due(Tail(ls), ArrivalAt(v)) > 0
      <4>1. /\ Due(ls, ArrivalAt(v)) = ArrivalAt(v)[Message] + Due(Tail(ls), ArrivalAt(v))
            /\ Due(Tail(ls), ArrivalAt(v)) \in Nat
        BY <1>1, <1>2, <1>3, DueHead, DueAmounts
      <4>2. ArrivalAt(v)[Message] \in Nat
        BY <1>3, WeightsType DEF Leaves
      <4>3. QED
        BY <4>1, <4>2
    <3>2. QED
      BY <3>1 DEF Arrivals
  <2>3. work'.receiving
          = work.receiving \union {v \in Validators : ArrivalAt(v)[Message] > 0}
    BY <1>4 DEF Shifts
  <2>4. QED
    BY <2>1, <2>2, <2>3
<1>11. Ahead(work', ks) = Ahead(work, ls)
  BY <1>4, <1>9, <1>10 DEF Ahead, Shifts
<1>12. QED
  BY <1>7, <1>8, <1>11

-----------------------------------------------------------------------------
(***************************************************************************)
(* What a transaction may do to the validators, from where it began.       *)
(***************************************************************************)
DelegatedIn(a) == {v \in Validators : a.delegation[v] > 0}

Bonds(a, b, n) ==
  /\ n \in Nat \ {0}
  /\ ~a.paused
  /\ CanDelegate(n, RW!TotalsOf(RW!Ascending(a.registry, a.delegation), a.delegation))
  /\ b = Record(a.registry, RW!Bonded(n, a.registry, a.delegation), a.receiving, a.paused)

Undelegates(a, b, n) ==
  LET seq == RW!Descending(DelegatedIn(a), a.delegation)
      totals == RW!TotalsOf(seq, a.delegation)
  IN  /\ n \in Nat \ {0}
      /\ n <= SumOver(a.delegation, Validators)
      /\ ~a.paused
      /\ CanUndelegate(n, totals)
      /\ b = Record(a.registry, RW!Removed(a.delegation, seq, Undelegations(n, totals)),
                    a.receiving, a.paused)

Adds(a, b, v) ==
  v \in Validators /\ b = Record(a.registry \union {v}, a.delegation, a.receiving, a.paused)

Removes(a, b, v) ==
  /\ v \in Validators
  /\ a.registry \ {v} # {}
  /\ v \notin DelegatedIn(a) \/ v \in a.receiving
  /\ b = Record(a.registry \ {v}, a.delegation, a.receiving, a.paused)

\* Where a removal takes what is delegated to v.
MovedFrom(a, v) ==
  LET rest == RW!Ascending(a.registry \ {v}, a.delegation)
      totals == RW!TotalsOf(rest, a.delegation)
  IN  [RW!Added(a.delegation, rest, Delegations(a.delegation[v], totals)) EXCEPT ![v] = 0]

Redelegates(a, b, v) ==
  /\ v \in Validators
  /\ a.registry \ {v} # {}
  /\ v \in DelegatedIn(a)
  /\ v \notin a.receiving
  /\ CanDelegate(a.delegation[v],
                 RW!TotalsOf(RW!Ascending(a.registry \ {v}, a.delegation), a.delegation))
  /\ b = Record(a.registry \ {v}, MovedFrom(a, v),
                a.receiving \union {w \in Validators : MovedFrom(a, v)[w] > a.delegation[w]},
                a.paused)

Proxies(a, b, src, dst, n) ==
  /\ src \in Validators /\ dst \in Validators /\ n \in Nat \ {0}
  /\ src # dst
  /\ src \notin a.receiving
  /\ n <= a.delegation[src]
  /\ b = Record(a.registry, Moved(a.delegation, src, dst, n), a.receiving \union {dst}, a.paused)

Pauses(a, b, p) ==
  p \in BOOLEAN /\ b = Record(a.registry, a.delegation, a.receiving, p)

\* Before the rewards are dispatched: nothing has happened, or a removal.
Prepared(a, b) == b = a \/ \E v : Redelegates(a, b, v)

\* At the end: what was prepared, with the rewards bonded if there are any, or
\* one of the other transactions.
Reached(a, b) ==
  \/ b = a
  \/ ~a.paused /\ \E v : Redelegates(a, b, v)
  \/ \E c, n : Prepared(a, c) /\ Bonds(c, b, n)
  \/ \E n : Undelegates(a, b, n)
  \/ \E v : Adds(a, b, v) \/ Removes(a, b, v)
  \/ \E src, dst, n : Proxies(a, b, src, dst, n)
  \/ \E p : Pauses(a, b, p)

-----------------------------------------------------------------------------
(***************************************************************************)
(* Whatever it does, module Registry has an action for it.                 *)
(***************************************************************************)
\* The registry's operators are those of the last transaction, too.
LEMMA RegistrySame ==
  /\ \A S, d : R!Ascending(S, d) = RW!Ascending(S, d) /\ R!Descending(S, d) = RW!Descending(S, d)
  /\ \A seq, d : R!TotalsOf(seq, d) = RW!TotalsOf(seq, d)
  /\ \A d, seq, c : R!Added(d, seq, c) = RW!Added(d, seq, c)
  /\ \A d, seq, c : R!Removed(d, seq, c) = RW!Removed(d, seq, c)
  /\ \A d : R!SumOver(d, Validators) = SumOver(d, Validators)
<1>1. \A S, d : R!Ascending(S, d) = RW!Ascending(S, d) /\ R!Descending(S, d) = RW!Descending(S, d)
  BY DEF R!Ascending, RW!Ascending, R!Descending, RW!Descending, R!Precedes, RW!Precedes,
     R!Cardinality, RW!Cardinality
<1>2. \A seq, d : R!TotalsOf(seq, d) = RW!TotalsOf(seq, d)
  BY DEF R!TotalsOf, RW!TotalsOf
<1>3. \A d, seq, c : R!Added(d, seq, c) = RW!Added(d, seq, c)
  BY DEF R!Added, RW!Added
<1>4. \A d, seq, c : R!Removed(d, seq, c) = RW!Removed(d, seq, c)
  BY DEF R!Removed, RW!Removed
<1>5. \A d : R!SumOver(d, Validators) = SumOver(d, Validators)
  BY DEF R!SumOver, SumOver, R!SetSums!MapThenSumSet, R!SetSums!MapThenFoldSet,
     SetSums!MapThenSumSet, SetSums!MapThenFoldSet
<1>6. QED
  BY <1>1, <1>2, <1>3, <1>4, <1>5

LEMMA DistributionThere ==
  ASSUME NEW amount, NEW totals
  PROVE  /\ R!Delegations(amount, totals) = Delegations(amount, totals)
         /\ R!Undelegations(amount, totals) = Undelegations(amount, totals)
         /\ R!CanDelegate(amount, totals) = CanDelegate(amount, totals)
         /\ R!CanUndelegate(amount, totals) = CanUndelegate(amount, totals)
<1>1. ASSUME NEW a, NEW room, NEW n
      PROVE  R!Leftovers(a, room, n) = Leftovers(a, room, n)
  BY DEF R!Leftovers, Leftovers
<1>2. R!DelegationRoom(amount, totals) = DelegationRoom(amount, totals)
  BY DEF R!DelegationRoom, DelegationRoom, R!SumTo, SumTo, R!RunningSums, RunningSums,
         R!EvenShare, EvenShare
<1>3. R!UndelegationRoom(amount, totals) = UndelegationRoom(amount, totals)
  BY DEF R!UndelegationRoom, UndelegationRoom, R!SumTo, SumTo, R!RunningSums, RunningSums,
         R!EvenShare, EvenShare
<1>4. R!CanUndelegate(amount, totals) = CanUndelegate(amount, totals)
  BY DEF R!CanUndelegate, CanUndelegate, R!SumTo, SumTo, R!RunningSums, RunningSums
<1>5. QED
  BY <1>1, <1>2, <1>3, <1>4 DEF R!Delegations, Delegations, R!Undelegations, Undelegations,
     R!Taken, Taken, R!NotPlaced, NotPlaced, R!CanDelegate, CanDelegate

LEMMA BondedThere ==
  ASSUME NEW n, NEW S, NEW d
  PROVE  R!Bonded(n, S, d) = RW!Bonded(n, S, d)
  BY RegistrySame, DistributionThere, DistributionHere DEF R!Bonded, RW!Bonded


LEMMA RegFields ==
  ASSUME NEW w
  PROVE  /\ Reg(w).registry = w.registry /\ Reg(w).delegation = w.delegation
         /\ Reg(w).receiving = w.receiving /\ Reg(w).paused = w.params.paused
  BY DEF Reg, Record

LEMMA WorldFields ==
  ASSUME NEW w \in Worlds
  PROVE  /\ w.registry \in SUBSET Validators /\ w.delegation \in [Validators -> Nat]
         /\ w.receiving \in SUBSET Validators /\ w.params.paused \in BOOLEAN
  BY DEF Worlds, HW!Parameters

\* What a bond or a removal leaves delegated.
LEMMA SumSame ==
  ASSUME NEW f
  PROVE  RP!SumOver(f, Validators) = SumOver(f, Validators)
  BY DEF RP!SumOver, SumOver, RP!SetSums!MapThenSumSet, RP!SetSums!MapThenFoldSet,
     SetSums!MapThenSumSet, SetSums!MapThenFoldSet

LEMMA BondedSame ==
  ASSUME NEW n, NEW S, NEW d
  PROVE  RP!Bonded(n, S, d) = RW!Bonded(n, S, d)
<1> DEFINE seq == RW!Ascending(S, d)
           given == Delegations(n, RW!TotalsOf(seq, d))
<1>1. RW!Bonded(n, S, d) = RW!Added(d, seq, given)
  BY DistributionHere DEF RW!Bonded
<1>2. RP!Bonded(n, S, d) = RP!Added(d, seq, given)
  BY AscendingSame, TotalsSame, DistributionSame DEF RP!Bonded
<1>3. RP!Added(d, seq, given) = RW!Added(d, seq, given)
  BY DEF RP!Added, RW!Added
<1>4. QED
  BY <1>1, <1>2, <1>3

LEMMA BondedSum ==
  ASSUME NEW S \in SUBSET Validators, S # {}, NEW n \in Nat, NEW d \in [Validators -> Nat]
  PROVE  /\ RW!Bonded(n, S, d) \in [Validators -> Nat]
         /\ SumOver(RW!Bonded(n, S, d), Validators) = SumOver(d, Validators) + n
         /\ \A v \in Validators \ S : RW!Bonded(n, S, d)[v] = d[v]
<1>1. /\ RP!Bonded(n, S, d) \in [Validators -> Nat]
      /\ \A v \in Validators \ S : RP!Bonded(n, S, d)[v] = d[v]
      /\ \A W \in SUBSET Validators :
           S \subseteq W => RP!SumOver(RP!Bonded(n, S, d), W) = RP!SumOver(d, W) + n
  BY RegistryAssumed, RP!BondedPlaced
<1>2. RP!SumOver(RP!Bonded(n, S, d), Validators) = RP!SumOver(d, Validators) + n
  BY <1>1
<1>3. QED
  BY <1>1, <1>2, BondedSame, SumSame

LEMMA MovedFromSum ==
  ASSUME NEW a, NEW v \in Validators, a.registry \in SUBSET Validators, a.registry \ {v} # {},
         a.delegation \in [Validators -> Nat]
  PROVE  /\ MovedFrom(a, v) \in [Validators -> Nat]
         /\ SumOver(MovedFrom(a, v), Validators) = SumOver(a.delegation, Validators)
<1> DEFINE S == a.registry \ {v}
           d == a.delegation
           bonded == RW!Bonded(d[v], S, d)
           moved == [bonded EXCEPT ![v] = 0]
<1>1. MovedFrom(a, v) = moved
  BY DistributionHere DEF MovedFrom, RW!Bonded
<1>2. /\ S \in SUBSET Validators /\ S # {} /\ v \in Validators \ S /\ d \in [Validators -> Nat]
      /\ d[v] \in Nat
  OBVIOUS
<1> HIDE DEF S, d
<1>3. /\ bonded \in [Validators -> Nat] /\ bonded[v] = d[v]
      /\ SumOver(bonded, Validators) = SumOver(d, Validators) + d[v]
  BY <1>2, BondedSum
<1> HIDE DEF bonded
<1>4. Differ(bonded, moved, Validators, v) /\ moved[v] = 0
  BY <1>2, <1>3 DEF Differ
<1>5. moved \in [Validators -> Nat]
  BY <1>4 DEF Differ
<1> HIDE DEF moved
<1>6. /\ SumOver(moved, Validators) + bonded[v] = SumOver(bonded, Validators) + moved[v]
      /\ SumOver(moved, Validators) \in Nat /\ SumOver(bonded, Validators) \in Nat
  BY <1>4, AccountsFinite, SumDiffers
<1>7. SumOver(d, Validators) \in Nat
  BY <1>2, AccountsFinite, SumOverType
<1>8. SumOver(moved, Validators) = SumOver(d, Validators)
  BY <1>2, <1>3, <1>4, <1>6, <1>7
<1>9. QED
  BY <1>1, <1>5, <1>8 DEF d

\* What a transaction reached, committed, is a step of module Registry.
RegistryStep == R!Next \/ UNCHANGED R!vars

LEMMA BondIsStep ==
  ASSUME Typed, Typed', Bounded', NEW n, Bonds(Reg(committed), Reg(committed'), n)
  PROVE  R!Next
<1> DEFINE w == committed
           d == w.delegation
           S == w.registry
<1>1. /\ n \in Nat \ {0} /\ ~w.params.paused
      /\ CanDelegate(n, RW!TotalsOf(RW!Ascending(S, d), d))
      /\ committed'.registry = S /\ committed'.delegation = RW!Bonded(n, S, d)
      /\ committed'.receiving = w.receiving /\ committed'.params.paused = w.params.paused
  BY RegFields DEF Bonds, Reg, Record
<1>2. w \in Worlds /\ S \in SUBSET Validators /\ d \in [Validators -> Nat]
  BY WorldFields DEF Typed, WorldOK
<1>3. S # {}
  <2> SUFFICES ASSUME S = {} PROVE FALSE
    OBVIOUS
  <2>1. RP!Lists(RW!Ascending(S, d), S)
    BY <1>2, ValidatorsListed
  <2>2. RW!TotalsOf(RW!Ascending(S, d), d) = <<>>
    <3> DEFINE seq == RW!Ascending(S, d)
    <3>1. seq \in Seq(S)
      BY <2>1, ListedType
    <3> HIDE DEF seq
    <3>2. seq = <<>>
      BY <3>1
    <3>3. QED
      BY <3>2 DEF RW!TotalsOf, seq
  <2>3. QED
    BY <1>1, <2>2 DEF CanDelegate
<1>4. SumOver(RW!Bonded(n, S, d), Validators) = SumOver(d, Validators) + n
  BY <1>1, <1>2, <1>3, BondedSum
<1>5. /\ Staked(committed)' = SumOver(d, Validators) + n
      /\ Staked(committed)' <= MaxCoins /\ MaxCoins \in Nat
      /\ SumOver(d, Validators) \in Nat
  <2>1. Staked(committed)' = SumOver(RW!Bonded(n, S, d), Validators)
    BY <1>1 DEF Staked
  <2>2. Staked(committed)' <= MaxCoins /\ MaxCoins \in Nat
    <3>1. committed' \in Worlds /\ AllCoins(committed') <= MaxCoins
      BY DEF Typed, WorldOK, Bounded
    <3>2. QED
      BY <3>1, StakedBounded
  <2>3. SumOver(d, Validators) \in Nat
    BY <1>2, CoinsType DEF Staked
  <2>4. QED
    BY <1>4, <2>1, <2>2, <2>3
<1>6. n \in 1..MaxCoins /\ R!Total + n <= MaxCoins
  BY <1>1, <1>5, RegistrySame DEF R!Total
<1>7. R!CanBond(n, S, d)
  BY <1>1, RegistrySame, DistributionThere DEF R!CanBond
<1>8. committed'.delegation = R!Bonded(n, S, d)
  BY <1>1, BondedThere
<1>9. R!Bond(n)
  BY <1>1, <1>6, <1>7, <1>8 DEF R!Bond
<1>10. QED
  BY <1>6, <1>9 DEF R!Next

LEMMA UndelegateIsStep ==
  ASSUME Typed, Bounded, NEW n, Undelegates(Reg(committed), Reg(committed'), n)
  PROVE  R!Next
<1> DEFINE w == committed
           d == w.delegation
           seq == RW!Descending(R!Delegated, d)
           totals == RW!TotalsOf(seq, d)
<1>1. DelegatedIn(Reg(w)) = R!Delegated
  BY RegFields DEF DelegatedIn, R!Delegated
<1>2. /\ n \in Nat \ {0} /\ ~w.params.paused /\ n <= SumOver(d, Validators)
      /\ CanUndelegate(n, totals)
      /\ committed'.registry = w.registry
      /\ committed'.delegation = RW!Removed(d, seq, Undelegations(n, totals))
      /\ committed'.receiving = w.receiving /\ committed'.params.paused = w.params.paused
  BY <1>1, RegFields DEF Undelegates, Reg, Record
<1>3. n \in 1..MaxCoins
  <2>1. w \in Worlds /\ AllCoins(w) <= MaxCoins
    BY DEF Typed, WorldOK, Bounded
  <2>2. SumOver(d, Validators) \in Nat /\ SumOver(d, Validators) <= MaxCoins /\ MaxCoins \in Nat
    BY <2>1, StakedBounded DEF Staked
  <2>3. QED
    BY <1>2, <2>2
<1>4. seq = R!Descending(R!Delegated, d) /\ totals = R!TotalsOf(seq, d)
  BY RegistrySame
<1>5. R!CanUndelegate(n, totals) /\ R!Undelegations(n, totals) = Undelegations(n, totals)
  BY <1>2, DistributionThere
<1> HIDE DEF seq, totals
<1>6. R!Undelegate(n)
  BY <1>2, <1>4, <1>5, RegistrySame DEF R!Undelegate
<1>7. QED
  BY <1>3, <1>6 DEF R!Next

LEMMA AddIsStep ==
  ASSUME NEW v, Adds(Reg(committed), Reg(committed'), v)
  PROVE  R!Next
<1>1. v \in Validators /\ R!AddValidator(v)
  BY RegFields DEF Adds, Reg, Record, R!AddValidator
<1>2. QED
  BY <1>1 DEF R!Next

LEMMA RemoveIsStep ==
  ASSUME NEW v, Removes(Reg(committed), Reg(committed'), v)
  PROVE  R!Next
<1>1. DelegatedIn(Reg(committed)) = R!Delegated
  BY RegFields DEF DelegatedIn, R!Delegated
<1>2. v \in Validators /\ R!RemoveOnly(v)
  BY <1>1, RegFields DEF Removes, Reg, Record, R!RemoveOnly
<1>3. QED
  BY <1>2 DEF R!Next

LEMMA PauseIsStep ==
  ASSUME NEW p, Pauses(Reg(committed), Reg(committed'), p)
  PROVE  R!Next
<1>1. p \in BOOLEAN /\ R!SetPaused(p)
  BY RegFields DEF Pauses, Reg, Record, R!SetPaused
<1>2. QED
  BY <1>1 DEF R!Next

LEMMA ProxyIsStep ==
  ASSUME Typed, Bounded, NEW src, NEW dst, NEW n,
         Proxies(Reg(committed), Reg(committed'), src, dst, n)
  PROVE  R!Next
<1> DEFINE w == committed
           d == w.delegation
<1>1. /\ src \in Validators /\ dst \in Validators /\ n \in Nat \ {0}
      /\ src # dst /\ src \notin w.receiving /\ n <= d[src]
      /\ committed'.registry = w.registry
      /\ committed'.delegation = Moved(d, src, dst, n)
      /\ committed'.receiving = w.receiving \union {dst}
      /\ committed'.params.paused = w.params.paused
  BY RegFields DEF Proxies, Reg, Record
<1>2. w \in Worlds /\ AllCoins(w) <= MaxCoins /\ d \in [Validators -> Nat]
  BY WorldFields DEF Typed, WorldOK, Bounded
<1>3. n \in 1..MaxCoins
  <2>1. SumOver(d, Validators) \in Nat /\ SumOver(d, Validators) <= MaxCoins /\ MaxCoins \in Nat
    BY <1>2, StakedBounded DEF Staked
  <2>2. SumOver(d, Validators) = d[src] + SumOver(d, Validators \ {src})
        /\ SumOver(d, Validators \ {src}) \in Nat
    <3>1. (\A x \in Validators : d[x] \in Nat) /\ Validators \in SUBSET Validators
          /\ Validators \ {src} \in SUBSET Validators /\ src \in Validators
      BY <1>1, <1>2
    <3>2. QED
      BY <3>1, AccountsFinite, SumOverElement, SumOverType
  <2>3. d[src] \in Nat
    BY <1>1, <1>2
  <2>4. QED
    BY <1>1, <2>1, <2>2, <2>3
<1>4. Moved(d, src, dst, n) = [d EXCEPT ![src] = @ - n, ![dst] = @ + n]
  BY <1>1, <1>2 DEF Moved
<1>5. R!RedelegateProxy(src, dst, n)
  BY <1>1, <1>4 DEF R!RedelegateProxy
<1>6. QED
  BY <1>1, <1>3, <1>5 DEF R!Next

\* A removal, with rewards to bond or without.
LEMMA RedelegateIsStep ==
  ASSUME Typed, Typed', Bounded, Bounded', ~committed.params.paused, NEW c, NEW v,
         Redelegates(Reg(committed), c, v),
         Reg(committed') = c \/ \E n : Bonds(c, Reg(committed'), n)
  PROVE  R!Next
<1> DEFINE w == committed
           d == w.delegation
           S == w.registry \ {v}
           rest == RW!Ascending(S, d)
           totals == RW!TotalsOf(rest, d)
           shares == Delegations(d[v], totals)
           moved == [RW!Added(d, rest, shares) EXCEPT ![v] = 0]
           arrived == w.receiving \union {u \in Validators : moved[u] > d[u]}
<1>1. w \in Worlds /\ w.registry \in SUBSET Validators /\ d \in [Validators -> Nat]
      /\ AllCoins(w) <= MaxCoins
  BY WorldFields DEF Typed, WorldOK, Bounded
<1>2. DelegatedIn(Reg(w)) = R!Delegated /\ MovedFrom(Reg(w), v) = moved
  BY RegFields DEF DelegatedIn, R!Delegated, MovedFrom
<1>3. /\ v \in Validators /\ S # {} /\ v \in R!Delegated /\ v \notin w.receiving
      /\ CanDelegate(d[v], totals)
      /\ c = Record(S, moved, arrived, w.params.paused)
  BY <1>2, RegFields DEF Redelegates
<1>4. moved \in [Validators -> Nat] /\ SumOver(moved, Validators) = SumOver(d, Validators)
  <2>1. /\ Reg(w).registry \in SUBSET Validators /\ Reg(w).registry \ {v} # {}
        /\ Reg(w).delegation \in [Validators -> Nat] /\ Reg(w).delegation = d /\ v \in Validators
    BY <1>1, <1>3, RegFields
  <2>2. /\ MovedFrom(Reg(w), v) \in [Validators -> Nat]
        /\ SumOver(MovedFrom(Reg(w), v), Validators) = SumOver(Reg(w).delegation, Validators)
    BY <2>1, MovedFromSum
  <2> HIDE DEF moved
  <2>3. QED
    BY <1>2, <2>1, <2>2
<1>5. /\ rest = R!Ascending(S, d) /\ totals = R!TotalsOf(rest, d)
      /\ shares = R!Delegations(d[v], totals)
      /\ moved = [R!Added(d, rest, shares) EXCEPT ![v] = 0]
      /\ R!CanDelegate(d[v], totals)
  BY <1>3, RegistrySame, DistributionThere
<1>6. /\ SumOver(d, Validators) \in Nat /\ SumOver(d, Validators) <= MaxCoins /\ MaxCoins \in Nat
      /\ R!Total = SumOver(d, Validators)
  BY <1>1, StakedBounded, RegistrySame DEF Staked, R!Total
<1> HIDE DEF rest, totals, shares, moved
<1>7. CASE Reg(committed') = c
  <2>1. /\ committed'.registry = S /\ committed'.delegation = moved
        /\ committed'.receiving = arrived /\ committed'.params.paused = w.params.paused
    BY <1>3, <1>7 DEF Reg, Record
  <2>2. R!RemoveAndRedelegate(v, 0)
    BY <1>3, <1>5, <1>6, <2>1 DEF R!RemoveAndRedelegate
  <2>3. QED
    BY <1>3, <2>2 DEF R!Next
<1>8. ASSUME NEW n, Bonds(c, Reg(committed'), n)
      PROVE  R!Next
  <2>1. /\ c.registry = S /\ c.delegation = moved /\ c.receiving = arrived
        /\ c.paused = w.params.paused
    BY <1>3 DEF Record
  <2>2. /\ n \in Nat \ {0}
        /\ CanDelegate(n, RW!TotalsOf(RW!Ascending(S, moved), moved))
        /\ committed'.registry = S /\ committed'.delegation = RW!Bonded(n, S, moved)
        /\ committed'.receiving = arrived /\ committed'.params.paused = w.params.paused
    BY <1>8, <2>1 DEF Bonds, Reg, Record
  <2>3. R!CanBond(n, S, moved)
    BY <2>2, RegistrySame, DistributionThere DEF R!CanBond
  <2>4. committed'.delegation = R!Bonded(n, S, moved)
    BY <2>2, BondedThere
  <2>5. SumOver(committed'.delegation, Validators) = SumOver(d, Validators) + n
    <3>1. S \in SUBSET Validators /\ n \in Nat
      BY <1>1, <2>2
    <3> HIDE DEF S
    <3>2. SumOver(RW!Bonded(n, S, moved), Validators) = SumOver(moved, Validators) + n
      BY <1>3, <1>4, <3>1, BondedSum
    <3>3. QED
      BY <1>4, <2>2, <3>2
  <2>6. SumOver(committed'.delegation, Validators) <= MaxCoins
    <3>1. committed' \in Worlds /\ AllCoins(committed') <= MaxCoins
      BY DEF Typed, WorldOK, Bounded
    <3>2. QED
      BY <3>1, StakedBounded DEF Staked
  <2>7. n \in 1..MaxCoins /\ R!Total + n <= MaxCoins /\ n # 0
    BY <1>6, <2>2, <2>5, <2>6
  <2>8. R!RemoveAndRedelegate(v, n)
    BY <1>3, <1>5, <2>2, <2>3, <2>4, <2>7 DEF R!RemoveAndRedelegate
  <2>9. QED
    BY <1>3, <2>7, <2>8 DEF R!Next
<1>9. QED
  BY <1>7, <1>8

LEMMA ReachedIsStep ==
  ASSUME Typed, Typed', Bounded, Bounded', Reached(Reg(committed), Reg(committed'))
  PROVE  RegistryStep
<1> DEFINE a == Reg(committed)
           b == Reg(committed')
<1>1. CASE b = a
  BY <1>1 DEF RegistryStep, R!vars, Reg, Record
<1>2. ASSUME ~a.paused, NEW v, Redelegates(a, b, v)
      PROVE  R!Next
  BY <1>2, RedelegateIsStep, RegFields
<1>3. ASSUME NEW c, NEW n, Prepared(a, c), Bonds(c, b, n)
      PROVE  R!Next
  <2>1. CASE c = a
    BY <1>3, <2>1, BondIsStep
  <2>2. ASSUME NEW v, Redelegates(a, c, v)
        PROVE  R!Next
    <3>1. ~committed.params.paused
      BY <1>3, <2>2, RegFields DEF Bonds, Redelegates, Record
    <3>2. QED
      BY <1>3, <2>2, <3>1, RedelegateIsStep
  <2>3. QED
    BY <1>3, <2>1, <2>2 DEF Prepared
<1>4. ASSUME NEW n, Undelegates(a, b, n)
      PROVE  R!Next
  BY <1>4, UndelegateIsStep
<1>5. ASSUME NEW v, Adds(a, b, v) \/ Removes(a, b, v)
      PROVE  R!Next
  BY <1>5, AddIsStep, RemoveIsStep
<1>6. ASSUME NEW src, NEW dst, NEW n, Proxies(a, b, src, dst, n)
      PROVE  R!Next
  BY <1>6, ProxyIsStep
<1>7. ASSUME NEW p, Pauses(a, b, p)
      PROVE  R!Next
  BY <1>7, PauseIsStep
<1>8. QED
  BY <1>1, <1>2, <1>3, <1>4, <1>5, <1>6, <1>7 DEF Reached, RegistryStep

-----------------------------------------------------------------------------
(***************************************************************************)
(* How far a transaction has come, as far as the validators are concerned. *)
(***************************************************************************)
RewardsBond(n) == [type |-> "BondRewards", sender |-> "dispatcher", amount |-> n]
Dispatches == {[type |-> "WithdrawAndDispatch"], [type |-> "DispatchRewards", sender |-> "hub"]}

\* What can be signed, or what it comes to, that is neither for the chain alone
\* nor a dispatch.
Opens(m) ==
  /\ m.type \in {"BondForStAtom", "BondRewards", "Receive", "WithdrawUnbonded", "DispatchRewards",
                 "Transfer", "TransferFrom", "Send", "SendFrom", "BurnFrom", "IncreaseAllowance",
                 "DecreaseAllowance", "PauseContracts", "UnpauseContracts", "AddValidator",
                 "RemoveValidator", "RedelegateProxy", "Redelegate"}
  /\ m.type \in {"BondForStAtom", "Redelegate"} => m.amount \in Nat \ {0}
  /\ m.type \in {"BondRewards", "DispatchRewards"} => m.sender \in Users
  /\ m.type = "RedelegateProxy" =>
       \/ m.redelegations = <<>>
       \/ \E p \in NonzeroPairs : m.redelegations = <<p>>

\* The transaction has only begun.
Opened == \E m \in Messages : queue = <<m>> /\ Opens(m) /\ Reg(work) = Reg(committed)

\* Nothing more than messages to the chain is to come.
Settling == queue \in Seq(Leaves) /\ Reached(Reg(committed), Ahead(work, queue))

\* The rewards are to be withdrawn and dispatched after that.
Dispatching ==
  \E ls \in Seq(Leaves), d \in Dispatches :
    queue = ls \o <<d>> /\ Prepared(Reg(committed), Ahead(work, ls))

\* The rewards are to be bonded.
Bonding ==
  \E n \in Nat \ {0}, ls \in Seq(Leaves) :
    /\ ls \in Seq(Weightless)
    /\ queue = <<RewardsBond(n)>> \o ls
    /\ Prepared(Reg(committed), Reg(work))

\* The pairs remove_validator has the hub redelegate from v.
PairsFor(v) ==
  LET rest == RW!Ascending(work.registry, work.delegation)
      shares == Delegations(work.delegation[v], RW!TotalsOf(rest, work.delegation))
      pairs == [i \in DOMAIN rest |-> <<rest[i], shares[i]>>]
  IN  Chosen(pairs, {i \in DOMAIN pairs : pairs[i][2] # 0})

ProxyFor(v) ==
  [type |-> "RedelegateProxy", sender |-> "registry", src |-> v, redelegations |-> PairsFor(v)]

\* The registry has removed v, and the hub has still to redelegate.
Removing ==
  \E v \in Validators :
    /\ queue = <<ProxyFor(v), [type |-> "WithdrawAndDispatch"]>>
    /\ work.registry = committed.registry \ {v} /\ work.registry # {}
    /\ work.delegation = committed.delegation /\ work.receiving = committed.receiving
    /\ work.params.paused = committed.params.paused
    /\ work.delegation[v] > 0 /\ v \notin work.receiving
    /\ CanDelegate(work.delegation[v],
                   RW!TotalsOf(RW!Ascending(work.registry, work.delegation), work.delegation))

Stage == Opened \/ Settling \/ Dispatching \/ Bonding \/ Removing

\* What is chosen of a pair.
LEMMA PairChosen ==
  ASSUME NEW T, NEW x \in T, NEW y \in T, NEW S
  PROVE  Chosen(<<x, y>>, S) = (IF 1 \in S THEN <<x>> ELSE <<>>) \o (IF 2 \in S THEN <<y>> ELSE <<>>)
<1> DEFINE seq == <<x, y>>
           g == Picked(seq, S)
<1>1. seq \in Seq(T) /\ Len(seq) = 2 /\ seq[1] = x /\ seq[2] = y
  OBVIOUS
<1> HIDE DEF seq
<1>2. /\ Picked(seq, S)[0] = <<>>
      /\ \A i \in 1..2 : Picked(seq, S)[i] = IF i \in S THEN Append(Picked(seq, S)[i - 1], seq[i])
                                             ELSE Picked(seq, S)[i - 1]
  BY <1>1, PickedDef
<1>3. g[0] = <<>> /\ g[1] = IF 1 \in S THEN Append(g[0], x) ELSE g[0]
  <2>1. 1 \in 1..2 /\ 1 - 1 = 0
    OBVIOUS
  <2>2. Picked(seq, S)[1] = IF 1 \in S THEN Append(Picked(seq, S)[1 - 1], seq[1])
                            ELSE Picked(seq, S)[1 - 1]
    BY <1>2, <2>1
  <2>3. QED
    BY <1>1, <1>2, <2>1, <2>2
<1>4. g[2] = IF 2 \in S THEN Append(g[1], y) ELSE g[1]
  <2>1. 2 \in 1..2 /\ 2 - 1 = 1
    OBVIOUS
  <2>2. Picked(seq, S)[2] = IF 2 \in S THEN Append(Picked(seq, S)[2 - 1], seq[2])
                            ELSE Picked(seq, S)[2 - 1]
    BY <1>2, <2>1
  <2>3. QED
    BY <1>1, <2>1, <2>2
<1>5. Chosen(seq, S) = g[2]
  BY <1>1 DEF Chosen
<1> HIDE DEF g
<1>6. g[1] = IF 1 \in S THEN <<x>> ELSE <<>>
  <2>1. Append(<<>>, x) = <<x>>
    OBVIOUS
  <2>2. QED
    BY <1>3, <2>1
<1>7. g[2] = (IF 1 \in S THEN <<x>> ELSE <<>>) \o (IF 2 \in S THEN <<y>> ELSE <<>>)
  <2> DEFINE a == IF 1 \in S THEN <<x>> ELSE <<>>
  <2>1. a \in Seq(T)
    OBVIOUS
  <2> HIDE DEF a
  <2>2. Append(a, y) = a \o <<y>> /\ a \o <<>> = a
    BY <2>1
  <2>3. g[1] = a
    BY <1>6 DEF a
  <2>4. g[2] = a \o (IF 2 \in S THEN <<y>> ELSE <<>>)
    BY <1>4, <2>2, <2>3
  <2>5. QED
    BY <2>4 DEF a
<1>8. QED
  BY <1>5, <1>7 DEF seq

\* What the validators owe is withdrawn, from each of them.
LEMMA WithdrawalsWeightless ==
  ASSUME Typed
  PROVE  WithdrawRewardMessages \in Seq(Weightless) /\ WithdrawRewardMessages \in Seq(Leaves)
<1> DEFINE zero == [v \in Validators |-> 0]
           seq == RW!Ascending(RW!Delegated, zero)
<1>1. seq \in Seq(RW!Delegated)
  <2>1. RW!Delegated \in SUBSET Validators /\ \A v \in RW!Delegated : zero[v] \in Int
    BY DEF RW!Delegated
  <2> HIDE DEF zero
  <2>2. RP!Lists(RW!Ascending(RW!Delegated, zero), RW!Delegated)
    BY <2>1, ValidatorsListed
  <2>3. QED
    BY <2>2, ListedType
<1>2. WithdrawRewardMessages
        = [i \in DOMAIN seq |-> [type |-> "WithdrawDelegatorReward", validator |-> seq[i]]]
  BY DEF WithdrawRewardMessages
<1> HIDE DEF seq
<1>3. ASSUME NEW i \in 1..Len(seq)
      PROVE  LET m == [type |-> "WithdrawDelegatorReward", validator |-> seq[i]]
             IN  m \in Weightless /\ m \in Leaves
  <2>1. seq[i] \in Validators
    BY <1>1 DEF RW!Delegated
  <2>2. QED
    BY <2>1 DEF Weightless, Leaves, LeafTypes, Messages, ToChain
<1>4. Len(seq) \in Nat /\ DOMAIN seq = 1..Len(seq)
  BY <1>1
<1>5. QED
  BY <1>2, <1>3, <1>4

\* At any message the transaction may be given up, and has then done nothing.
LEMMA NothingReached ==
  ASSUME queue' = <<>>, work' \in Worlds, committed' = work'
  PROVE  Stage'
<1>1. <<>> \in Seq(Weightless) /\ <<>> \in Seq(Leaves)
  OBVIOUS
<1>2. Ahead(work', <<>>) = Reg(work')
  BY <1>1, AheadNothing
<1>3. Settling'
  BY <1>1, <1>2 DEF Settling, Reached
<1>4. QED
  BY <1>3 DEF Stage

-----------------------------------------------------------------------------
LEMMA SettlingStep ==
  ASSUME Typed, Settling, Handled, queue # <<>>
  PROVE  Stage'
<1>1. queue \in Seq(Leaves) /\ queue \in Seq(Messages) /\ <<>> \in Seq(Messages)
  BY DEF Settling, Typed
<1>2. queue = queue \o <<>>
  BY <1>1
<1>3. PICK ks \in Seq(Leaves) :
        queue' = ks \o <<>> /\ Ahead(work', ks) = Ahead(work, queue) /\ committed' = committed
  BY <1>1, <1>2, LeafStep
<1>4. queue' = ks
  BY <1>3
<1>5. Settling'
  BY <1>3, <1>4 DEF Settling
<1>6. QED
  BY <1>5 DEF Stage

\* Neither a dispatch nor a removal pauses anything.
LEMMA PreparedPaused ==
  ASSUME NEW a, NEW b, Prepared(a, b)
  PROVE  b.paused = a.paused
<1>1. CASE b = a
  BY <1>1
<1>2. ASSUME NEW v, Redelegates(a, b, v)
      PROVE  b.paused = a.paused
  <2>1. \E registry, delegation, receiving : b = Record(registry, delegation, receiving, a.paused)
    BY <1>2 DEF Redelegates
  <2>2. QED
    BY <2>1 DEF Record
<1>3. QED
  BY <1>1, <1>2 DEF Prepared

LEMMA PreparedReached ==
  ASSUME NEW a, NEW b, Prepared(a, b), ~b.paused
  PROVE  Reached(a, b)
  BY PreparedPaused DEF Prepared, Reached

\* What is dispatched is bonded, but for the fee.
LEMMA DispatchStep ==
  ASSUME Typed, Typed', queue = <<[type |-> "DispatchRewards", sender |-> "hub"]>>,
         DispatchRewards, Prepared(Reg(committed), Reg(work))
  PROVE  Stage'
<1> DEFINE rewards == work.coins["dispatcher"]
           fee == LidoFee(rewards)
           n == rewards - fee
           send == [type |-> "BankSend", sender |-> "dispatcher", to |-> "fees", amount |-> fee]
           pair == <<RewardsBond(n), send>>
           nonzero == {i \in DOMAIN pair : pair[i].amount # 0}
           sends == IF 2 \in nonzero THEN <<send>> ELSE <<>>
<1>1. /\ rewards \in Nat /\ fee <= rewards /\ work' = work /\ committed' = committed
      /\ ~work.params.paused
      /\ queue' = Chosen(pair, nonzero) \o Tail(queue)
  BY DEF DispatchRewards, Typed, WorldOK, Worlds, Accounts, Answer, Nonzero, RewardsBond
<1>2. fee \in Nat
  BY <1>1, TimesBound, ProtocolAssumption DEF LidoFee
<1> HIDE DEF fee, rewards
<1>3. n \in Nat
  BY <1>1, <1>2
<1>4. RewardsBond(n) \in Messages
  BY <1>3 DEF RewardsBond, Messages, ToHub
<1>5. send \in Weightless /\ send \in Leaves /\ send \in Messages
  BY <1>2 DEF Weightless, Leaves, LeafTypes, Messages, ToChain
<1>6. 1 \in nonzero <=> n # 0
  BY DEF RewardsBond
<1> HIDE DEF n
<1>7. Chosen(pair, nonzero) = (IF 1 \in nonzero THEN <<RewardsBond(n)>> ELSE <<>>) \o sends
  <2> DEFINE x == RewardsBond(n)
  <2>1. x \in Messages /\ send \in Messages
    BY <1>4, <1>5
  <2> HIDE DEF x, send, nonzero
  <2>2. Chosen(<<x, send>>, nonzero)
          = (IF 1 \in nonzero THEN <<x>> ELSE <<>>) \o (IF 2 \in nonzero THEN <<send>> ELSE <<>>)
    BY ONLY <2>1, PairChosen
  <2>3. QED
    BY <2>2 DEF x
<1>8. sends \in Seq(Weightless) /\ sends \in Seq(Leaves) /\ sends \in Seq(Messages)
  BY <1>5, SeqSingle
<1> HIDE DEF nonzero, sends, send, pair
<1>9. Tail(queue) = <<>>
  OBVIOUS
<1>10. CASE n # 0
  <2>1. queue' = <<RewardsBond(n)>> \o sends
    <3>1. queue' = (<<RewardsBond(n)>> \o sends) \o <<>>
      BY <1>1, <1>6, <1>7, <1>9, <1>10
    <3>2. <<RewardsBond(n)>> \o sends \in Seq(Messages)
      BY <1>4, <1>8
    <3>3. QED
      BY <3>1, <3>2
  <2>2. Prepared(Reg(committed'), Reg(work'))
    BY <1>1
  <2>3. Bonding'
    BY <1>3, <1>8, <1>10, <2>1, <2>2 DEF Bonding
  <2>4. QED
    BY <2>3 DEF Stage
<1>11. CASE n = 0
  <2>1. queue' = sends
    <3>1. queue' = (<<>> \o sends) \o <<>>
      BY <1>1, <1>6, <1>7, <1>9, <1>11
    <3>2. QED
      BY <1>8, <3>1
  <2>2. Ahead(work', sends) = Reg(work')
    BY <1>8, AheadNothing DEF Typed, WorldOK
  <2>3. ~Reg(work).paused
    BY <1>1, RegFields
  <2>4. Reached(Reg(committed'), Reg(work'))
    BY <1>1, <2>3, PreparedReached
  <2>5. Settling'
    BY <1>8, <2>1, <2>2, <2>4 DEF Settling
  <2>6. QED
    BY <2>5 DEF Stage
<1>12. QED
  BY <1>10, <1>11

LEMMA DispatchingStep ==
  ASSUME Typed, Typed', Dispatching, Handled
  PROVE  Stage'
<1>1. PICK ls \in Seq(Leaves), d \in Dispatches :
        queue = ls \o <<d>> /\ Prepared(Reg(committed), Ahead(work, ls))
  BY DEF Dispatching
<1>2. d \in Messages /\ <<d>> \in Seq(Messages)
  <2>1. d \in Messages
    BY DEF Dispatches, Messages, ToHub, ToOthers, Holders
  <2>2. QED
    BY <2>1
<1>3. CASE ls # <<>>
  <2>1. PICK ks \in Seq(Leaves) :
          queue' = ks \o <<d>> /\ Ahead(work', ks) = Ahead(work, ls) /\ committed' = committed
    BY <1>1, <1>2, <1>3, LeafStep
  <2>2. Dispatching'
    BY <1>1, <2>1 DEF Dispatching
  <2>3. QED
    BY <2>2 DEF Stage
<1>4. CASE ls = <<>>
  <2>1. queue = <<d>> /\ Message = d /\ Tail(queue) = <<>>
    BY <1>1, <1>2, <1>4 DEF Message
  <2>2. Ahead(work, ls) = Reg(work)
    <3>1. ls \in Seq(Weightless) /\ work \in Worlds
      BY <1>4 DEF Typed, WorldOK
    <3>2. QED
      BY <3>1, AheadNothing
  <2>3. CASE d = [type |-> "WithdrawAndDispatch"]
    <3>1. Message.type = "WithdrawAndDispatch"
      BY <2>1, <2>3
    <3>2. WithdrawAllRewards
      BY <3>1, HandlerOf
    <3> DEFINE ms == WithdrawRewardMessages
               e == [type |-> "DispatchRewards", sender |-> "hub"]
    <3>3. /\ ms \in Seq(Weightless) /\ ms \in Seq(Leaves) /\ e \in Dispatches
          /\ ms \in Seq(Messages) /\ <<e>> \in Seq(Messages)
      <4>1. e \in Dispatches /\ e \in Messages
        BY DEF Dispatches, Messages, ToOthers, Holders
      <4>2. QED
        BY <4>1, WithdrawalsWeightless, LeavesAre, SeqMonotone
    <3>4. work' = work /\ committed' = committed /\ queue' = (ms \o <<e>>) \o <<>>
      BY <2>1, <3>2 DEF WithdrawAllRewards, Answer, WithdrawAndDispatch
    <3> HIDE DEF ms, e
    <3>5. queue' = ms \o <<e>>
      BY <3>3, <3>4
    <3>6. Ahead(work', ms) = Reg(work')
      BY <3>3, AheadNothing DEF Typed, WorldOK
    <3>7. Prepared(Reg(committed'), Ahead(work', ms))
      BY <1>1, <2>2, <3>4, <3>6
    <3>8. Dispatching'
      BY <3>3, <3>5, <3>7 DEF Dispatching
    <3>9. QED
      BY <3>8 DEF Stage
  <2>4. CASE d = [type |-> "DispatchRewards", sender |-> "hub"]
    <3>1. Message.type = "DispatchRewards"
      BY <2>1, <2>4
    <3>2. DispatchRewards
      BY <3>1, HandlerOf
    <3>3. QED
      BY <1>1, <2>1, <2>2, <2>4, <3>2, DispatchStep
  <2>5. QED
    BY <2>3, <2>4 DEF Dispatches
<1>5. QED
  BY <1>3, <1>4

\* What the hub delegates is what Bonded of module Registry adds up to.
LEMMA BondAhead ==
  ASSUME NEW n, Typed, n \in Nat \ {0}, ~work.params.paused, StakeKept,
         CanDelegate(n, RW!TotalsOf(RW!Ascending(work.registry, work.delegation),
                                    work.delegation))
  PROVE  /\ DelegateMessages(n) \in Seq(Leaves) /\ DelegateMessages(n) \in Seq(Messages)
         /\ Bonds(Reg(work), Ahead(work', DelegateMessages(n)), n)
<1> DEFINE ms == DelegateMessages(n)
           bonded == RW!Bonded(n, work.registry, work.delegation)
<1>1. WorldOK(work) /\ n \in Nat
  BY DEF Typed
<1>2. ms \in Seq(Leaves) /\ ms \in Seq(Messages)
  <2>1. ms \in Seq(ToDelegate)
    BY <1>1, DelegateMessagesType DEF ToDelegate
  <2>2. QED
    BY <2>1, LeavesAre, StakeMessages, SeqMonotone
<1>3. ASSUME NEW v \in Validators
      PROVE  /\ work.delegation[v] + Gained(ms, v) = bonded[v]
             /\ Lost(ms, v) = 0 /\ Due(ms, ArrivalAt(v)) = 0
  BY <1>1, DelegatesLand DEF Gained, Lost
<1>4. \A v \in Validators :
        work'.delegation[v] + Gained(ms, v) - Lost(ms, v) = bonded[v]
  <2> TAKE v \in Validators
  <2>1. Gained(ms, v) \in Nat /\ work.delegation[v] \in Nat
    BY <1>1, <1>2, DueAmounts DEF WorldOK, Worlds
  <2>2. /\ work'.delegation[v] = work.delegation[v]
        /\ work.delegation[v] + Gained(ms, v) = bonded[v] /\ Lost(ms, v) = 0
    BY <1>3 DEF StakeKept
  <2> HIDE DEF ms, bonded
  <2>3. QED
    BY <2>1, <2>2
<1>5. DOMAIN bonded = Validators /\ bonded = [v \in Validators |-> bonded[v]]
  BY DEF RW!Bonded, RW!Added
<1>6. Arrivals(ms) = {}
  BY <1>3 DEF Arrivals
<1> HIDE DEF ms, bonded
<1>7. [v \in Validators |-> work'.delegation[v] + Gained(ms, v) - Lost(ms, v)] = bonded
  BY <1>4, <1>5
<1>8. Ahead(work', ms) = Record(work.registry, bonded, work.receiving, work.params.paused)
  BY <1>6, <1>7 DEF Ahead, StakeKept
<1>9. Bonds(Reg(work), Ahead(work', ms), n)
  BY <1>8, RegFields DEF Bonds, bonded
<1>10. QED
  BY <1>2, <1>9 DEF ms

\* What follows the delegations of a bond has nothing to do with them.
LEMMA BondAnswers ==
  ASSUME Typed, Bond
  PROVE  \E ts \in Seq(Weightless) :
           ts \in Seq(Leaves) /\ Answer(DelegateMessages(Message.amount) \o ts)
<1> DEFINE m == Message
           rate == HW!ActualState.statom_exchange_rate
           minted == IF m.type = "BondRewards" THEN 0 ELSE DecimalDivision(m.amount, rate)
           mint == [type |-> "Mint", sender |-> "hub", to |-> m.sender, amount |-> minted]
           ts == IF m.type = "BondRewards" THEN <<>> ELSE <<mint>>
<1>1. Answer(DelegateMessages(m.amount) \o ts)
  BY DEF Bond
<1>2. Fields(m) /\ m.type \in {"BondForStAtom", "BondRewards"}
  BY FirstMessage DEF Bond, Handling
<1>3. CASE m.type = "BondRewards"
  <2>1. ts = <<>> /\ ts \in Seq(Weightless) /\ ts \in Seq(Leaves)
    BY <1>3
  <2>2. QED
    BY <1>1, <2>1
<1>4. CASE m.type = "BondForStAtom"
  <2>1. m.sender \in Users /\ m.amount \in Nat
    BY <1>2, <1>4 DEF Fields
  <2>2. rate \in Nat \ {0}
    <3>1. HW!ActualState \in HW!State
      BY HubTyped, HubComputes DEF Typed
    <3>2. QED
      BY <1>4, <3>1 DEF Bond, HW!State
  <2>3. minted \in Nat
    BY <1>4, <2>1, <2>2, DecimalDivisionBound
  <2> HIDE DEF minted
  <2>4. mint \in Weightless /\ mint \in Leaves
    BY <2>1, <2>3 DEF Weightless, Leaves, LeafTypes, Messages, ToToken, Holders
  <2>5. ts \in Seq(Weightless) /\ ts \in Seq(Leaves)
    BY <1>4, <2>4, SeqSingle
  <2>6. QED
    BY <1>1, <2>5
<1>5. QED
  BY <1>2, <1>3, <1>4

\* The bond of the rewards, the last of a dispatch.
LEMMA BondingStep ==
  ASSUME Typed, Typed', Bonding, Handled
  PROVE  Stage'
<1>1. PICK n \in Nat \ {0}, ls \in Seq(Leaves) :
        /\ ls \in Seq(Weightless)
        /\ queue = <<RewardsBond(n)>> \o ls
        /\ Prepared(Reg(committed), Reg(work))
  BY DEF Bonding
<1>2. RewardsBond(n) \in Messages
  BY DEF RewardsBond, Messages, ToHub
<1>3. queue # <<>> /\ Message = RewardsBond(n) /\ Tail(queue) = ls
  <2> DEFINE x == RewardsBond(n)
  <2> HIDE DEF x
  <2>1. queue = <<x>> \o ls
    BY <1>1 DEF x
  <2>2. queue # <<>> /\ Head(queue) = x /\ Tail(queue) = ls
    BY <2>1
  <2>3. QED
    BY <2>2 DEF x, Message
<1>4. Message.type = "BondRewards" /\ Message.amount = n
  BY <1>3 DEF RewardsBond
<1>5. Bond
  BY <1>4, HandlerOf
<1>6. /\ StakeKept /\ ~work.params.paused
      /\ CanDelegate(n, RW!TotalsOf(RW!Ascending(work.registry, work.delegation),
                                    work.delegation))
  BY <1>4, <1>5, BondCoins DEF Bond
<1> DEFINE ms == DelegateMessages(n)
<1>7. PICK ts \in Seq(Weightless) : ts \in Seq(Leaves) /\ Answer(ms \o ts)
  BY <1>4, <1>5, BondAnswers
<1>8. /\ ms \in Seq(Leaves) /\ ms \in Seq(Messages)
      /\ Bonds(Reg(work), Ahead(work', ms), n)
  BY <1>6, BondAhead
<1> HIDE DEF ms
<1> DEFINE rest == ts \o ls
<1>9. rest \in Seq(Weightless) /\ rest \in Seq(Leaves)
  BY <1>1, <1>7
<1>10. queue' = ms \o rest /\ committed' = committed
  <2>1. queue' = (ms \o ts) \o ls /\ committed' = committed
    BY <1>3, <1>7 DEF Answer
  <2>2. QED
    BY <1>1, <1>7, <1>8, <2>1, ConcatAssociative
<1> HIDE DEF rest
<1>11. queue' \in Seq(Leaves)
  BY <1>8, <1>9, <1>10
<1>12. Ahead(work', queue') = Ahead(work', ms)
  BY <1>8, <1>9, <1>10, AheadWeightless DEF Typed, WorldOK
<1>13. Reached(Reg(committed'), Ahead(work', queue'))
  BY <1>1, <1>8, <1>10, <1>12 DEF Reached
<1>14. QED
  BY <1>11, <1>13 DEF Settling, Stage

LEMMA ProxyAnswers ==
  ASSUME RedelegateProxy
  PROVE  /\ queue' = ProxyMessages(Message.src, Message.redelegations) \o Tail(queue)
         /\ work' = work /\ committed' = committed
  BY DEF RedelegateProxy, Answer, ProxyMessages, MoveOf

\* What remove_validator has the hub redelegate is what RemoveAndRedelegate of
\* module Registry moves.
LEMMA RemovalAhead ==
  ASSUME NEW v, Typed, v \in Validators, work' = work,
         work.registry = committed.registry \ {v}, work.registry # {},
         work.delegation = committed.delegation, work.receiving = committed.receiving,
         work.params.paused = committed.params.paused,
         work.delegation[v] > 0, v \notin work.receiving,
         CanDelegate(work.delegation[v],
                     RW!TotalsOf(RW!Ascending(work.registry, work.delegation), work.delegation))
  PROVE  /\ ProxyMessages(v, PairsFor(v)) \in Seq(Leaves)
         /\ ProxyMessages(v, PairsFor(v)) \in Seq(Messages)
         /\ Redelegates(Reg(committed), Ahead(work', ProxyMessages(v, PairsFor(v))), v)
<1> DEFINE ms == ProxyMessages(v, PairsFor(v))
           rest == RW!Ascending(work.registry, work.delegation)
           shares == Delegations(work.delegation[v], RW!TotalsOf(rest, work.delegation))
           moved == [RW!Added(work.delegation, rest, shares) EXCEPT ![v] = 0]
<1>1. /\ WorldOK(work) /\ work.registry \in SUBSET Validators /\ v \in Validators \ work.registry
      /\ work.delegation \in [Validators -> Nat]
  BY DEF Typed, WorldOK, Worlds
<1>2. ASSUME NEW u \in Validators
      PROVE  /\ work.delegation[u] + Gained(ms, u) - Lost(ms, u) = moved[u]
             /\ Due(ms, ArrivalAt(u)) > 0 <=> moved[u] > work.delegation[u]
             /\ ms \in Seq(ToRedelegate)
  BY <1>1, RedelegatesLand DEF PairsFor, Gained, Lost
<1>3. ms \in Seq(Leaves) /\ ms \in Seq(Messages)
  BY <1>2, LeavesAre, StakeMessages, SeqMonotone
<1>4. DOMAIN moved = Validators /\ moved = [u \in Validators |-> moved[u]]
  BY DEF RW!Added
<1>5. moved = MovedFrom(Reg(committed), v)
  BY RegFields DEF MovedFrom
<1>6. /\ Reg(committed).registry \ {v} = work.registry
      /\ Reg(committed).delegation = work.delegation
      /\ Reg(committed).receiving = work.receiving
      /\ Reg(committed).paused = work.params.paused
  BY RegFields
<1>7. v \in DelegatedIn(Reg(committed))
  BY <1>6 DEF DelegatedIn
<1> HIDE DEF moved, rest, shares, ms
<1>8. [u \in Validators |-> work.delegation[u] + Gained(ms, u) - Lost(ms, u)] = moved
  BY <1>2, <1>4
<1>9. Arrivals(ms) = {u \in Validators : moved[u] > work.delegation[u]}
  BY <1>2 DEF Arrivals
<1>10. Ahead(work', ms)
         = Record(work.registry, moved,
                  work.receiving \union {u \in Validators : moved[u] > work.delegation[u]},
                  work.params.paused)
  BY <1>8, <1>9 DEF Ahead
<1>11. Redelegates(Reg(committed), Ahead(work', ms), v)
  BY <1>5, <1>6, <1>7, <1>10 DEF Redelegates
<1>12. QED
  BY <1>3, <1>11 DEF ms

\* The hub redelegates from the validator that was removed.
LEMMA RemovingStep ==
  ASSUME Typed, Removing, Handled
  PROVE  Stage'
<1> DEFINE d == [type |-> "WithdrawAndDispatch"]
<1>1. PICK v \in Validators :
        /\ queue = <<ProxyFor(v), d>>
        /\ work.registry = committed.registry \ {v} /\ work.registry # {}
        /\ work.delegation = committed.delegation /\ work.receiving = committed.receiving
        /\ work.params.paused = committed.params.paused
        /\ work.delegation[v] > 0 /\ v \notin work.receiving
        /\ CanDelegate(work.delegation[v],
                       RW!TotalsOf(RW!Ascending(work.registry, work.delegation),
                                   work.delegation))
  BY DEF Removing
<1>2. queue # <<>> /\ Message = ProxyFor(v) /\ Tail(queue) = <<d>>
  <2> DEFINE x == ProxyFor(v)
             y == d
  <2> HIDE DEF x, y
  <2>1. queue = <<x, y>>
    BY <1>1 DEF x, y
  <2>2. queue # <<>> /\ Head(queue) = x /\ Tail(queue) = <<y>>
    BY <2>1
  <2>3. QED
    BY <2>2 DEF x, y, Message
<1>3. Message.type = "RedelegateProxy" /\ Message.src = v /\ Message.redelegations = PairsFor(v)
  BY <1>2 DEF ProxyFor
<1>4. RedelegateProxy
  BY <1>3, HandlerOf
<1> DEFINE ms == ProxyMessages(v, PairsFor(v))
<1>5. queue' = ms \o <<d>> /\ work' = work /\ committed' = committed
  BY <1>2, <1>3, <1>4, ProxyAnswers
<1>6. ms \in Seq(Leaves) /\ Redelegates(Reg(committed), Ahead(work', ms), v)
  BY <1>1, <1>5, RemovalAhead
<1> HIDE DEF ms
<1>7. d \in Dispatches
  BY DEF Dispatches
<1>8. Prepared(Reg(committed'), Ahead(work', ms))
  BY <1>5, <1>6 DEF Prepared
<1>9. QED
  BY <1>5, <1>6, <1>7, <1>8 DEF Dispatching, Stage

-----------------------------------------------------------------------------
(***************************************************************************)
(* What the first message of a transaction leads to.                       *)
(***************************************************************************)
LEMMA OpenedHead ==
  ASSUME Typed, Opened
  PROVE  /\ queue # <<>> /\ Tail(queue) = <<>>
         /\ Message \in Messages /\ Fields(Message) /\ Opens(Message)
         /\ Reg(work) = Reg(committed)
<1>1. PICK m \in Messages : queue = <<m>> /\ Opens(m) /\ Reg(work) = Reg(committed)
  BY DEF Opened
<1>2. queue # <<>> /\ Tail(queue) = <<>> /\ Message = m
  BY <1>1 DEF Message
<1>3. QED
  BY <1>1, <1>2, MessageFields

\* An answer to the only message is all that is to come.
LEMMA OpenedAnswer ==
  ASSUME Typed, Opened, NEW ms, ms \in Seq(Messages), Answer(ms)
  PROVE  queue' = ms /\ committed' = committed
<1>1. Tail(queue) = <<>>
  BY OpenedHead
<1>2. queue' = ms \o Tail(queue) /\ committed' = committed
  BY DEF Answer
<1>3. ms \o <<>> = ms
  OBVIOUS
<1>4. QED
  BY <1>1, <1>2, <1>3

\* What the registry sees is done, and nothing that it could see is to come.
LEMMA AllReached ==
  ASSUME Typed', NEW ms \in Seq(Weightless), ms \in Seq(Leaves), queue' = ms,
         Reached(Reg(committed'), Reg(work'))
  PROVE  Stage'
<1>1. Ahead(work', ms) = Reg(work')
  BY AheadNothing DEF Typed, WorldOK
<1>2. QED
  BY <1>1 DEF Settling, Stage

LEMMA RegKept ==
  ASSUME StakeKept
  PROVE  Reg(work') = Reg(work)
  BY DEF StakeKept, Reg

LEMMA Nothing ==
  <<>> \in Seq(Weightless) /\ <<>> \in Seq(Leaves) /\ <<>> \in Seq(Messages)
  OBVIOUS

\* A handler that only keeps books.
LEMMA OpenedBooks ==
  ASSUME Typed, Typed', Opened, BookKeeping, NEW ms \in Seq(Weightless), ms \in Seq(Leaves),
         Answer(ms)
  PROVE  Stage'
<1>1. Reg(work') = Reg(committed)
  BY BooksOnly, RegKept, OpenedHead
<1>2. ms \in Seq(Messages)
  BY LeavesAre, SeqMonotone
<1>3. queue' = ms /\ committed' = committed
  BY <1>2, OpenedAnswer
<1>4. Reached(Reg(committed'), Reg(work'))
  BY <1>1, <1>3 DEF Reached
<1>5. QED
  BY <1>3, <1>4, AllReached

LEMMA OpenedBond ==
  ASSUME Typed, Typed', Opened, Bond
  PROVE  Stage'
<1> DEFINE n == Message.amount
           ms == DelegateMessages(n)
<1>1. Message.type \in {"BondForStAtom", "BondRewards"} /\ Opens(Message)
  BY OpenedHead DEF Bond, Handling
<1>2. Message.type = "BondForStAtom"
  <2>1. "dispatcher" \notin Users
    BY ProtocolAssumption DEF Contracts
  <2>2. QED
    BY <1>1, <2>1 DEF Bond, Opens
<1>3. n \in Nat \ {0}
  BY <1>1, <1>2 DEF Opens
<1>4. /\ StakeKept /\ ~work.params.paused
      /\ CanDelegate(n, RW!TotalsOf(RW!Ascending(work.registry, work.delegation),
                                    work.delegation))
  BY BondCoins DEF Bond
<1>5. PICK ts \in Seq(Weightless) : ts \in Seq(Leaves) /\ Answer(ms \o ts)
  BY BondAnswers
<1> HIDE DEF n
<1>6. /\ ms \in Seq(Leaves) /\ ms \in Seq(Messages)
      /\ Bonds(Reg(work), Ahead(work', ms), n)
  BY <1>3, <1>4, BondAhead
<1> HIDE DEF ms
<1>7. ts \in Seq(Messages) /\ ms \o ts \in Seq(Messages) /\ ms \o ts \in Seq(Leaves)
  BY <1>5, <1>6, LeavesAre, SeqMonotone
<1>8. queue' = ms \o ts /\ committed' = committed
  BY <1>5, <1>7, OpenedAnswer
<1>9. Ahead(work', queue') = Ahead(work', ms)
  BY <1>6, <1>8, AheadWeightless DEF Typed, WorldOK
<1>10. Prepared(Reg(committed'), Reg(work))
  BY <1>8, OpenedHead DEF Prepared
<1>11. Reached(Reg(committed'), Ahead(work', queue'))
  BY <1>6, <1>9, <1>10 DEF Reached
<1>12. QED
  BY <1>7, <1>8, <1>11 DEF Settling, Stage

\* What the hub undelegates is what Undelegate of module Registry removes.
LEMMA ClaimAhead ==
  ASSUME NEW n, Typed, n \in Nat, ~work.params.paused, StakeKept,
         CanUndelegate(n, RW!TotalsOf(RW!Descending(RW!Delegated, work.delegation),
                                      work.delegation))
  PROVE  /\ UndelegateMessages(n) \in Seq(Leaves) /\ UndelegateMessages(n) \in Seq(Messages)
         /\ Reached(Reg(work), Ahead(work', UndelegateMessages(n)))
<1> DEFINE ms == UndelegateMessages(n)
           seq == RW!Descending(RW!Delegated, work.delegation)
           totals == RW!TotalsOf(seq, work.delegation)
           removed == RW!Removed(work.delegation, seq, Undelegations(n, totals))
<1>1. WorldOK(work) /\ work.delegation \in [Validators -> Nat]
  BY DEF Typed, WorldOK, Worlds
<1>2. ms \in Seq(Leaves) /\ ms \in Seq(Messages)
  <2>1. ms \in Seq(ToUndelegate)
    BY <1>1, UndelegateMessagesType DEF ToUndelegate
  <2>2. QED
    BY <2>1, LeavesAre, StakeMessages, SeqMonotone
<1>3. ASSUME NEW v \in Validators
      PROVE  /\ work.delegation[v] - Lost(ms, v) = removed[v]
             /\ Gained(ms, v) = 0 /\ Due(ms, ArrivalAt(v)) = 0
             /\ n = 0 => Lost(ms, v) = 0
  BY <1>1, UndelegatesLand DEF Gained, Lost
<1>4. n <= Staked(work)
  BY <1>1, ClaimsType
<1>5. DOMAIN removed = Validators /\ removed = [v \in Validators |-> removed[v]]
  BY DEF RW!Removed
<1>6. Arrivals(ms) = {}
  BY <1>3 DEF Arrivals
<1>7. /\ DelegatedIn(Reg(work)) = RW!Delegated
      /\ Staked(work) = SumOver(Reg(work).delegation, Validators)
  BY RegFields DEF DelegatedIn, RW!Delegated, Staked
<1> HIDE DEF ms, removed
<1>8. [v \in Validators |-> work'.delegation[v] + Gained(ms, v) - Lost(ms, v)] = removed
  <2>1. ASSUME NEW v \in Validators
        PROVE  work'.delegation[v] + Gained(ms, v) - Lost(ms, v) = removed[v]
    <3>1. work'.delegation[v] = work.delegation[v] /\ work.delegation[v] \in Nat
      BY <1>1 DEF StakeKept
    <3>2. Lost(ms, v) \in Nat
      BY <1>2, DueAmounts DEF ms
    <3>3. work.delegation[v] - Lost(ms, v) = removed[v] /\ Gained(ms, v) = 0
      BY <1>3
    <3>4. QED
      BY <3>1, <3>2, <3>3
  <2>2. QED
    BY <1>5, <2>1
<1>9. Ahead(work', ms) = Record(work.registry, removed, work.receiving, work.params.paused)
  BY <1>6, <1>8 DEF Ahead, StakeKept
<1>10. CASE n = 0
  <2>1. removed = work.delegation
    <3>1. ASSUME NEW v \in Validators PROVE removed[v] = work.delegation[v]
      <4>1. work.delegation[v] - 0 = work.delegation[v]
        BY <1>1
      <4>2. QED
        BY <1>3, <1>10, <4>1
    <3>2. QED
      BY <1>1, <1>5, <3>1
  <2>2. Ahead(work', ms) = Reg(work)
    BY <1>9, <2>1 DEF Reg
  <2>3. QED
    BY <1>2, <2>2 DEF Reached, ms
<1>11. CASE n # 0
  <2>1. Undelegates(Reg(work), Ahead(work', ms), n)
    <3>1. n \in Nat \ {0}
      BY <1>11
    <3>2. QED
      BY <1>4, <1>7, <1>9, <3>1, RegFields DEF Undelegates, removed
  <2>2. QED
    BY <1>2, <2>1 DEF Reached, ms
<1>12. QED
  BY <1>10, <1>11

LEMMA OpenedReceive ==
  ASSUME Typed, Typed', Opened, ReceiveUnbond
  PROVE  Stage'
<1> DEFINE burn == BurnOfHub(Message.amount)
           ms == UndelegateMessages(Claimed)
<1>1. /\ StakeKept /\ Message.amount \in Nat /\ Claimed \in Nat /\ ~work.params.paused
      /\ \/ Answer(<<burn>>)
         \/ /\ CanUndelegate(Claimed, RW!TotalsOf(RW!Descending(RW!Delegated, work.delegation),
                                                  work.delegation))
            /\ Answer(ms \o <<burn>>)
  BY ReceiveEffect
<1>2. <<burn>> \in Seq(Weightless) /\ <<burn>> \in Seq(Leaves) /\ <<burn>> \in Seq(Messages)
  <2>1. burn \in Weightless /\ burn \in Leaves /\ burn \in Messages
    BY <1>1 DEF BurnOfHub, Weightless, Leaves, LeafTypes, Messages, ToToken, Holders
  <2> HIDE DEF burn
  <2>2. QED
    BY <2>1, SeqSingle
<1>3. CASE Answer(<<burn>>)
  BY <1>2, <1>3, OpenedBooks DEF BookKeeping
<1>4. ASSUME Answer(ms \o <<burn>>),
             CanUndelegate(Claimed, RW!TotalsOf(RW!Descending(RW!Delegated, work.delegation),
                                                work.delegation))
      PROVE  Stage'
  <2>1. /\ ms \in Seq(Leaves) /\ ms \in Seq(Messages)
        /\ Reached(Reg(work), Ahead(work', ms))
    BY <1>1, <1>4, ClaimAhead
  <2> DEFINE bs == <<burn>>
  <2>2. bs \in Seq(Weightless) /\ bs \in Seq(Leaves) /\ bs \in Seq(Messages) /\ Answer(ms \o bs)
    BY <1>2, <1>4
  <2> HIDE DEF ms, bs, burn
  <2>3. ms \o bs \in Seq(Messages) /\ ms \o bs \in Seq(Leaves)
    BY <2>1, <2>2
  <2>4. queue' = ms \o bs /\ committed' = committed
    BY <2>2, <2>3, OpenedAnswer
  <2>5. Ahead(work', queue') = Ahead(work', ms)
    BY <2>1, <2>2, <2>4, AheadWeightless DEF Typed, WorldOK
  <2>6. Reached(Reg(committed'), Ahead(work', queue'))
    BY <2>1, <2>4, <2>5, OpenedHead
  <2>7. QED
    BY <2>3, <2>4, <2>6 DEF Settling, Stage
<1>5. QED
  BY <1>1, <1>3, <1>4

LEMMA OpenedWithdraw ==
  ASSUME Typed, Typed', Opened, WithdrawUnbonded
  PROVE  Stage'
<1>1. PICK m : m.type = "BankSend" /\ Answer(<<m>>)
  BY DEF WithdrawUnbonded
<1>2. m \in Messages
  <2>1. queue' = <<m>> \o Tail(queue) /\ Tail(queue) = <<>>
    BY <1>1, OpenedHead DEF Answer
  <2>2. <<m>> \o <<>> = <<m>>
    OBVIOUS
  <2>5. queue' = <<m>>
    BY <2>1, <2>2
  <2>3. queue' \in Seq(Messages)
    BY DEF Typed
  <2>4. QED
    BY <2>5, <2>3
<1>3. m \in Weightless /\ m \in Leaves
  BY <1>1, <1>2 DEF Weightless, Leaves, LeafTypes
<1>4. <<m>> \in Seq(Weightless) /\ <<m>> \in Seq(Leaves)
  BY <1>3, SeqSingle
<1>5. QED
  BY <1>1, <1>4, OpenedBooks DEF BookKeeping

LEMMA OpenedToken ==
  ASSUME Typed, Typed', Opened, TokenHandler
  PROVE  Stage'
<1>1. CASE Mint \/ IncreaseAllowance \/ DecreaseAllowance \/ Transfer
  <2>1. Answer(<<>>)
    BY <1>1 DEF Mint, IncreaseAllowance, DecreaseAllowance, Transfer
  <2>2. QED
    BY <2>1, Nothing, OpenedBooks DEF BookKeeping
<1>2. CASE Burn
  <2>1. Answer(CheckMessages(Message))
    BY <1>2 DEF Burn
  <2>2. QED
    BY <2>1, ChecksWeightless, OpenedBooks DEF BookKeeping
<1>3. CASE Send
  <2> DEFINE m == [type |-> "Receive", sender |-> "token", user |-> Message.sender,
                   amount |-> Message.amount]
  <2>1. Answer(<<m>>) /\ Message.type \in {"Send", "SendFrom"}
    BY <1>3 DEF Send, ReceiveMessages, TokenOpen, Handling
  <2>2. Message.sender \in Users /\ Message.amount \in Nat
    BY <2>1, OpenedHead DEF Fields
  <2>3. m \in Messages
    BY <2>2 DEF Messages, ToHub
  <2>4. Opens(m)
    BY DEF Opens
  <2> HIDE DEF m
  <2>5. <<m>> \in Seq(Messages)
    BY <2>3
  <2>6. queue' = <<m>> /\ committed' = committed
    BY <2>1, <2>5, OpenedAnswer
  <2>7. Reg(work') = Reg(committed')
    BY <2>6, BooksOnly, RegKept, OpenedHead DEF BookKeeping
  <2>8. QED
    BY <2>3, <2>4, <2>6, <2>7 DEF Opened, Stage
<1>4. QED
  BY <1>1, <1>2, <1>3 DEF TokenHandler

LEMMA OpenedPause ==
  ASSUME Typed, Typed', Opened, SetPaused
  PROVE  Stage'
<1> DEFINE p == Message.type = "PauseContracts"
<1>1. /\ work'.registry = work.registry /\ work'.receiving = work.receiving
      /\ work'.delegation = work.delegation
      /\ work'.params.paused = p
  BY PausedOnly DEF CoinsKept
<1>2. Answer(<<>>)
  BY DEF SetPaused
<1>3. queue' = <<>> /\ committed' = committed
  BY <1>2, Nothing, OpenedAnswer
<1>4. p \in BOOLEAN
  OBVIOUS
<1> HIDE DEF p
<1>5. Reg(work') = Record(work.registry, work.delegation, work.receiving, p)
  BY <1>1 DEF Reg
<1>6. Pauses(Reg(work), Reg(work'), p)
  BY <1>4, <1>5, RegFields DEF Pauses
<1>7. Reached(Reg(committed'), Reg(work'))
  BY <1>3, <1>6, OpenedHead DEF Reached
<1>8. QED
  BY <1>3, <1>7, Nothing, AllReached

LEMMA OpenedAdd ==
  ASSUME Typed, Typed', Opened, AddValidator
  PROVE  Stage'
<1> DEFINE v == Message.validator
<1>1. /\ work'.registry = work.registry \union {v} /\ work'.receiving = work.receiving
      /\ work'.delegation = work.delegation /\ work'.params = work.params
  BY RegistryOnly DEF CoinsKept
<1>2. Answer(<<>>) /\ v \in Validators
  BY OpenedHead DEF AddValidator, Handling, Fields
<1>3. queue' = <<>> /\ committed' = committed
  BY <1>2, Nothing, OpenedAnswer
<1> HIDE DEF v
<1>4. Reg(work') = Record(work.registry \union {v}, work.delegation, work.receiving,
                          work.params.paused)
  BY <1>1 DEF Reg
<1>5. Adds(Reg(work), Reg(work'), v)
  BY <1>2, <1>4, RegFields DEF Adds
<1>6. Reached(Reg(committed'), Reg(work'))
  BY <1>3, <1>5, OpenedHead DEF Reached
<1>7. QED
  BY <1>3, <1>6, Nothing, AllReached

LEMMA OpenedRemove ==
  ASSUME Typed, Typed', Opened, RemoveValidator
  PROVE  Stage'
<1>0. PICK v \in Validators : v = Message.validator
  BY OpenedHead DEF RemoveValidator, Handling, Fields
<1> DEFINE d == work.delegation
           rest == RW!Ascending(work.registry \ {v}, d)
           totals == RW!TotalsOf(rest, d)
           shares == Delegations(d[v], totals)
           pairs == [i \in DOMAIN rest |-> <<rest[i], shares[i]>>]
           proxy == [type |-> "RedelegateProxy", sender |-> "registry", src |-> v,
                     redelegations |-> Chosen(pairs, {i \in DOMAIN pairs : pairs[i][2] # 0})]
           withdraw == [type |-> "WithdrawAndDispatch"]
<1>1. /\ work'.registry = work.registry \ {v} /\ work'.receiving = work.receiving
      /\ work'.delegation = d /\ work'.params = work.params
  BY <1>0, RegistryOnly DEF CoinsKept
<1>2. v \in Validators /\ work.registry \ {v} # {} /\ Reg(work) = Reg(committed)
  BY <1>0, OpenedHead DEF RemoveValidator
<1>3. IF v \notin RW!Delegated \/ v \in work.receiving
      THEN Answer(<<>>)
      ELSE CanDelegate(d[v], totals) /\ Answer(<<proxy, withdraw>>)
  BY <1>0 DEF RemoveValidator
<1>4. CASE v \notin RW!Delegated \/ v \in work.receiving
  <2>1. queue' = <<>> /\ committed' = committed
    BY <1>3, <1>4, Nothing, OpenedAnswer
  <2>2. v \notin DelegatedIn(Reg(work)) \/ v \in Reg(work).receiving
    BY <1>4, RegFields DEF DelegatedIn, RW!Delegated
  <2>3. Reg(work') = Record(work.registry \ {v}, work.delegation, work.receiving,
                            work.params.paused)
    BY <1>1 DEF Reg
  <2>4. Removes(Reg(work), Reg(work'), v)
    BY <1>2, <2>2, <2>3, RegFields DEF Removes
  <2>5. Reached(Reg(committed'), Reg(work'))
    BY <1>2, <2>1, <2>4 DEF Reached
  <2>6. QED
    BY <2>1, <2>5, Nothing, AllReached
<1>5. CASE v \in RW!Delegated /\ v \notin work.receiving
  <2>1. CanDelegate(d[v], totals) /\ Answer(<<proxy, withdraw>>) /\ d[v] > 0
    BY <1>3, <1>5 DEF RW!Delegated
  <2>2. proxy = ProxyFor(v)'
    BY <1>1 DEF ProxyFor, PairsFor
  <2> DEFINE both == <<proxy, withdraw>>
  <2>3. queue' = both /\ committed' = committed
    <3>1. Tail(queue) = <<>> /\ queue' = both \o Tail(queue) /\ committed' = committed
      BY <2>1, OpenedHead DEF Answer
    <3> HIDE DEF proxy, withdraw
    <3>2. both \o <<>> = both
      OBVIOUS
    <3> HIDE DEF both
    <3>3. QED
      BY <3>1, <3>2
  <2>4. /\ committed.registry = work.registry /\ committed.delegation = work.delegation
        /\ committed.receiving = work.receiving
        /\ committed.params.paused = work.params.paused
    BY <1>2, RegFields
  <2>5. CanDelegate(work'.delegation[v],
                    RW!TotalsOf(RW!Ascending(work'.registry, work'.delegation),
                                work'.delegation))
    BY <1>1, <2>1
  <2> HIDE DEF proxy, totals, rest, shares, pairs, d
  <2>6. queue' = <<ProxyFor(v)', withdraw>>
    BY <2>2, <2>3
  <2>7. /\ work'.registry = committed'.registry \ {v} /\ work'.registry # {}
        /\ work'.delegation = committed'.delegation /\ work'.receiving = committed'.receiving
        /\ work'.params.paused = committed'.params.paused
        /\ work'.delegation[v] > 0 /\ v \notin work'.receiving
    BY <1>1, <1>2, <1>5, <2>1, <2>3, <2>4 DEF d
  <2>8. Removing'
    BY <1>2, <2>5, <2>6, <2>7 DEF Removing
  <2>9. QED
    BY <2>8 DEF Stage
<1>6. QED
  BY <1>4, <1>5

LEMMA OpenedProxy ==
  ASSUME Typed, Typed', Opened, RedelegateProxy
  PROVE  Stage'
<1> DEFINE u == Message.src
           ps == Message.redelegations
<1>1. Message.type = "RedelegateProxy" /\ u \in Validators /\ Opens(Message)
  BY OpenedHead DEF RedelegateProxy, Handling, Fields
<1>2. queue' = ProxyMessages(u, ps) \o <<>> /\ work' = work /\ committed' = committed
  BY ProxyAnswers, OpenedHead
<1>3. ps = <<>> \/ \E p \in NonzeroPairs : ps = <<p>>
  BY <1>1 DEF Opens
<1>4. Reg(work') = Reg(committed')
  BY <1>2, OpenedHead
<1> HIDE DEF u, ps
<1>5. CASE ps = <<>>
  <2>1. ProxyMessages(u, ps) = <<>>
    BY <1>5 DEF ProxyMessages
  <2>2. queue' = <<>>
    <3>1. <<>> \o <<>> = <<>>
      OBVIOUS
    <3>2. QED
      BY <1>2, <2>1, <3>1
  <2>3. Reached(Reg(committed'), Reg(work'))
    BY <1>4 DEF Reached
  <2>4. QED
    BY <2>2, <2>3, Nothing, AllReached
<1>6. ASSUME NEW p \in NonzeroPairs, ps = <<p>>
      PROVE  Stage'
  <2> DEFINE m == MoveOf(u, p)
  <2>1. p \in Pairs /\ p[2] \in Nat \ {0}
    BY DEF NonzeroPairs, Pairs
  <2>2. m \in Messages /\ m.type = "Redelegate" /\ m.amount \in Nat \ {0}
    BY <1>1, <2>1, MoveOfType DEF MoveOf
  <2>3. ProxyMessages(u, ps) = <<m>>
    BY <1>6 DEF ProxyMessages
  <2>4. Opens(m)
    BY <2>2 DEF Opens
  <2> HIDE DEF m
  <2>5. queue' = <<m>>
    <3>1. <<m>> \o <<>> = <<m>>
      OBVIOUS
    <3>2. QED
      BY <1>2, <2>3, <3>1
  <2>6. QED
    BY <1>4, <2>2, <2>4, <2>5 DEF Opened, Stage
<1>7. QED
  BY <1>3, <1>5, <1>6

LEMMA OpenedRedelegate ==
  ASSUME Typed, Typed', Opened, Redelegate
  PROVE  Stage'
<1> DEFINE u == Message.src
           v == Message.validator
           n == Message.amount
<1>1. /\ u \in Validators /\ v \in Validators /\ n <= work.delegation[u]
      /\ u # v /\ u \notin work.receiving
      /\ work'.delegation = Moved(work.delegation, u, v, n)
      /\ work'.receiving = work.receiving \union {v}
      /\ work'.registry = work.registry /\ work'.params = work.params
      /\ Message.type = "Redelegate" /\ Answer(<<>>)
  BY RedelegateEffect
<1>2. n \in Nat \ {0}
  BY <1>1, OpenedHead DEF Opens
<1>3. queue' = <<>> /\ committed' = committed
  BY <1>1, Nothing, OpenedAnswer
<1> HIDE DEF u, v, n
<1>4. Reg(work') = Record(work.registry, Moved(work.delegation, u, v, n),
                          work.receiving \union {v}, work.params.paused)
  BY <1>1 DEF Reg
<1>5. Proxies(Reg(work), Reg(work'), u, v, n)
  BY <1>1, <1>2, <1>4, RegFields DEF Proxies
<1>6. Reached(Reg(committed'), Reg(work'))
  BY <1>3, <1>5, OpenedHead DEF Reached
<1>7. QED
  BY <1>3, <1>6, Nothing, AllReached

LEMMA OpenedStep ==
  ASSUME Typed, Typed', Opened, Handled
  PROVE  Stage'
<1>1. Opens(Message)
  BY OpenedHead
<1>2. CASE DispatchRewards
  <2>1. Message.type = "DispatchRewards" /\ Message.sender = "hub"
    BY <1>2 DEF DispatchRewards, Handling
  <2>2. "hub" \notin Users
    BY ProtocolAssumption DEF Contracts
  <2>3. QED
    BY <1>1, <2>1, <2>2 DEF Opens
<1>3. CASE CheckSlashing \/ WithdrawAllRewards \/ Delegate \/ Undelegate
             \/ WithdrawDelegatorReward \/ BankSend
  BY <1>1, <1>3 DEF CheckSlashing, WithdrawAllRewards, Delegate, Undelegate,
     WithdrawDelegatorReward, BankSend, Handling, Opens
<1>4. QED
  BY <1>2, <1>3, OpenedBond, OpenedReceive, OpenedWithdraw, OpenedToken, OpenedPause, OpenedAdd,
     OpenedRemove, OpenedProxy, OpenedRedelegate DEF Handled, HubHandler, ChainHandler

-----------------------------------------------------------------------------
(***************************************************************************)
(* Every step.                                                             *)
(***************************************************************************)
\* What is carried out takes a transaction from one stage to another.
LEMMA HandledStep ==
  ASSUME Typed, Typed', Stage, Handled
  PROVE  Stage'
<1>1. queue # <<>>
  BY HandlerOf
<1>2. QED
  BY <1>1, OpenedStep, SettlingStep, DispatchingStep, BondingStep, RemovingStep DEF Stage

\* A transaction begins with what can be signed.
LEMMA SignedStage ==
  ASSUME NEW m \in Signed
  PROVE  \/ m \in Weightless /\ m \in Leaves
         \/ m \in Dispatches
         \/ m \in Messages /\ Opens(m)
<1>1. m \in Messages
  BY SignedMessages
<1>2. Payments \subseteq Nat \ {0} /\ Amounts \subseteq Nat \ {0}
  BY ProtocolAssumption
<1>3. CASE m.type \in {"WithdrawDelegatorReward", "BankSend", "Mint", "Burn", "CheckSlashing"}
  BY <1>1, <1>3 DEF Weightless, Leaves, LeafTypes
<1>4. CASE m.type = "WithdrawAndDispatch"
  BY <1>1, <1>4 DEF Signed, Dispatches
<1>5. CASE m.type = "RedelegateProxy"
  <2>1. m.redelegations \in {<<>>} \union {<<<<v, n>>>> : v \in Validators, n \in Amounts}
    BY <1>5 DEF Signed
  <2>2. m.redelegations = <<>> \/ \E p \in NonzeroPairs : m.redelegations = <<p>>
    BY <1>2, <2>1 DEF NonzeroPairs
  <2>3. QED
    BY <1>1, <1>5, <2>2 DEF Opens
<1>6. CASE m.type \in {"BondForStAtom", "BondRewards", "DispatchRewards"}
  <2>1. /\ m.type = "BondForStAtom" => m.amount \in Payments
        /\ m.type \in {"BondRewards", "DispatchRewards"} => m.sender \in Users
    BY <1>6 DEF Signed
  <2>2. QED
    BY <1>1, <1>2, <1>6, <2>1 DEF Opens
<1>7. CASE m.type \in {"Receive", "WithdrawUnbonded", "Transfer", "TransferFrom", "Send",
                       "SendFrom", "BurnFrom", "IncreaseAllowance", "DecreaseAllowance",
                       "PauseContracts", "UnpauseContracts", "AddValidator", "RemoveValidator"}
  BY <1>1, <1>7 DEF Opens
<1>8. QED
  BY <1>3, <1>4, <1>5, <1>6, <1>7 DEF Signed

LEMMA SubmittedStep ==
  ASSUME Typed, Typed', NEW m \in Signed, Submit(m)
  PROVE  Stage'
<1>1. /\ queue' = <<m>> /\ work' = work /\ committed' = committed /\ work = committed
      /\ work' \in Worlds
  BY DEF Submit, Idle, Typed, WorldOK
<1>2. Reg(work') = Reg(committed')
  BY <1>1
<1>3. CASE m \in Weightless /\ m \in Leaves
  <2>1. <<m>> \in Seq(Weightless) /\ <<m>> \in Seq(Leaves)
    BY <1>3
  <2>2. Reached(Reg(committed'), Reg(work'))
    BY <1>2 DEF Reached
  <2>3. QED
    BY <1>1, <2>1, <2>2, AllReached
<1>4. CASE m \in Dispatches
  <2>1. Ahead(work', <<>>) = Reg(work')
    BY <1>1, Nothing, AheadNothing
  <2>2. Prepared(Reg(committed'), Ahead(work', <<>>))
    BY <1>2, <2>1 DEF Prepared
  <2>3. queue' = <<>> \o <<m>>
    <3>1. <<>> \o <<m>> = <<m>>
      OBVIOUS
    <3>2. QED
      BY <1>1, <3>1
  <2>4. QED
    BY <1>4, <2>2, <2>3, Nothing DEF Dispatching, Stage
<1>5. CASE m \in Messages /\ Opens(m)
  BY <1>1, <1>2, <1>5 DEF Opened, Stage
<1>6. QED
  BY <1>3, <1>4, <1>5, SignedStage

\* Between transactions nothing is ahead.
LEMMA BetweenStep ==
  ASSUME Typed', Commit \/ Abort \/ ChainStep
  PROVE  Stage'
<1>1. work' \in Worlds
  BY DEF Typed, WorldOK
<1>2. queue' = <<>> /\ committed' = work'
  BY DEF Commit, Abort, ChainStep, EndBlock, SlashStake, SlashEntry, Reward,
     RedelegationCompletes, Happens, Idle
<1>3. QED
  BY <1>1, <1>2, NothingReached

LEMMA StutteringStep ==
  ASSUME Stage, UNCHANGED vars
  PROVE  Stage'
<1>1. queue' = queue /\ work' = work /\ committed' = committed
  BY DEF vars
<1>2. Opened => Opened'
  BY <1>1 DEF Opened
<1>3. Settling => Settling'
  BY <1>1 DEF Settling
<1>4. Dispatching => Dispatching'
  BY <1>1 DEF Dispatching
<1>5. Bonding => Bonding'
  BY <1>1 DEF Bonding
<1>6. Removing => Removing'
  BY <1>1 DEF Removing, ProxyFor, PairsFor
<1>7. QED
  BY <1>2, <1>3, <1>4, <1>5, <1>6 DEF Stage

LEMMA StageStep ==
  ASSUME Typed, Typed', Stage, [Next]_vars
  PROVE  Stage'
  BY StutteringStep, SubmittedStep, BetweenStep, HandledStep DEF Next, Handled

LEMMA StageInit ==
  ASSUME Init
  PROVE  Stage
<1>1. queue = <<>> /\ work = committed /\ work \in Worlds
  BY TypedInit DEF Init, Typed, WorldOK
<1>2. Ahead(work, <<>>) = Reg(work)
  BY <1>1, Nothing, AheadNothing
<1>3. Settling
  BY <1>1, <1>2, Nothing DEF Settling, Reached
<1>4. QED
  BY <1>3 DEF Stage

-----------------------------------------------------------------------------
(***************************************************************************)
(* Module Registry is implemented.                                         *)
(***************************************************************************)
\* With nothing to come, what was reached is committed.
LEMMA CommitIsStep ==
  ASSUME Typed, Typed', Bounded, Bounded', Stage, Commit
  PROVE  RegistryStep
<1>1. queue = <<>> /\ committed' = work /\ work \in Worlds
  BY DEF Commit, Typed, WorldOK
<1>2. Settling
  <2>1. ~Opened
    BY <1>1 DEF Opened
  <2>2. ASSUME NEW ls \in Seq(Leaves), NEW d
        PROVE  ls \o <<d>> # <<>>
    OBVIOUS
  <2>3. ~Dispatching
    BY <1>1, <2>2 DEF Dispatching
  <2>4. ASSUME NEW ls \in Seq(Leaves), NEW d
        PROVE  <<d>> \o ls # <<>>
    OBVIOUS
  <2>5. ~Bonding
    BY <1>1, <2>4 DEF Bonding
  <2>6. ~Removing
    BY <1>1 DEF Removing
  <2>7. QED
    BY <2>1, <2>3, <2>5, <2>6 DEF Stage
<1>3. Ahead(work, queue) = Reg(work)
  BY <1>1, Nothing, AheadNothing
<1>4. Reached(Reg(committed), Reg(committed'))
  BY <1>1, <1>2, <1>3 DEF Settling
<1>5. QED
  BY <1>4, ReachedIsStep

\* The chain slashes a validator, or completes a redelegation, as it does in
\* module Registry; the rest is none of its business.
LEMMA ChainIsStep ==
  ASSUME Typed, ChainStep
  PROVE  RegistryStep
<1>1. work = committed /\ work \in Worlds
  BY DEF ChainStep, EndBlock, SlashStake, SlashEntry, Reward, RedelegationCompletes, Happens,
     Idle, Typed, WorldOK
<1>2. CASE EndBlock
  <2>1. /\ committed'.registry = committed.registry
        /\ committed'.delegation = committed.delegation
        /\ committed'.receiving = committed.receiving
        /\ committed'.params = committed.params
    BY <1>1, <1>2 DEF EndBlock, Happens, Worlds
  <2>2. QED
    BY <2>1 DEF RegistryStep, R!vars
<1>3. ASSUME NEW v \in Validators, NEW loss \in Losses, SlashStake(v, loss)
      PROVE  R!Next
  <2>1. /\ committed'.registry = committed.registry
        /\ committed'.delegation = [committed.delegation EXCEPT ![v] = @ - loss]
        /\ committed'.receiving = committed.receiving
        /\ committed'.params = committed.params
        /\ loss < committed.delegation[v]
    BY <1>1, <1>3 DEF SlashStake, Happens, Worlds
  <2>2. R!Slash(v, loss)
    BY <2>1 DEF R!Slash
  <2>3. QED
    BY <2>2 DEF R!Next
<1>4. ASSUME NEW v \in Validators, RedelegationCompletes(v)
      PROVE  R!Next
  <2>1. /\ committed'.registry = committed.registry
        /\ committed'.delegation = committed.delegation
        /\ committed'.receiving = committed.receiving \ {v}
        /\ committed'.params = committed.params
    BY <1>1, <1>4 DEF RedelegationCompletes, Happens, Worlds
  <2>2. R!RedelegationCompletes(v)
    BY <2>1 DEF R!RedelegationCompletes
  <2>3. QED
    BY <2>2 DEF R!Next
<1>5. ASSUME NEW v \in Validators, NEW t \in 0..MaxTime, NEW loss \in Losses,
             SlashEntry(v, t, loss)
      PROVE  UNCHANGED R!vars
  BY <1>1, <1>5 DEF SlashEntry, Happens, Worlds, R!vars
<1>6. ASSUME NEW v \in Validators, Reward(v, 1)
      PROVE  UNCHANGED R!vars
  BY <1>1, <1>6 DEF Reward, Happens, Worlds, R!vars
<1>7. QED
  BY <1>2, <1>3, <1>4, <1>5, <1>6 DEF ChainStep, RegistryStep

LEMMA EveryStep ==
  ASSUME Typed, Typed', Bounded, Bounded', Stage, [Next]_vars
  PROVE  RegistryStep
<1>1. CASE UNCHANGED vars \/ Abort \/ \E m \in Signed : Submit(m)
  <2>1. committed' = committed
    BY <1>1 DEF vars, Abort, Submit
  <2>2. QED
    BY <2>1 DEF RegistryStep, R!vars
<1>2. CASE Handled
  <2>1. committed' = committed
    BY <1>2, HandlerOf
  <2>2. QED
    BY <2>1 DEF RegistryStep, R!vars
<1>3. QED
  BY <1>1, <1>2, CommitIsStep, ChainIsStep DEF Next, Handled

\* Every transaction, from the signed message to the last message it causes, is
\* to the validators a bond, an undelegation, an addition, a removal with all
\* that it moves and bonds, a redelegation by the owner or a pause, or nothing:
\* what remove_validator and execute_bond, execute_unbond and
\* execute_dispatch_rewards leave to messages adds up to what module Registry
\* says of them in one step, for every number of validators and however the
\* transactions are cut off.
THEOREM RegistryImplemented ==
  Spec => ImplementsRegistry
<1> DEFINE Inv == Typed /\ Bounded /\ Stage
<1>1. Init => Inv /\ R!Init
  <2>1. Init => R!Init
    BY DEF Init, R!Init
  <2>2. QED
    BY <2>1, TypedInit, BoundedInit, StageInit
<1>2. Inv /\ [Next]_vars => Inv'
  BY TypedStep, BoundedStep, StageStep
<1>3. Inv /\ Inv' /\ [Next]_vars => [R!Next]_(R!vars)
  BY EveryStep DEF RegistryStep
<1> HIDE DEF Inv
<1>4. QED
  BY <1>1, <1>2, <1>3, PTL DEF Spec, ImplementsRegistry, R!Spec

-----------------------------------------------------------------------------
(***************************************************************************)
(* A dispatch takes all the rewards.                                       *)
(***************************************************************************)
LEMMA DispatchedType ==
  ASSUME NEW w \in Worlds
  PROVE  /\ w.coins["dispatcher"] \in Nat /\ SumOver(w.rewards, Validators) \in Nat
         /\ Undispatched(w) = w.coins["dispatcher"] + SumOver(w.rewards, Validators)
         /\ Undispatched(w) \in Nat /\ Fees(w) = w.coins["fees"] /\ Fees(w) \in Nat
         /\ Staked(w) = SumOver(w.delegation, Validators) /\ Staked(w) \in Nat
<1>1. w.coins["dispatcher"] \in Nat /\ w.coins["fees"] \in Nat
  BY DEF Worlds, Accounts
<1>2. QED
  BY <1>1, CoinsType DEF Undispatched, Fees

\* What the chain pays out it pays to the dispatcher.
LEMMA PaidToDispatcher ==
  ASSUME NEW w \in Worlds, NEW S \in SUBSET Validators
  PROVE  LET paid == PaidOut(w, S)
         IN  /\ paid.coins["dispatcher"] + SumOver(paid.rewards, Validators) = Undispatched(w)
             /\ \A a \in Accounts : a # "dispatcher" => paid.coins[a] = w.coins[a]
             /\ paid.coins \in [Accounts -> Nat]
             /\ \A v \in Validators : paid.rewards[v] = IF v \in S THEN 0 ELSE w.rewards[v]
<1> DEFINE coins == PaidOut(w, S).coins
           rewards == PaidOut(w, S).rewards
<1>1. /\ coins = [w.coins EXCEPT !["dispatcher"] = @ + SumOver(w.rewards, S)]
      /\ \A v \in Validators : rewards[v] = IF v \in S THEN 0 ELSE w.rewards[v]
  <2>1. /\ coins = [w.coins EXCEPT !["dispatcher"] = @ + SumOver(w.rewards, S)]
        /\ rewards = [v \in Validators |-> IF v \in S THEN 0 ELSE w.rewards[v]]
    BY PaidOutFields
  <2> HIDE DEF coins, rewards
  <2>2. QED
    BY <2>1
<1>2. /\ coins \in [Accounts -> Nat] /\ rewards \in [Validators -> Nat]
      /\ SumOver(coins, Accounts) + SumOver(rewards, Validators)
           = SumOver(w.coins, Accounts) + SumOver(w.rewards, Validators)
  BY PaidOutSum
<1>3. w.coins \in [Accounts -> Nat]
  BY DEF Worlds
<1> HIDE DEF coins, rewards
<1>4. Differ(w.coins, coins, Accounts, "dispatcher")
  BY <1>1, <1>2, <1>3, AccountsFinite DEF Differ
<1>5. /\ SumOver(coins, Accounts) + w.coins["dispatcher"]
           = SumOver(w.coins, Accounts) + coins["dispatcher"]
      /\ SumOver(coins, Accounts) \in Nat /\ SumOver(w.coins, Accounts) \in Nat
      /\ coins["dispatcher"] \in Nat /\ w.coins["dispatcher"] \in Nat
  BY <1>4, AccountsFinite, SumDiffers
<1>6. SumOver(rewards, Validators) \in Nat /\ SumOver(w.rewards, Validators) \in Nat
  BY <1>2, AccountsFinite, SumOverType, DispatchedType
<1>7. coins["dispatcher"] + SumOver(rewards, Validators) = Undispatched(w)
  BY <1>2, <1>5, <1>6, DispatchedType
<1>8. QED
  BY <1>1, <1>2, <1>4, <1>7 DEF coins, rewards, Differ

\* Nothing is dispatched, and what is to be is still there.
AllKept ==
  /\ Fees(work') = Fees(work) /\ Staked(work') = Staked(work)
  /\ Undispatched(work') = Undispatched(work)

LEMMA BooksKeepAll ==
  ASSUME CoinsKept
  PROVE  AllKept
  BY DEF CoinsKept, AllKept, Fees, Staked, Undispatched

LEMMA FeesApart ==
  /\ "fees" \in Accounts /\ "fees" \notin Users /\ "fees" # "dispatcher" /\ "fees" # "hub"
  /\ "dispatcher" \notin Users /\ "hub" \notin Users /\ Users \subseteq Accounts
  BY ProtocolAssumption DEF Accounts, Contracts

LEMMA RedelegateKeepsAll ==
  ASSUME Typed, Redelegate
  PROVE  AllKept
<1> DEFINE u == Message.src
           v == Message.validator
           n == Message.amount
           S == {u, v}
<1>1. /\ u \in Validators /\ v \in Validators /\ n \in Nat /\ n <= work.delegation[u]
      /\ work'.coins = PaidOut(work, S).coins /\ work'.rewards = PaidOut(work, S).rewards
      /\ work'.delegation = Moved(work.delegation, u, v, n)
  BY RedelegateEffect
<1>2. work \in Worlds /\ S \in SUBSET Validators
  BY <1>1 DEF Typed, WorldOK
<1>3. CanMove(work.delegation, Validators, u, v, n)
  BY <1>1, <1>2 DEF CanMove, Worlds
<1> HIDE DEF S, u, v, n
<1>4. SumOver(work'.delegation, Validators) = SumOver(work.delegation, Validators)
  BY <1>1, <1>3, AccountsFinite, MovedSum
<1>5. /\ work'.coins["dispatcher"] + SumOver(work'.rewards, Validators) = Undispatched(work)
      /\ work'.coins["fees"] = work.coins["fees"]
  BY <1>1, <1>2, PaidToDispatcher, FeesApart
<1>6. QED
  BY <1>4, <1>5 DEF AllKept, Fees, Staked, Undispatched

LEMMA WithdrawKeepsAll ==
  ASSUME Typed, WithdrawDelegatorReward
  PROVE  /\ AllKept
         /\ \A v \in Validators :
              work'.rewards[v] = IF v = Message.validator THEN 0 ELSE work.rewards[v]
<1> DEFINE u == Message.validator
           S == {u}
<1>1. /\ u \in Validators
      /\ work'.coins = PaidOut(work, S).coins /\ work'.rewards = PaidOut(work, S).rewards
      /\ work'.delegation = work.delegation
  BY WithdrawEffect DEF StakeKept
<1>2. work \in Worlds /\ S \in SUBSET Validators
  BY <1>1 DEF Typed, WorldOK
<1>3. \A v : v \in S <=> v = u
  OBVIOUS
<1> HIDE DEF S, u
<1>5. /\ work'.coins["dispatcher"] + SumOver(work'.rewards, Validators) = Undispatched(work)
      /\ work'.coins["fees"] = work.coins["fees"]
      /\ \A v \in Validators : work'.rewards[v] = IF v \in S THEN 0 ELSE work.rewards[v]
  BY <1>1, <1>2, PaidToDispatcher, FeesApart
<1>6. QED
  BY <1>1, <1>3, <1>5 DEF AllKept, Fees, Staked, Undispatched, u

-----------------------------------------------------------------------------
(***************************************************************************)
(* How far a transaction has come, as far as the rewards are concerned.    *)
(***************************************************************************)
\* What a dispatch leaves of world a when it has come to b.
AllTaken(a, b) ==
  LET fee == Times(Undispatched(a), FeeRate)
  IN  /\ Undispatched(b) = 0
      /\ Fees(b) - Fees(a) = fee
      /\ Staked(b) - Staked(a) = Undispatched(a) - fee

\* Messages that neither delegate nor pay a fee, and cause none that do.
Plain ==
  {m \in Messages :
     /\ m.type \notin {"Delegate", "BondForStAtom", "WithdrawAndDispatch", "RemoveValidator"}
     /\ m.type \in {"BondRewards", "DispatchRewards"} => m.sender \in Users
     /\ m.type = "BankSend" => m.to # "fees"}

\* Nothing is delegated, and no fee is paid.
Idling ==
  /\ queue \in Seq(Plain)
  /\ Fees(work) = Fees(committed)
  /\ Staked(work) <= Staked(committed)

\* A bond or a removal has been signed.
Signing ==
  \E m \in Messages :
    /\ queue = <<m>> /\ work = committed
    /\ m.type \in {"BondForStAtom", "RemoveValidator"}
    /\ m.type = "BondForStAtom" => m.amount # 0

\* A user has paid for what is delegated.
Paid == {m \in Messages : m.type \in {"Delegate", "Mint"}}

Paying ==
  /\ queue \in Seq(Paid)
  /\ Fees(work) = Fees(committed)
  /\ \E u \in Users : work.coins[u] # committed.coins[u]

\* All rewards there were are still with the validators or the dispatcher.
AllThere ==
  /\ Fees(work) = Fees(committed) /\ Staked(work) = Staked(committed)
  /\ Undispatched(work) = Undispatched(committed)

\* What has been signed, or is left of a removal, ends with a dispatch.
Proxied == {m \in Messages : m.type \in {"RedelegateProxy", "Redelegate"}}

Preparing ==
  /\ \E ls \in Seq(Proxied) : queue = ls \o <<[type |-> "WithdrawAndDispatch"]>>
  /\ AllThere

\* Every validator that owes rewards is still to be asked for them.
WithdrawalOf(v) == [type |-> "WithdrawDelegatorReward", validator |-> v]
Withdrawals == {WithdrawalOf(v) : v \in Validators}

Withdrawing ==
  \E ls \in Seq(Withdrawals) :
    /\ queue = ls \o <<[type |-> "DispatchRewards", sender |-> "hub"]>>
    /\ AllThere
    /\ \A v \in Validators :
         work.rewards[v] > 0 => \E i \in 1..Len(ls) : ls[i] = WithdrawalOf(v)

\* The rewards are split; the hub has still to bond its part, and the fee
\* waits behind that.
NoRewards == \A v \in Validators : work.rewards[v] = 0
FeeOf(w) == Times(Undispatched(w), FeeRate)
ToFees(n) ==
  IF n = 0 THEN <<>>
  ELSE <<[type |-> "BankSend", sender |-> "dispatcher", to |-> "fees", amount |-> n]>>

Splitting ==
  /\ queue = <<RewardsBond(Undispatched(committed) - FeeOf(committed))>> \o ToFees(FeeOf(committed))
  /\ NoRewards
  /\ FeeOf(committed) <= Undispatched(committed)
  /\ AllThere

\* What is delegated and what is still to be are the part of the hub.
AmountOf == [m \in ToDelegate |-> m.amount]

Delegating ==
  \E ls \in Seq(ToDelegate) :
    /\ queue = ls \o ToFees(FeeOf(committed))
    /\ NoRewards
    /\ FeeOf(committed) <= Undispatched(committed)
    /\ work.coins["dispatcher"] = FeeOf(committed)
    /\ Fees(work) = Fees(committed)
    /\ Staked(work) + Due(ls, AmountOf)
         = Staked(committed) + (Undispatched(committed) - FeeOf(committed))

Dispatched == queue = <<>> /\ AllTaken(committed, work)

Taking ==
  \/ Idling \/ Signing \/ Paying
  \/ Preparing \/ Withdrawing \/ Splitting \/ Delegating \/ Dispatched

\* Rewards are owed by validators that have a delegation, whom a dispatch asks.
Earning(w) == \A v \in Validators : w.rewards[v] > 0 => w.delegation[v] > 0
Earned == Earning(work) /\ Earning(committed)

LEMMA EarnedHandled ==
  ASSUME Typed, Earned, Handled
  PROVE  Earning(work')
<1>1. Earning(work) /\ work \in Worlds
  BY DEF Earned, Typed, WorldOK
<1>2. \A v \in Validators : work.delegation[v] \in Nat /\ work.rewards[v] \in Nat
  BY <1>1 DEF Worlds
<1>3. CASE work'.delegation = work.delegation /\ work'.rewards = work.rewards
  BY <1>1, <1>3 DEF Earning
<1>4. CASE BookKeeping \/ SetPaused \/ AddValidator \/ RemoveValidator
  BY <1>3, <1>4, BooksOnly, PausedOnly, RegistryOnly DEF CoinsKept
<1>5. CASE Bond
  BY <1>3, <1>5, BondCoins DEF StakeKept
<1>6. CASE BankSend
  BY <1>3, <1>6, BankSendEffect DEF StakeKept
<1>7. CASE WithdrawDelegatorReward
  <2>1. work'.delegation = work.delegation
    BY <1>7, WithdrawEffect DEF StakeKept
  <2>2. \A v \in Validators :
          work'.rewards[v] = IF v = Message.validator THEN 0 ELSE work.rewards[v]
    BY <1>7, WithdrawKeepsAll
  <2>3. QED
    BY <1>1, <2>1, <2>2 DEF Earning
<1>8. CASE Delegate
  <2> DEFINE u == Message.validator
             n == Message.amount
             S == {u}
  <2>1. /\ u \in Validators /\ n \in Nat
        /\ work'.rewards = PaidOut(work, S).rewards
        /\ work'.delegation = [work.delegation EXCEPT ![u] = @ + n]
    BY <1>8, DelegateEffect
  <2>2. \A v : v \in S <=> v = u
    OBVIOUS
  <2>3. S \in SUBSET Validators
    BY <2>1
  <2> HIDE DEF S, u, n
  <2>4. \A v \in Validators : work'.rewards[v] = IF v \in S THEN 0 ELSE work.rewards[v]
    BY <1>1, <2>1, <2>3, PaidToDispatcher
  <2>5. \A v \in Validators : v # u => work'.delegation[v] = work.delegation[v]
    BY <1>1, <2>1 DEF Worlds
  <2>6. QED
    BY <1>1, <2>2, <2>4, <2>5 DEF Earning
<1>9. CASE Undelegate
  <2> DEFINE u == Message.validator
             n == Message.amount
             S == {u}
  <2>1. /\ u \in Validators /\ n \in Nat
        /\ work'.rewards = PaidOut(work, S).rewards
        /\ work'.delegation = [work.delegation EXCEPT ![u] = @ - n]
    BY <1>9, UndelegateEffect
  <2>2. \A v : v \in S <=> v = u
    OBVIOUS
  <2>3. S \in SUBSET Validators
    BY <2>1
  <2> HIDE DEF S, u, n
  <2>4. \A v \in Validators : work'.rewards[v] = IF v \in S THEN 0 ELSE work.rewards[v]
    BY <1>1, <2>1, <2>3, PaidToDispatcher
  <2>5. \A v \in Validators : v # u => work'.delegation[v] = work.delegation[v]
    BY <1>1, <2>1 DEF Worlds
  <2>6. QED
    BY <1>1, <2>2, <2>4, <2>5 DEF Earning
<1>10. CASE Redelegate
  <2> DEFINE u == Message.src
             t == Message.validator
             n == Message.amount
             S == {u, t}
  <2>1. /\ u \in Validators /\ t \in Validators /\ n \in Nat
        /\ work'.rewards = PaidOut(work, S).rewards
        /\ work'.delegation = Moved(work.delegation, u, t, n)
    BY <1>10, RedelegateEffect
  <2>2. \A v : v \in S <=> v = u \/ v = t
    OBVIOUS
  <2>3. S \in SUBSET Validators
    BY <2>1
  <2> HIDE DEF S, u, n, t
  <2>4. \A v \in Validators : work'.rewards[v] = IF v \in S THEN 0 ELSE work.rewards[v]
    BY <1>1, <2>1, <2>3, PaidToDispatcher
  <2>5. \A v \in Validators : v # u /\ v # t => work'.delegation[v] = work.delegation[v]
    BY <1>1, <2>1 DEF Worlds, Moved
  <2>6. QED
    BY <1>1, <2>2, <2>4, <2>5 DEF Earning
<1>11. QED
  BY <1>4, <1>5, <1>6, <1>7, <1>8, <1>9, <1>10
     DEF Handled, HubHandler, ChainHandler, BookKeeping

LEMMA EarnedBetween ==
  ASSUME Typed, Earned, ChainStep
  PROVE  Earning(work')
<1>1. Earning(work) /\ work \in Worlds
  BY DEF Earned, Typed, WorldOK
<1>2. Losses \subseteq Nat
  BY ProtocolAssumption
<1>3. CASE EndBlock
  BY <1>1, <1>3 DEF EndBlock, Happens, Worlds, Earning
<1>4. ASSUME NEW v \in Validators, NEW loss \in Losses, SlashStake(v, loss)
      PROVE  Earning(work')
  <2>1. /\ work'.rewards = work.rewards
        /\ work'.delegation = [work.delegation EXCEPT ![v] = @ - loss]
        /\ loss < work.delegation[v]
    BY <1>1, <1>4 DEF SlashStake, Happens, Worlds
  <2>2. work.delegation \in [Validators -> Nat] /\ loss \in Nat
    BY <1>1, <1>2 DEF Worlds
  <2>3. QED
    BY <1>1, <2>1, <2>2 DEF Earning
<1>5. ASSUME NEW v \in Validators, NEW t \in 0..MaxTime, NEW loss \in Losses,
             SlashEntry(v, t, loss)
      PROVE  Earning(work')
  BY <1>1, <1>5 DEF SlashEntry, Happens, Worlds, Earning
<1>6. ASSUME NEW v \in Validators, Reward(v, 1)
      PROVE  Earning(work')
  <2>1. /\ work'.rewards = [work.rewards EXCEPT ![v] = @ + 1]
        /\ work'.delegation = work.delegation
        /\ work.delegation[v] > 0
    BY <1>1, <1>6 DEF Reward, Happens, Worlds
  <2>2. work.rewards \in [Validators -> Nat]
    BY <1>1 DEF Worlds
  <2>3. QED
    BY <1>1, <2>1, <2>2 DEF Earning
<1>7. ASSUME NEW v \in Validators, RedelegationCompletes(v)
      PROVE  Earning(work')
  BY <1>1, <1>7 DEF RedelegationCompletes, Happens, Worlds, Earning
<1>8. QED
  BY <1>3, <1>4, <1>5, <1>6, <1>7 DEF ChainStep

LEMMA EarnedStep ==
  ASSUME Typed, Earned, [Next]_vars
  PROVE  Earned'
<1>1. CASE Handled
  <2>1. committed' = committed
    BY <1>1, HandlerOf
  <2>2. QED
    BY <1>1, <2>1, EarnedHandled DEF Earned
<1>2. CASE ChainStep
  <2>1. committed' = work'
    BY <1>2 DEF ChainStep, EndBlock, SlashStake, SlashEntry, Reward, RedelegationCompletes, Happens
  <2>2. QED
    BY <1>2, <2>1, EarnedBetween DEF Earned
<1>3. CASE Commit \/ Abort \/ UNCHANGED vars \/ \E m \in Signed : Submit(m)
  BY <1>3 DEF Commit, Abort, Submit, vars, Earned
<1>4. QED
  BY <1>1, <1>2, <1>3 DEF Next, Handled

-----------------------------------------------------------------------------
(***************************************************************************)
(* One stage after the other.                                              *)
(***************************************************************************)
LEMMA StillThere ==
  ASSUME Typed, AllThere, AllKept, committed' = committed
  PROVE  AllThere'
  BY DEF AllThere, AllKept

\* A handler that answers with plain messages, if it pays and delegates nothing.
LEMMA IdlingAnswer ==
  ASSUME Typed, Typed', Idling, NEW ms \in Seq(Plain), Answer(ms), queue # <<>>,
         Fees(work') = Fees(work), Staked(work') <= Staked(work)
  PROVE  Taking'
<1>1. Tail(queue) \in Seq(Plain) /\ queue' = ms \o Tail(queue) /\ committed' = committed
  BY DEF Idling, Answer
<1>2. queue' \in Seq(Plain)
  BY <1>1
<1>3. Staked(work') \in Nat /\ Staked(work) \in Nat /\ Staked(committed) \in Nat
  BY DispatchedType DEF Typed, WorldOK
<1>4. Staked(work') <= Staked(committed')
  BY <1>1, <1>3 DEF Idling
<1>5. QED
  BY <1>1, <1>2, <1>4 DEF Idling, Taking

LEMMA IdlingBooks ==
  ASSUME Typed, Typed', Idling, NEW ms \in Seq(Plain), Answer(ms), queue # <<>>, CoinsKept
  PROVE  Taking'
<1>1. AllKept /\ Staked(work) \in Nat
  BY BooksKeepAll, DispatchedType DEF Typed, WorldOK
<1>2. QED
  BY <1>1, IdlingAnswer DEF AllKept

LEMMA IdlingReceive ==
  ASSUME Typed, Typed', Idling, queue # <<>>, ReceiveUnbond
  PROVE  Taking'
<1> DEFINE burn == BurnOfHub(Message.amount)
           ms == UndelegateMessages(Claimed)
<1>1. /\ CoinsKept /\ Message.amount \in Nat /\ Claimed \in Nat
      /\ \/ Answer(<<burn>>)
         \/ /\ CanUndelegate(Claimed, RW!TotalsOf(RW!Descending(RW!Delegated, work.delegation),
                                                  work.delegation))
            /\ Answer(ms \o <<burn>>)
  BY ReceiveEffect
<1>2. <<burn>> \in Seq(Plain)
  <2>1. burn \in Plain
    BY <1>1 DEF BurnOfHub, Plain, Messages, ToToken, Holders
  <2> HIDE DEF burn
  <2>2. QED
    BY <2>1, SeqSingle
<1>3. ASSUME CanUndelegate(Claimed, RW!TotalsOf(RW!Descending(RW!Delegated, work.delegation),
                                                work.delegation))
      PROVE  ms \in Seq(Plain)
  <2>1. ms \in Seq(ToUndelegate)
    BY <1>1, <1>3, UndelegateMessagesType DEF ToUndelegate, Typed
  <2>2. ToUndelegate \subseteq Plain
    BY StakeMessages DEF ToUndelegate, Plain
  <2>3. QED
    BY <2>1, <2>2, SeqMonotone
<1> DEFINE bs == <<burn>>
<1> HIDE DEF ms, burn
<1>4. CASE Answer(bs)
  BY <1>1, <1>2, <1>4, IdlingBooks
<1>5. ASSUME ms \in Seq(Plain), Answer(ms \o bs)
      PROVE  Taking'
  <2>1. bs \in Seq(Plain)
    BY <1>2
  <2> HIDE DEF bs
  <2>2. ms \o bs \in Seq(Plain)
    BY <1>5, <2>1
  <2>3. QED
    BY <1>1, <1>5, <2>2, IdlingBooks
<1>6. QED
  BY <1>1, <1>3, <1>4, <1>5

LEMMA IdlingWithdraw ==
  ASSUME Typed, Typed', Idling, queue # <<>>, WithdrawUnbonded
  PROVE  Taking'
<1>1. CoinsKept
  BY BooksOnly DEF BookKeeping
<1>2. PICK n : Answer(<<[type |-> "BankSend", sender |-> "hub", to |-> Message.sender,
                         amount |-> n]>>)
  BY DEF WithdrawUnbonded
<1> DEFINE m == [type |-> "BankSend", sender |-> "hub", to |-> Message.sender, amount |-> n]
<1>3. Fields(Message) /\ Message.type = "WithdrawUnbonded"
  BY FirstMessage DEF WithdrawUnbonded, Handling
<1>4. m.to # "fees" /\ m.type = "BankSend"
  BY <1>3, FeesApart DEF Fields
<1> HIDE DEF m
<1>5. m \in Messages
  <2>1. queue' = <<m>> \o Tail(queue) /\ Tail(queue) \in Seq(Messages) /\ queue' \in Seq(Messages)
    BY <1>2 DEF Answer, m, Typed
  <2>2. Head(<<m>> \o Tail(queue)) = m /\ <<m>> \o Tail(queue) # <<>>
    BY <2>1
  <2>3. QED
    BY <2>1, <2>2
<1>6. m \in Plain
  BY <1>4, <1>5 DEF Plain
<1>7. <<m>> \in Seq(Plain)
  BY <1>6
<1>8. QED
  BY <1>1, <1>2, <1>7, IdlingBooks DEF m

\* The token and the hub's checks.
LEMMA IdlingToken ==
  ASSUME Typed, Typed', Idling, queue # <<>>, TokenHandler \/ CheckSlashing
  PROVE  Taking'
<1>1. CoinsKept
  BY BooksOnly DEF BookKeeping
<1>2. <<>> \in Seq(Plain)
  OBVIOUS
<1>3. CASE Mint \/ IncreaseAllowance \/ DecreaseAllowance \/ Transfer \/ CheckSlashing
  <2>1. Answer(<<>>)
    BY <1>3 DEF Mint, IncreaseAllowance, DecreaseAllowance, Transfer, CheckSlashing
  <2>2. QED
    BY <1>1, <1>2, <2>1, IdlingBooks
<1>4. CASE Burn
  <2>1. Answer(CheckMessages(Message))
    BY <1>4 DEF Burn
  <2>2. [type |-> "CheckSlashing"] \in Plain
    BY DEF Plain, Messages, ToHub
  <2>3. CheckMessages(Message) \in Seq(Plain)
    BY <2>2 DEF CheckMessages
  <2>4. QED
    BY <1>1, <2>1, <2>3, IdlingBooks
<1>5. CASE Send
  <2> DEFINE m == [type |-> "Receive", sender |-> "token", user |-> Message.sender,
                   amount |-> Message.amount]
  <2>1. Answer(<<m>>) /\ Message.type \in {"Send", "SendFrom"}
    BY <1>5 DEF Send, ReceiveMessages, TokenOpen, Handling
  <2>2. Message.sender \in Users /\ Message.amount \in Nat
    BY <2>1, FirstMessage DEF Fields
  <2>3. m \in Plain
    BY <2>2 DEF Plain, Messages, ToHub
  <2> HIDE DEF m
  <2>4. <<m>> \in Seq(Plain)
    BY <2>3
  <2>5. QED
    BY <1>1, <2>1, <2>4, IdlingBooks
<1>6. QED
  BY <1>3, <1>4, <1>5 DEF TokenHandler

\* The owner.
LEMMA IdlingOwner ==
  ASSUME Typed, Typed', Idling, queue # <<>>, RedelegateProxy \/ SetPaused \/ AddValidator
  PROVE  Taking'
<1>1. CoinsKept
  BY BooksOnly, PausedOnly, RegistryOnly DEF BookKeeping
<1>2. <<>> \in Seq(Plain)
  OBVIOUS
<1>3. CASE SetPaused \/ AddValidator
  <2>1. Answer(<<>>)
    BY <1>3 DEF SetPaused, AddValidator
  <2>2. QED
    BY <1>1, <1>2, <2>1, IdlingBooks
<1>4. CASE RedelegateProxy
  <2> DEFINE ms == ProxyMessages(Message.src, Message.redelegations)
  <2>1. Answer(ms)
    BY <1>4 DEF RedelegateProxy, ProxyMessages, MoveOf
  <2>2. Message.src \in Validators /\ Message.redelegations \in Seq(Validators \X Nat)
    BY <1>4, FirstMessage DEF RedelegateProxy, Handling, Fields
  <2>3. ms \in Seq(ToRedelegate)
    BY <2>2, ProxyMessagesType DEF Pairs
  <2>4. ToRedelegate \subseteq Plain
    BY StakeMessages DEF ToRedelegate, Plain
  <2> HIDE DEF ms
  <2>5. ms \in Seq(Plain)
    BY <2>3, <2>4, SeqMonotone
  <2>6. QED
    BY <1>1, <2>1, <2>5, IdlingBooks
<1>5. QED
  BY <1>3, <1>4

\* The chain, when it does not delegate.
LEMMA IdlingChain ==
  ASSUME Typed, Typed', Idling, queue # <<>>, Message \in Plain,
         Undelegate \/ Redelegate \/ WithdrawDelegatorReward \/ BankSend
  PROVE  Taking'
<1>1. <<>> \in Seq(Plain) /\ work \in Worlds /\ Staked(work) \in Nat
  BY DispatchedType DEF Typed, WorldOK
<1>2. CASE Redelegate \/ WithdrawDelegatorReward
  <2>1. AllKept
    BY <1>2, RedelegateKeepsAll, WithdrawKeepsAll
  <2>2. Answer(<<>>)
    BY <1>2 DEF Redelegate, WithdrawDelegatorReward
  <2>3. Fees(work') = Fees(work) /\ Staked(work') <= Staked(work)
    BY <1>1, <2>1 DEF AllKept
  <2>4. QED
    BY <1>1, <2>2, <2>3, IdlingAnswer
<1>3. CASE Undelegate
  <2> DEFINE u == Message.validator
             n == Message.amount
             S == {u}
  <2>1. /\ u \in Validators /\ n \in Nat /\ n <= work.delegation[u]
        /\ work'.coins = PaidOut(work, S).coins
        /\ work'.delegation = [work.delegation EXCEPT ![u] = @ - n]
        /\ Answer(<<>>)
    BY <1>3, UndelegateEffect
  <2>2. S \in SUBSET Validators
    BY <2>1
  <2> HIDE DEF S, u, n
  <2>3. work'.coins["fees"] = work.coins["fees"]
    BY <1>1, <2>1, <2>2, PaidToDispatcher, FeesApart
  <2>4. work.delegation \in [Validators -> Nat]
    BY <1>1 DEF Worlds
  <2>5. Differ(work.delegation, work'.delegation, Validators, u)
        /\ work'.delegation[u] = work.delegation[u] - n
    BY <2>1, <2>4 DEF Differ
  <2> DEFINE d == work.delegation
             e == work'.delegation
  <2>6. /\ SumOver(d, Validators) \in Nat /\ SumOver(e, Validators) \in Nat
        /\ d[u] \in Nat /\ e[u] \in Nat
        /\ SumOver(e, Validators) + d[u] = SumOver(d, Validators) + e[u]
    BY <2>5, AccountsFinite, SumDiffers
  <2>7. e[u] = d[u] - n /\ n \in Nat
    BY <2>1, <2>5
  <2> HIDE DEF d, e
  <2>8. SumOver(e, Validators) <= SumOver(d, Validators)
    BY ONLY <2>6, <2>7
  <2>9. Fees(work') = Fees(work) /\ Staked(work') <= Staked(work)
    BY <2>3, <2>8 DEF Fees, Staked, d, e
  <2>10. QED
    BY <1>1, <2>1, <2>9, IdlingAnswer
<1>4. CASE BankSend
  <2>1. /\ Message.sender \in Accounts /\ Message.to \in Accounts /\ Message.amount \in Nat
        /\ work'.coins = Moved(work.coins, Message.sender, Message.to, Message.amount)
        /\ work'.delegation = work.delegation
        /\ Message.type = "BankSend" /\ Answer(<<>>)
    BY <1>4, BankSendEffect DEF StakeKept
  <2>2. Message.to # "fees"
    BY <2>1 DEF Plain
  <2>3. Message.sender # "fees"
    <3>1. Message.sender \in Users \union {"hub", "dispatcher"}
      BY <2>1, FirstMessage DEF Fields
    <3>2. QED
      BY <3>1, FeesApart
  <2> DEFINE c == work.coins
  <2>4. c \in [Accounts -> Nat]
    BY <1>1 DEF Worlds
  <2> HIDE DEF c
  <2>5. Moved(c, Message.sender, Message.to, Message.amount)["fees"] = c["fees"]
    BY <2>2, <2>3, <2>4, FeesApart DEF Moved
  <2>6. Fees(work') = Fees(work) /\ Staked(work') <= Staked(work)
    BY <1>1, <2>1, <2>5 DEF Fees, Staked, c
  <2>7. QED
    BY <1>1, <2>1, <2>6, IdlingAnswer
<1>5. QED
  BY <1>2, <1>3, <1>4

LEMMA IdlingStep ==
  ASSUME Typed, Typed', Idling, queue # <<>>, Handled
  PROVE  Taking'
<1>1. Message \in Plain
  BY DEF Idling, Message
<1>2. ~Bond
  <2>1. ASSUME Bond PROVE FALSE
    <3>1. Message.type \in {"BondForStAtom", "BondRewards"}
          /\ (Message.type = "BondRewards" => Message.sender = "dispatcher")
      BY <2>1 DEF Bond, Handling
    <3>2. QED
      BY <1>1, <3>1, FeesApart DEF Plain
  <2>2. QED
    BY <2>1
<1>3. ~DispatchRewards
  <2>1. ASSUME DispatchRewards PROVE FALSE
    <3>1. Message.type = "DispatchRewards" /\ Message.sender = "hub"
      BY <2>1 DEF DispatchRewards, Handling
    <3>2. QED
      BY <1>1, <3>1, FeesApart DEF Plain
  <2>2. QED
    BY <2>1
<1>4. ~RemoveValidator /\ ~WithdrawAllRewards /\ ~Delegate
  BY <1>1 DEF RemoveValidator, WithdrawAllRewards, Delegate, Handling, Plain
<1>5. QED
  BY <1>1, <1>2, <1>3, <1>4, IdlingReceive, IdlingWithdraw, IdlingToken, IdlingOwner, IdlingChain
     DEF Handled, HubHandler, ChainHandler

\* A user pays for a bond.
LEMMA SigningBond ==
  ASSUME Typed, Typed', Signing, Bond
  PROVE  Taking'
<1> DEFINE u == Message.sender
           n == Message.amount
           mint == [type |-> "Mint", sender |-> "hub", to |-> u,
                    amount |-> DecimalDivision(n, HW!ActualState.statom_exchange_rate)]
           ms == DelegateMessages(n)
<1>1. PICK m \in Messages :
        /\ queue = <<m>> /\ work = committed
        /\ m.type \in {"BondForStAtom", "RemoveValidator"}
        /\ m.type = "BondForStAtom" => m.amount # 0
  BY DEF Signing
<1>2. Message = m /\ queue # <<>> /\ Tail(queue) = <<>>
  BY <1>1 DEF Message
<1>3. Message.type = "BondForStAtom" /\ n # 0
  BY <1>1, <1>2 DEF Bond, Handling
<1>4. u \in Users
  BY <1>2, <1>3, FirstMessage DEF Fields
<1>5. /\ work'.coins = Moved(work.coins, u, "hub", n) /\ n \in Nat /\ n <= work.coins[u]
      /\ work.coins \in [Accounts -> Nat]
  BY BondCoins DEF Typed, WorldOK, Worlds
<1>6. CanDelegate(n, RW!TotalsOf(RW!Ascending(work.registry, work.delegation), work.delegation))
      /\ Answer(ms \o <<mint>>)
  BY <1>3 DEF Bond
<1>7. ms \in Seq(ToDelegate)
  BY <1>5, <1>6, DelegateMessagesType DEF ToDelegate, Typed
<1> HIDE DEF u, n
<1>8. work'.coins[u] # work.coins[u] /\ work'.coins["fees"] = work.coins["fees"]
  BY <1>3, <1>4, <1>5, FeesApart DEF Moved
<1>9. mint.type = "Mint"
  OBVIOUS
<1> HIDE DEF mint, ms
<1>10. ms \in Seq(Messages) /\ ms \in Seq(Paid)
  <2>1. ToDelegate \subseteq Paid
    BY StakeMessages DEF ToDelegate, Paid
  <2>2. QED
    BY <1>7, <2>1, StakeMessages, SeqMonotone
<1>11. queue' = (ms \o <<mint>>) \o <<>> /\ committed' = committed
  BY <1>2, <1>6 DEF Answer
<1>12. queue' \in Seq(Messages)
  BY DEF Typed
<1>13. mint \in Messages /\ queue' = ms \o <<mint>>
  <2>1. Len(ms) \in Nat /\ queue'[Len(ms) + 1] = mint /\ Len(queue') = Len(ms) + 1
        /\ queue' = ms \o <<mint>>
    BY <1>10, <1>11
  <2>2. queue'[Len(ms) + 1] \in Messages
    BY <1>12, <2>1
  <2>3. QED
    BY <2>1, <2>2
<1>14. mint \in Paid
  BY <1>9, <1>13 DEF Paid
<1>15. queue' \in Seq(Paid)
  BY <1>10, <1>13, <1>14
<1>16. Paying'
  BY <1>1, <1>4, <1>8, <1>11, <1>15 DEF Paying, Fees
<1>17. QED
  BY <1>16 DEF Taking

\* A validator is removed.
LEMMA SigningRemove ==
  ASSUME Typed, Typed', Signing, RemoveValidator
  PROVE  Taking'
<1>1. PICK m \in Messages : queue = <<m>> /\ work = committed
  BY DEF Signing
<1>2. Tail(queue) = <<>>
  BY <1>1
<1>3. CoinsKept
  BY RegistryOnly
<1>4. AllKept
  BY <1>3, BooksKeepAll
<1>5. PICK p : \/ Answer(<<>>)
               \/ /\ p.type = "RedelegateProxy"
                  /\ Answer(<<p, [type |-> "WithdrawAndDispatch"]>>)
  <2> DEFINE proxy == [type |-> "RedelegateProxy", sender |-> "registry",
                       src |-> Message.validator, redelegations |-> ProxyFor(Message.validator)]
  <2>1. ASSUME NEW redelegations
        PROVE  [type |-> "RedelegateProxy", sender |-> "registry", src |-> Message.validator,
                redelegations |-> redelegations].type = "RedelegateProxy"
    OBVIOUS
  <2>2. QED
    BY <2>1 DEF RemoveValidator
<1>6. Staked(work') \in Nat /\ Fees(work') \in Nat
  BY DispatchedType DEF Typed, WorldOK
<1>7. CASE Answer(<<>>)
  <2>1. queue' = <<>> \o <<>> /\ committed' = committed
    BY <1>2, <1>7 DEF Answer
  <2>2. <<>> \o <<>> = <<>> /\ <<>> \in Seq(Plain)
    OBVIOUS
  <2>3. queue' = <<>>
    BY <2>1, <2>2
  <2>4. Fees(work') = Fees(committed') /\ Staked(work') <= Staked(committed')
    BY <1>1, <1>4, <1>6, <2>1 DEF AllKept
  <2>5. Idling'
    BY <2>2, <2>3, <2>4 DEF Idling
  <2>6. QED
    BY <2>5 DEF Taking
<1>8. CASE p.type = "RedelegateProxy" /\ Answer(<<p, [type |-> "WithdrawAndDispatch"]>>)
  <2> DEFINE d == [type |-> "WithdrawAndDispatch"]
  <2>1. queue' = <<p, d>> \o <<>> /\ committed' = committed
    BY <1>2, <1>8 DEF Answer
  <2> HIDE DEF d
  <2>2. <<p, d>> \o <<>> = <<p, d>> /\ <<p, d>> = <<p>> \o <<d>>
    OBVIOUS
  <2>3. queue' = <<p, d>> /\ queue' = <<p>> \o <<d>>
    BY <2>1, <2>2
  <2>4. p \in Messages
    <3>1. queue' \in Seq(Messages)
      BY DEF Typed
    <3>2. QED
      BY <2>3, <3>1
  <2>5. <<p>> \in Seq(Proxied)
    BY <1>8, <2>4 DEF Proxied
  <2>6. AllThere'
    BY <1>1, <1>4, <2>1 DEF AllThere, AllKept
  <2>7. Preparing'
    BY <2>3, <2>5, <2>6 DEF Preparing, d
  <2>8. QED
    BY <2>7 DEF Taking
<1>9. QED
  BY <1>5, <1>7, <1>8

LEMMA SigningStep ==
  ASSUME Typed, Typed', Signing, Handled
  PROVE  Taking'
<1>1. Message.type \in {"BondForStAtom", "RemoveValidator"}
  BY DEF Signing, Message
<1>2. Bond \/ RemoveValidator
  BY <1>1, HandlerOf
<1>3. QED
  BY <1>2, SigningBond, SigningRemove

\* The hub delegates what was paid.
LEMMA DelegateCoins ==
  ASSUME Typed, Delegate
  PROVE  /\ \A a \in Accounts :
              a \notin {"hub", "dispatcher"} => work'.coins[a] = work.coins[a]
         /\ Staked(work') = Staked(work) + Message.amount /\ Message.amount \in Nat
         /\ \A v \in Validators : work.rewards[v] = 0 => work'.rewards[v] = 0
         /\ NoRewards => work'.coins["dispatcher"] = work.coins["dispatcher"]
<1> DEFINE u == Message.validator
           n == Message.amount
           S == {u}
<1>1. /\ u \in Validators /\ n \in Nat
      /\ work'.coins = [PaidOut(work, S).coins EXCEPT !["hub"] = @ - n]
      /\ work'.rewards = PaidOut(work, S).rewards
      /\ work'.delegation = [work.delegation EXCEPT ![u] = @ + n]
  BY DelegateEffect
<1>2. work \in Worlds /\ S \in SUBSET Validators
  BY <1>1 DEF Typed, WorldOK
<1> DEFINE coins == PaidOut(work, S).coins
           rewards == PaidOut(work, S).rewards
<1> HIDE DEF S, u, n
<1>3. /\ coins["dispatcher"] + SumOver(rewards, Validators) = Undispatched(work)
      /\ \A a \in Accounts : a # "dispatcher" => coins[a] = work.coins[a]
      /\ coins \in [Accounts -> Nat]
      /\ \A v \in Validators : rewards[v] = IF v \in S THEN 0 ELSE work.rewards[v]
  BY <1>2, PaidToDispatcher
<1> HIDE DEF coins, rewards
<1>4. \A a \in Accounts : a \notin {"hub", "dispatcher"} => work'.coins[a] = work.coins[a]
  BY <1>1, <1>3 DEF coins
<1>5. work'.coins["dispatcher"] = coins["dispatcher"]
  BY <1>1, <1>3, AccountsFinite DEF coins
<1>6. \A v \in Validators : work.rewards[v] = 0 => work'.rewards[v] = 0
  BY <1>1, <1>3 DEF rewards
<1>7. Staked(work') = Staked(work) + n
  <2> DEFINE d == work.delegation
             e == work'.delegation
  <2>1. Differ(d, e, Validators, u) /\ e[u] = d[u] + n
    BY <1>1, <1>2 DEF Differ, Worlds
  <2> HIDE DEF d, e
  <2>2. /\ SumOver(d, Validators) \in Nat /\ SumOver(e, Validators) \in Nat
        /\ d[u] \in Nat /\ e[u] \in Nat
        /\ SumOver(e, Validators) + d[u] = SumOver(d, Validators) + e[u]
    BY <2>1, AccountsFinite, SumDiffers
  <2>3. n \in Nat
    BY <1>1
  <2>4. SumOver(e, Validators) = SumOver(d, Validators) + n
    BY ONLY <2>1, <2>2, <2>3
  <2>5. QED
    BY <2>4 DEF Staked, d, e
<1>8. ASSUME NoRewards
      PROVE  work'.coins["dispatcher"] = work.coins["dispatcher"]
  <2>1. SumOver(work.rewards, Validators) = 0
    BY <1>8, AccountsFinite, SumOverZero DEF NoRewards
  <2>2. SumOver(rewards, Validators) = 0
    <3>1. \A v \in Validators : rewards[v] = 0
      BY <1>3, <1>8 DEF NoRewards
    <3>2. QED
      BY <3>1, AccountsFinite, SumOverZero
  <2>3. coins["dispatcher"] \in Nat /\ work.coins["dispatcher"] \in Nat
    BY <1>2, <1>3, AccountsFinite DEF Worlds
  <2>4. Undispatched(work) = work.coins["dispatcher"] + 0
    BY <1>2, <2>1, DispatchedType
  <2>5. QED
    BY <1>3, <1>5, <2>2, <2>3, <2>4
<1>9. QED
  BY <1>1, <1>4, <1>6, <1>7, <1>8 DEF n

LEMMA PayingStep ==
  ASSUME Typed, Typed', Paying, queue # <<>>, Handled
  PROVE  Taking'
<1>1. Message \in Paid /\ Tail(queue) \in Seq(Paid)
  BY DEF Paying, Message
<1>2. Message.type \in {"Delegate", "Mint"}
  BY <1>1 DEF Paid
<1>3. Delegate \/ Mint
  BY <1>2, HandlerOf
<1>4. Answer(<<>>)
  BY <1>3 DEF Delegate, Mint
<1>5. queue' = Tail(queue) /\ committed' = committed
  <2>1. queue' = <<>> \o Tail(queue) /\ committed' = committed
    BY <1>4 DEF Answer
  <2>2. <<>> \o Tail(queue) = Tail(queue)
    BY <1>1
  <2>3. QED
    BY <2>1, <2>2
<1>6. \A a \in Accounts : a \notin {"hub", "dispatcher"} => work'.coins[a] = work.coins[a]
  <2>1. CASE Delegate
    BY <2>1, DelegateCoins
  <2>2. CASE Mint
    BY <2>2, BooksOnly DEF BookKeeping, TokenHandler, CoinsKept
  <2>3. QED
    BY <1>3, <2>1, <2>2
<1>7. work'.coins["fees"] = work.coins["fees"] /\ \A u \in Users : work'.coins[u] = work.coins[u]
  BY <1>6, FeesApart
<1>8. Paying'
  BY <1>1, <1>5, <1>7 DEF Paying, Fees
<1>9. QED
  BY <1>8 DEF Taking

\* The first of the messages that wait before another one.
LEMMA Waiting ==
  ASSUME Typed, NEW S \in SUBSET Messages, NEW ls \in Seq(S), NEW d \in Messages,
         queue = ls \o <<d>>
  PROVE  /\ queue # <<>>
         /\ ls # <<>> => /\ Message = Head(ls) /\ Message \in S
                         /\ Tail(ls) \in Seq(S) /\ Tail(queue) = Tail(ls) \o <<d>>
         /\ ls = <<>> => Message = d /\ Tail(queue) = <<>>
<1>1. <<d>> \in Seq(Messages) /\ ls \in Seq(Messages) /\ ls \o <<d>> # <<>>
  OBVIOUS
<1>2. ASSUME ls # <<>>
      PROVE  Message = Head(ls) /\ Message \in S
             /\ Tail(ls) \in Seq(S) /\ Tail(queue) = Tail(ls) \o <<d>>
  <2>1. Head(ls) \in S /\ Tail(ls) \in Seq(S)
    BY <1>2
  <2>2. Head(ls \o <<d>>) = Head(ls) /\ Tail(ls \o <<d>>) = Tail(ls) \o <<d>>
    BY <1>1, <1>2, ConcatHead
  <2>3. QED
    BY <2>1, <2>2 DEF Message
<1>3. ASSUME ls = <<>>
      PROVE  Message = d /\ Tail(queue) = <<>>
  <2>1. queue = <<d>>
    BY <1>1, <1>3
  <2>2. QED
    BY <2>1 DEF Message
<1>4. QED
  BY <1>1, <1>2, <1>3

\* Its answer is put before those that wait.
LEMMA AnswerBefore ==
  ASSUME NEW S \in SUBSET Messages, NEW ms \in Seq(S), NEW ls \in Seq(S), NEW d \in Messages,
         Tail(queue) = ls \o <<d>>, Answer(ms)
  PROVE  /\ ms \o ls \in Seq(S) /\ queue' = (ms \o ls) \o <<d>>
         /\ committed' = committed
<1>1. queue' = ms \o (ls \o <<d>>) /\ committed' = committed
  BY DEF Answer
<1>2. <<d>> \in Seq(Messages) /\ ls \in Seq(Messages) /\ ms \in Seq(Messages)
  OBVIOUS
<1>3. ms \o (ls \o <<d>>) = (ms \o ls) \o <<d>>
  BY <1>2, ConcatAssociative
<1>4. QED
  BY <1>1, <1>3

\* Every validator that has a delegation is asked for its rewards.
LEMMA AllAsked ==
  ASSUME Typed
  PROVE  /\ WithdrawRewardMessages \in Seq(Withdrawals)
         /\ \A v \in Validators : work.delegation[v] > 0 =>
              \E i \in 1..Len(WithdrawRewardMessages) : WithdrawRewardMessages[i] = WithdrawalOf(v)
<1> DEFINE zero == [v \in Validators |-> 0]
           D == RW!Delegated
           seq == RW!Ascending(D, zero)
<1>1. D \in SUBSET Validators /\ \A v \in D : zero[v] \in Int
  BY DEF RW!Delegated
<1>2. \A v \in Validators : work.delegation[v] > 0 => v \in D
  BY DEF RW!Delegated
<1>3. WithdrawRewardMessages
        = [i \in DOMAIN seq |-> [type |-> "WithdrawDelegatorReward", validator |-> seq[i]]]
  BY DEF WithdrawRewardMessages
<1> HIDE DEF D, zero
<1>4. RP!Lists(seq, D)
  BY <1>1, ValidatorsListed
<1> HIDE DEF seq
<1>5. /\ Len(seq) \in Nat /\ DOMAIN seq = 1..Len(seq)
      /\ \A i \in 1..Len(seq) : seq[i] \in D
      /\ \A v \in D : \E i \in 1..Len(seq) : seq[i] = v
  BY <1>4, ListedOnce
<1> DEFINE ms == WithdrawRewardMessages
<1>6. ms = [i \in 1..Len(seq) |-> WithdrawalOf(seq[i])]
  BY <1>3, <1>5 DEF WithdrawalOf
<1> HIDE DEF ms
<1>7. \A i \in 1..Len(seq) : WithdrawalOf(seq[i]) \in Withdrawals
  BY <1>1, <1>5 DEF Withdrawals
<1>8. ms \in Seq(Withdrawals) /\ Len(ms) = Len(seq)
  BY <1>5, <1>6, <1>7
<1>9. ASSUME NEW v \in Validators, work.delegation[v] > 0
      PROVE  \E i \in 1..Len(ms) : ms[i] = WithdrawalOf(v)
  <2>1. PICK i \in 1..Len(seq) : seq[i] = v
    BY <1>2, <1>5, <1>9
  <2>2. QED
    BY <1>6, <1>8, <2>1
<1>10. QED
  BY <1>8, <1>9 DEF ms

LEMMA WithdrawalsAre ==
  /\ Withdrawals \in SUBSET Messages /\ Proxied \in SUBSET Messages
  /\ [type |-> "WithdrawAndDispatch"] \in Messages
  /\ [type |-> "DispatchRewards", sender |-> "hub"] \in Messages
<1>1. \A v \in Validators : WithdrawalOf(v) \in Messages
  BY DEF WithdrawalOf, Messages, ToChain
<1>2. [type |-> "DispatchRewards", sender |-> "hub"] \in Messages
  BY DEF Messages, ToOthers, Holders
<1>3. [type |-> "WithdrawAndDispatch"] \in Messages
  BY DEF Messages, ToHub
<1>4. QED
  BY <1>1, <1>2, <1>3 DEF Withdrawals, Proxied

LEMMA PreparingStep ==
  ASSUME Typed, Typed', Earned, Preparing, Handled
  PROVE  Taking'
<1> DEFINE d == [type |-> "WithdrawAndDispatch"]
<1>1. PICK ls \in Seq(Proxied) : queue = ls \o <<d>>
  BY DEF Preparing
<1>2. AllThere /\ d \in Messages /\ d.type = "WithdrawAndDispatch"
  BY WithdrawalsAre DEF Preparing
<1> HIDE DEF d
<1>3. /\ queue # <<>>
      /\ ls # <<>> => /\ Message \in Proxied /\ Tail(ls) \in Seq(Proxied)
                      /\ Tail(queue) = Tail(ls) \o <<d>>
      /\ ls = <<>> => Message = d /\ Tail(queue) = <<>>
  BY <1>1, <1>2, WithdrawalsAre, Waiting
<1>4. CASE ls # <<>>
  <2>1. Message.type \in {"RedelegateProxy", "Redelegate"}
    BY <1>3, <1>4 DEF Proxied
  <2>2. RedelegateProxy \/ Redelegate
    BY <2>1, HandlerOf
  <2>3. PICK ms \in Seq(Proxied) : Answer(ms) /\ AllKept
    <3>1. CASE Redelegate
      <4>1. Answer(<<>>) /\ <<>> \in Seq(Proxied)
        BY <3>1 DEF Redelegate
      <4>2. QED
        BY <3>1, <4>1, RedelegateKeepsAll
    <3>2. CASE RedelegateProxy
      <4> DEFINE ks == ProxyMessages(Message.src, Message.redelegations)
      <4>1. Answer(ks)
        BY <3>2 DEF RedelegateProxy, ProxyMessages, MoveOf
      <4>2. Message.src \in Validators /\ Message.redelegations \in Seq(Validators \X Nat)
        BY <1>3, <3>2, FirstMessage DEF RedelegateProxy, Handling, Fields
      <4>3. ks \in Seq(ToRedelegate)
        BY <4>2, ProxyMessagesType DEF Pairs
      <4>4. ToRedelegate \subseteq Proxied
        BY StakeMessages DEF ToRedelegate, Proxied
      <4> HIDE DEF ks
      <4>5. ks \in Seq(Proxied)
        BY <4>3, <4>4, SeqMonotone
      <4>6. AllKept
        BY <3>2, BooksOnly, BooksKeepAll DEF BookKeeping
      <4>7. QED
        BY <4>1, <4>5, <4>6
    <3>3. QED
      BY <2>2, <3>1, <3>2
  <2> DEFINE ks == ms \o Tail(ls)
  <2>4. ks \in Seq(Proxied) /\ queue' = ks \o <<d>> /\ committed' = committed
    BY <1>2, <1>3, <1>4, <2>3, WithdrawalsAre, AnswerBefore
  <2> HIDE DEF ks
  <2>5. AllThere'
    BY <1>2, <2>3, <2>4, StillThere
  <2>6. Preparing'
    BY <2>4, <2>5 DEF Preparing, d
  <2>7. QED
    BY <2>6 DEF Taking
<1>5. CASE ls = <<>>
  <2>1. Message.type = "WithdrawAndDispatch" /\ Tail(queue) = <<>>
    BY <1>2, <1>3, <1>5
  <2>2. WithdrawAllRewards
    BY <2>1, HandlerOf
  <2> DEFINE ms == WithdrawRewardMessages
             e == [type |-> "DispatchRewards", sender |-> "hub"]
  <2>3. work' = work /\ committed' = committed /\ queue' = (ms \o <<e>>) \o <<>>
    BY <2>1, <2>2 DEF WithdrawAllRewards, Answer, WithdrawAndDispatch
  <2>4. /\ ms \in Seq(Withdrawals) /\ e \in Messages
        /\ \A v \in Validators :
             work.delegation[v] > 0 => \E i \in 1..Len(ms) : ms[i] = WithdrawalOf(v)
    BY AllAsked, WithdrawalsAre
  <2> HIDE DEF ms, e
  <2>5. queue' = ms \o <<e>>
    <3>1. ms \in Seq(Messages) /\ <<e>> \in Seq(Messages)
      BY <2>4, WithdrawalsAre, SeqMonotone
    <3>2. QED
      BY <2>3, <3>1
  <2>6. \A v \in Validators :
          work'.rewards[v] > 0 => \E i \in 1..Len(ms) : ms[i] = WithdrawalOf(v)
    BY <2>3, <2>4 DEF Earned, Earning
  <2>7. AllThere'
    BY <1>2, <2>3 DEF AllThere
  <2>8. Withdrawing'
    BY <2>4, <2>5, <2>6, <2>7 DEF Withdrawing, e
  <2>9. QED
    BY <2>8 DEF Taking
<1>6. QED
  BY <1>4, <1>5

\* One validator after the other pays.
LEMMA WithdrawalPaid ==
  ASSUME Typed, Withdrawing, WithdrawDelegatorReward,
         NEW ls \in Seq(Withdrawals), ls # <<>>, Message = Head(ls),
         \A v \in Validators :
           work.rewards[v] > 0 => \E i \in 1..Len(ls) : ls[i] = WithdrawalOf(v)
  PROVE  \A v \in Validators :
           work'.rewards[v] > 0 => \E i \in 1..Len(Tail(ls)) : Tail(ls)[i] = WithdrawalOf(v)
<1> SUFFICES ASSUME NEW v \in Validators, work'.rewards[v] > 0
             PROVE  \E i \in 1..Len(Tail(ls)) : Tail(ls)[i] = WithdrawalOf(v)
  OBVIOUS
<1>1. \A x \in Validators :
        work'.rewards[x] = IF x = Message.validator THEN 0 ELSE work.rewards[x]
  BY WithdrawKeepsAll
<1>2. v # Message.validator /\ work.rewards[v] > 0
  BY <1>1
<1>3. PICK i \in 1..Len(ls) : ls[i] = WithdrawalOf(v)
  BY <1>2
<1>4. ls[1] # WithdrawalOf(v)
  <2>1. ls[1] = Message
    OBVIOUS
  <2>2. WithdrawalOf(v).validator = v
    BY DEF WithdrawalOf
  <2>3. QED
    BY <1>2, <2>1, <2>2
<1>5. i # 1 /\ Len(Tail(ls)) = Len(ls) - 1 /\ \A j \in 1..Len(Tail(ls)) : Tail(ls)[j] = ls[j + 1]
  BY <1>3, <1>4
<1>6. i - 1 \in 1..Len(Tail(ls)) /\ Tail(ls)[i - 1] = ls[i]
  <2>1. i - 1 \in 1..Len(Tail(ls)) /\ (i - 1) + 1 = i
    BY <1>5
  <2>2. QED
    BY <1>5, <2>1
<1>7. QED
  BY <1>3, <1>6

\* The dispatcher splits what it has.
LEMMA SplitAnswers ==
  ASSUME Typed, DispatchRewards, Tail(queue) = <<>>
  PROVE  LET rewards == work.coins["dispatcher"]
             fee == LidoFee(rewards)
             bond == IF rewards - fee = 0 THEN <<>> ELSE <<RewardsBond(rewards - fee)>>
         IN  /\ rewards \in Nat /\ fee \in Nat /\ fee <= rewards
             /\ work' = work /\ committed' = committed
             /\ queue' = bond \o ToFees(fee)
<1> DEFINE rewards == work.coins["dispatcher"]
           fee == LidoFee(rewards)
           n == rewards - fee
           send == [type |-> "BankSend", sender |-> "dispatcher", to |-> "fees", amount |-> fee]
           pair == <<RewardsBond(n), send>>
           nonzero == {i \in DOMAIN pair : pair[i].amount # 0}
           sends == IF 2 \in nonzero THEN <<send>> ELSE <<>>
           bonds == IF 1 \in nonzero THEN <<RewardsBond(n)>> ELSE <<>>
<1>1. /\ rewards \in Nat /\ fee <= rewards /\ work' = work /\ committed' = committed
      /\ queue' = Chosen(pair, nonzero) \o Tail(queue)
  BY DEF DispatchRewards, Typed, WorldOK, Worlds, Accounts, Answer, Nonzero, RewardsBond
<1>2. fee \in Nat
  BY <1>1, TimesBound, ProtocolAssumption DEF LidoFee
<1> HIDE DEF fee, rewards
<1>3. n \in Nat
  BY <1>1, <1>2
<1>4. RewardsBond(n) \in Messages
  BY <1>3 DEF RewardsBond, Messages, ToHub
<1>5. send \in Messages
  BY <1>2 DEF Messages, ToChain
<1>6. (1 \in nonzero <=> n # 0) /\ (2 \in nonzero <=> fee # 0)
  BY DEF RewardsBond
<1>7. sends = ToFees(fee) /\ bonds = IF n = 0 THEN <<>> ELSE <<RewardsBond(n)>>
  BY <1>6 DEF ToFees
<1>8. Chosen(pair, nonzero) = bonds \o sends
  <2> DEFINE x == RewardsBond(n)
  <2>1. x \in Messages /\ send \in Messages
    BY <1>4, <1>5
  <2> HIDE DEF x, send, nonzero
  <2>2. Chosen(<<x, send>>, nonzero)
          = (IF 1 \in nonzero THEN <<x>> ELSE <<>>) \o (IF 2 \in nonzero THEN <<send>> ELSE <<>>)
    BY ONLY <2>1, PairChosen
  <2>3. QED
    BY <2>2 DEF x
<1>9. sends \in Seq(Messages) /\ bonds \in Seq(Messages)
  BY <1>4, <1>5, SeqSingle
<1> HIDE DEF nonzero, sends, bonds, send, pair
<1>10. queue' = bonds \o sends
  <2>1. queue' = (bonds \o sends) \o <<>>
    BY <1>1, <1>8
  <2>2. QED
    BY <1>9, <2>1
<1> HIDE DEF n
<1>11. QED
  BY <1>1, <1>2, <1>7, <1>10 DEF rewards, fee, n

LEMMA NoFees ==
  ASSUME NEW n \in Nat
  PROVE  ToFees(n) \in Seq(Messages)
<1>1. [type |-> "BankSend", sender |-> "dispatcher", to |-> "fees", amount |-> n] \in Messages
  BY DEF Messages, ToChain
<1>2. QED
  BY <1>1 DEF ToFees

\* All there is has come to the dispatcher.
LEMMA WithdrawnSplits ==
  ASSUME Typed, NoRewards, AllThere, DispatchRewards, Tail(queue) = <<>>
  PROVE  Taking'
<1> DEFINE rewards == work.coins["dispatcher"]
           fee == LidoFee(rewards)
           n == rewards - fee
           bond == IF n = 0 THEN <<>> ELSE <<RewardsBond(n)>>
<1>1. /\ rewards \in Nat /\ fee \in Nat /\ fee <= rewards
      /\ work' = work /\ committed' = committed
      /\ queue' = bond \o ToFees(fee)
  BY SplitAnswers
<1>2. Undispatched(work) = rewards + 0
  <2>1. SumOver(work.rewards, Validators) = 0
    BY AccountsFinite, SumOverZero DEF NoRewards
  <2>2. QED
    BY <2>1, DispatchedType DEF Typed, WorldOK
<1>3. rewards = Undispatched(committed) /\ fee = FeeOf(committed)
  <2>1. rewards = Undispatched(committed)
    BY <1>1, <1>2 DEF AllThere
  <2>2. QED
    BY <2>1 DEF LidoFee, FeeOf
<1>4. ToFees(fee) \in Seq(Messages)
  BY <1>1, NoFees
<1> HIDE DEF rewards, fee
<1>5. n = Undispatched(committed) - FeeOf(committed) /\ n \in Nat
  BY <1>1, <1>3
<1>6. NoRewards' /\ AllThere'
  BY <1>1 DEF NoRewards, AllThere
<1>7. Undispatched(committed') = Undispatched(committed) /\ FeeOf(committed') = FeeOf(committed)
  BY <1>1
<1>8. CASE n # 0
  <2>1. queue' = <<RewardsBond(Undispatched(committed') - FeeOf(committed'))>>
                   \o ToFees(FeeOf(committed'))
    BY <1>1, <1>3, <1>5, <1>7, <1>8
  <2>2. FeeOf(committed') <= Undispatched(committed')
    BY <1>1, <1>3, <1>7
  <2>3. Splitting'
    BY <1>6, <2>1, <2>2 DEF Splitting
  <2>4. QED
    BY <2>3 DEF Taking
<1>9. CASE n = 0
  <2>1. queue' = <<>> \o ToFees(FeeOf(committed'))
    BY <1>1, <1>3, <1>7, <1>9
  <2>2. work'.coins["dispatcher"] = FeeOf(committed')
    <3>1. rewards = fee
      BY <1>1, <1>9
    <3>2. QED
      BY <1>1, <1>3, <1>7, <3>1 DEF rewards
  <2>3. <<>> \in Seq(ToDelegate) /\ Due(<<>>, AmountOf) = 0
    <3>1. AmountOf \in [ToDelegate -> Nat] /\ <<>> \in Seq(ToDelegate)
      BY DEF AmountOf, ToDelegate
    <3>2. QED
      BY ONLY <3>1, DueType
  <2>4. Staked(work') + Due(<<>>, AmountOf)
          = Staked(committed') + (Undispatched(committed') - FeeOf(committed'))
    <3>1. Staked(work) \in Nat /\ Staked(work) = Staked(committed)
      BY DispatchedType DEF Typed, WorldOK, AllThere
    <3>2. QED
      BY <1>1, <1>5, <1>9, <2>3, <3>1
  <2>5. Fees(work') = Fees(committed') /\ FeeOf(committed') <= Undispatched(committed')
    BY <1>1, <1>3, <1>6, <1>7 DEF AllThere
  <2>6. Delegating'
    BY <1>6, <2>1, <2>2, <2>3, <2>4, <2>5 DEF Delegating
  <2>7. QED
    BY <2>6 DEF Taking
<1>10. QED
  BY <1>8, <1>9

LEMMA WithdrawingStep ==
  ASSUME Typed, Typed', Withdrawing, Handled
  PROVE  Taking'
<1> DEFINE d == [type |-> "DispatchRewards", sender |-> "hub"]
<1>1. PICK ls \in Seq(Withdrawals) :
        /\ queue = ls \o <<d>>
        /\ AllThere
        /\ \A v \in Validators :
             work.rewards[v] > 0 => \E i \in 1..Len(ls) : ls[i] = WithdrawalOf(v)
  BY DEF Withdrawing
<1>2. d \in Messages /\ d.type = "DispatchRewards"
  BY WithdrawalsAre
<1> HIDE DEF d
<1>3. /\ queue # <<>>
      /\ ls # <<>> => /\ Message = Head(ls) /\ Message \in Withdrawals
                      /\ Tail(ls) \in Seq(Withdrawals) /\ Tail(queue) = Tail(ls) \o <<d>>
      /\ ls = <<>> => Message = d /\ Tail(queue) = <<>>
  BY <1>1, <1>2, WithdrawalsAre, Waiting
<1>4. CASE ls # <<>>
  <2>1. Message.type = "WithdrawDelegatorReward"
    BY <1>3, <1>4 DEF Withdrawals, WithdrawalOf
  <2>2. WithdrawDelegatorReward
    BY <2>1, HandlerOf
  <2>3. AllKept /\ Answer(<<>>) /\ <<>> \in Seq(Withdrawals)
    BY <2>2, WithdrawKeepsAll DEF WithdrawDelegatorReward
  <2> DEFINE ks == Tail(ls)
  <2>4. ks \in Seq(Withdrawals) /\ queue' = ks \o <<d>> /\ committed' = committed
    <3>1. queue' = (<<>> \o ks) \o <<d>> /\ committed' = committed
      BY <1>2, <1>3, <1>4, <2>3, WithdrawalsAre, AnswerBefore
    <3>2. <<>> \o ks = ks
      BY <1>3, <1>4
    <3>3. QED
      BY <1>3, <1>4, <3>1, <3>2
  <2>5. \A v \in Validators :
          work'.rewards[v] > 0 => \E i \in 1..Len(ks) : ks[i] = WithdrawalOf(v)
    BY <1>1, <1>3, <1>4, <2>2, WithdrawalPaid
  <2> HIDE DEF ks
  <2>6. AllThere'
    BY <1>1, <2>3, <2>4, StillThere
  <2>7. Withdrawing'
    BY <2>4, <2>5, <2>6 DEF Withdrawing, d
  <2>8. QED
    BY <2>7 DEF Taking
<1>5. CASE ls = <<>>
  <2>1. Message.type = "DispatchRewards" /\ Tail(queue) = <<>>
    BY <1>2, <1>3, <1>5
  <2>2. DispatchRewards
    BY <2>1, HandlerOf
  <2>3. NoRewards
    <3>1. \A v \in Validators : ~(work.rewards[v] > 0)
      BY <1>1, <1>5
    <3>2. \A v \in Validators : work.rewards[v] \in Nat
      BY DEF Typed, WorldOK, Worlds
    <3>3. QED
      BY <3>1, <3>2 DEF NoRewards
  <2>4. QED
    BY <1>1, <2>1, <2>2, <2>3, WithdrawnSplits
<1>6. QED
  BY <1>4, <1>5

\* What the hub has to delegate, it delegates.
LEMMA AmountsType ==
  AmountOf \in [ToDelegate -> Nat] /\ \A m \in ToDelegate : AmountOf[m] = m.amount
  BY DEF AmountOf, ToDelegate

LEMMA DelegatesAll ==
  ASSUME WorldOK(work), NEW amount \in Nat,
         CanDelegate(amount, RW!TotalsOf(RW!Ascending(work.registry, work.delegation),
                                         work.delegation))
  PROVE  /\ DelegateMessages(amount) \in Seq(ToDelegate)
         /\ Due(DelegateMessages(amount), AmountOf) = amount
<1> DEFINE seq == RW!Ascending(work.registry, work.delegation)
           given == Delegations(amount, RW!TotalsOf(seq, work.delegation))
           messages == [i \in DOMAIN seq |->
                          [type |-> "Delegate", validator |-> seq[i], amount |-> given[i]]]
           S == {i \in DOMAIN messages : messages[i].amount # 0}
<1>1. work.registry \in SUBSET Validators
  BY DEF WorldOK, Worlds
<1>2. /\ RP!Lists(seq, work.registry) /\ \A i \in 1..Len(seq) : given[i] \in Nat
      /\ SumTo(given, Len(seq)) = amount
  BY <1>1, SharesType
<1>3. DelegateMessages(amount) = Chosen(messages, S)
  BY DEF DelegateMessages, Nonzero
<1>4. DelegateMessages(amount) \in Seq(ToDelegate)
  BY DelegateMessagesType DEF ToDelegate
<1> HIDE DEF seq, given
<1>5. /\ Len(seq) \in Nat /\ DOMAIN seq = 1..Len(seq)
      /\ \A i \in 1..Len(seq) : seq[i] \in Validators
  BY <1>1, <1>2, ListedOnce
<1>6. \A i \in 1..Len(seq) : /\ messages[i] \in ToDelegate /\ messages[i].amount = given[i]
                             /\ i \notin S => messages[i].amount = 0
  BY <1>2, <1>5 DEF ToDelegate
<1>7. messages \in Seq(ToDelegate) /\ Len(messages) = Len(seq)
  BY <1>5, <1>6
<1> HIDE DEF messages, S
<1>8. \A i \in 1..Len(messages) : i \notin S => AmountOf[messages[i]] = 0
  BY <1>6, <1>7, AmountsType
<1>9. Due(Chosen(messages, S), AmountOf) = Due(messages, AmountOf)
  BY ONLY <1>7, <1>8, AmountsType, DueChosen
<1> DEFINE f == [i \in 1..Len(messages) |-> AmountOf[messages[i]]]
<1>10. \A i \in 1..Len(seq) : given[i] \in Nat /\ f[i] = given[i]
  BY <1>2, <1>6, <1>7, AmountsType
<1>11. Due(messages, AmountOf) = SumTo(f, Len(seq))
  BY <1>7 DEF Due
<1> HIDE DEF f
<1>12. SumTo(f, Len(seq)) = SumTo(given, Len(seq))
  BY ONLY <1>5, <1>10, SumToSame
<1>13. QED
  BY <1>2, <1>3, <1>4, <1>9, <1>11, <1>12

\* The hub bonds its part.
LEMMA SplittingStep ==
  ASSUME Typed, Typed', Splitting, Handled
  PROVE  Taking'
<1> DEFINE n == Undispatched(committed) - FeeOf(committed)
           fee == FeeOf(committed)
           ts == ToFees(fee)
           ms == DelegateMessages(n)
<1>1. /\ queue = <<RewardsBond(n)>> \o ts
      /\ NoRewards /\ fee <= Undispatched(committed) /\ AllThere
  BY DEF Splitting
<1>2. Undispatched(committed) \in Nat /\ fee \in Nat /\ ts \in Seq(Messages)
  <2>1. Undispatched(committed) \in Nat
    BY DispatchedType DEF Typed, WorldOK
  <2>2. fee \in Nat
    BY <2>1, TimesBound, ProtocolAssumption DEF FeeOf
  <2>3. QED
    BY <2>1, <2>2, NoFees
<1>3. n \in Nat
  BY <1>1, <1>2
<1> HIDE DEF fee, ts
<1>4. Message = RewardsBond(n) /\ Tail(queue) = ts /\ queue # <<>>
  <2> DEFINE x == RewardsBond(n)
  <2> HIDE DEF x
  <2>1. queue = <<x>> \o ts
    BY <1>1 DEF x
  <2>2. Head(queue) = x /\ Tail(queue) = ts /\ queue # <<>>
    BY <1>2, <2>1
  <2>3. QED
    BY <2>2 DEF x, Message
<1> HIDE DEF n
<1>5. Message.type = "BondRewards" /\ Message.amount = n /\ Message.sender = "dispatcher"
  BY <1>4 DEF RewardsBond
<1>6. Bond
  BY <1>5, HandlerOf
<1>7. /\ CanDelegate(n, RW!TotalsOf(RW!Ascending(work.registry, work.delegation),
                                    work.delegation))
      /\ Answer(ms \o <<>>)
  BY <1>5, <1>6 DEF Bond
<1>8. ms \in Seq(ToDelegate) /\ Due(ms, AmountOf) = n
  BY <1>3, <1>7, DelegatesAll DEF Typed
<1> HIDE DEF ms
<1>9. queue' = ms \o ts /\ committed' = committed
  <2>1. queue' = (ms \o <<>>) \o ts /\ committed' = committed
    BY <1>4, <1>7 DEF Answer
  <2>2. ms \o <<>> = ms
    BY <1>8
  <2>3. QED
    BY <2>1, <2>2
<1>10. /\ work'.delegation = work.delegation /\ work'.rewards = work.rewards
       /\ work'.coins = Moved(work.coins, "dispatcher", "hub", n)
  BY <1>5, <1>6, BondCoins DEF StakeKept
<1>11. Staked(work') = Staked(work) /\ NoRewards'
  BY <1>1, <1>10 DEF Staked, NoRewards
<1>12. work.coins \in [Accounts -> Nat] /\ work.coins["dispatcher"] \in Nat
  BY AccountsFinite DEF Typed, WorldOK, Worlds
<1>13. /\ work'.coins["fees"] = work.coins["fees"]
       /\ work'.coins["dispatcher"] = work.coins["dispatcher"] - n
  BY <1>3, <1>10, <1>12, AccountsFinite, FeesApart DEF Moved
<1>14. work.coins["dispatcher"] = Undispatched(committed)
  <2>1. SumOver(work.rewards, Validators) = 0
    BY <1>1, AccountsFinite, SumOverZero DEF NoRewards
  <2>2. Undispatched(work) = work.coins["dispatcher"] + 0
    BY <2>1, DispatchedType DEF Typed, WorldOK
  <2>3. QED
    BY <1>1, <1>12, <2>2 DEF AllThere
<1>15. work'.coins["dispatcher"] = fee
  BY <1>2, <1>13, <1>14 DEF n, fee
<1>16. Staked(work') + Due(ms, AmountOf) = Staked(committed) + n /\ Fees(work') = Fees(committed)
  BY <1>1, <1>8, <1>11, <1>13 DEF AllThere, Fees
<1>17. Delegating'
  BY <1>1, <1>8, <1>9, <1>11, <1>15, <1>16 DEF Delegating, fee, ts, n
<1>18. QED
  BY <1>17 DEF Taking

\* The fee leaves when everything is delegated.
LEMMA FeeSent ==
  ASSUME Typed, BankSend, NoRewards, Staked(committed) \in Nat,
         Message.sender = "dispatcher", Message.to = "fees", Message.amount = FeeOf(committed),
         FeeOf(committed) \in Nat, Undispatched(committed) \in Nat,
         work.coins["dispatcher"] = FeeOf(committed),
         Fees(work) = Fees(committed),
         Staked(work) = Staked(committed) + (Undispatched(committed) - FeeOf(committed))
  PROVE  AllTaken(committed, work')
<1> DEFINE fee == FeeOf(committed)
<1>1. /\ work'.coins = Moved(work.coins, "dispatcher", "fees", fee)
      /\ work'.rewards = work.rewards /\ work'.delegation = work.delegation
  BY BankSendEffect DEF StakeKept
<1>2. /\ work.coins \in [Accounts -> Nat] /\ work.coins["dispatcher"] \in Nat
      /\ work.coins["fees"] \in Nat
  BY AccountsFinite, FeesApart DEF Typed, WorldOK, Worlds
<1> HIDE DEF fee
<1>3. /\ work'.coins["fees"] = work.coins["fees"] + fee
      /\ work'.coins["dispatcher"] = work.coins["dispatcher"] - fee
  BY <1>1, <1>2, AccountsFinite, FeesApart DEF Moved
<1>4. SumOver(work'.rewards, Validators) = 0
  BY <1>1, AccountsFinite, SumOverZero DEF NoRewards
<1>5. Undispatched(work') = 0
  BY <1>2, <1>3, <1>4 DEF Undispatched, fee
<1>6. Fees(work') - Fees(committed) = fee
  BY <1>2, <1>3 DEF Fees, fee
<1>7. Staked(work') - Staked(committed) = Undispatched(committed) - fee
  <2>1. Staked(work') = Staked(work)
    BY <1>1 DEF Staked
  <2>2. QED
    BY <2>1 DEF fee
<1>8. QED
  BY <1>5, <1>6, <1>7 DEF AllTaken, FeeOf, fee

LEMMA DelegatingStep ==
  ASSUME Typed, Typed', Delegating, queue # <<>>, Handled
  PROVE  Taking'
<1> DEFINE fee == FeeOf(committed)
           ts == ToFees(fee)
           n == Undispatched(committed) - fee
<1>1. PICK ls \in Seq(ToDelegate) :
        /\ queue = ls \o ts
        /\ NoRewards /\ fee <= Undispatched(committed)
        /\ work.coins["dispatcher"] = fee
        /\ Fees(work) = Fees(committed)
        /\ Staked(work) + Due(ls, AmountOf) = Staked(committed) + n
  BY DEF Delegating
<1>2. Undispatched(committed) \in Nat /\ fee \in Nat /\ ts \in Seq(Messages)
      /\ Staked(committed) \in Nat /\ Staked(work) \in Nat
  <2>1. Undispatched(committed) \in Nat /\ Staked(committed) \in Nat /\ Staked(work) \in Nat
    BY DispatchedType DEF Typed, WorldOK
  <2>2. fee \in Nat
    BY <2>1, TimesBound, ProtocolAssumption DEF FeeOf
  <2>3. QED
    BY <2>1, <2>2, NoFees
<1>3. n \in Nat
  BY <1>1, <1>2
<1>4. CASE ls # <<>>
  <2> HIDE DEF n, fee, ts
  <2>1. /\ Message = Head(ls) /\ Message \in ToDelegate /\ Tail(ls) \in Seq(ToDelegate)
        /\ Tail(queue) = Tail(ls) \o ts
    <3>1. ls \in Seq(Messages) /\ Head(ls) \in ToDelegate /\ Tail(ls) \in Seq(ToDelegate)
      BY <1>4, StakeMessages, SeqMonotone
    <3>2. QED
      BY <1>1, <1>2, <1>4, <3>1, ConcatHead DEF Message
  <2>2. Message.type = "Delegate"
    BY <2>1 DEF ToDelegate
  <2>3. Delegate
    BY <2>2, HandlerOf
  <2>4. /\ \A a \in Accounts : a \notin {"hub", "dispatcher"} => work'.coins[a] = work.coins[a]
        /\ Staked(work') = Staked(work) + Message.amount /\ Message.amount \in Nat
        /\ \A v \in Validators : work.rewards[v] = 0 => work'.rewards[v] = 0
        /\ work'.coins["dispatcher"] = work.coins["dispatcher"]
    BY <1>1, <2>3, DelegateCoins
  <2>5. Due(ls, AmountOf) = Message.amount + Due(Tail(ls), AmountOf)
        /\ Due(Tail(ls), AmountOf) \in Nat
    <3>1. AmountOf \in [ToDelegate -> Nat]
      BY AmountsType
    <3>2. Due(ls, AmountOf) = AmountOf[Head(ls)] + Due(Tail(ls), AmountOf)
      BY <1>4, <3>1, DueFirst
    <3>3. Due(Tail(ls), AmountOf) \in Nat
      BY <2>1, <3>1, DueType
    <3>4. AmountOf[Head(ls)] = Message.amount
      BY <2>1, AmountsType
    <3>5. QED
      BY <3>2, <3>3, <3>4
  <2> DEFINE ks == Tail(ls)
  <2>6. queue' = ks \o ts /\ committed' = committed
    <3>1. queue' = <<>> \o (ks \o ts) /\ committed' = committed
      BY <2>1, <2>3 DEF Delegate, Answer
    <3>2. ks \in Seq(Messages)
      BY <2>1, StakeMessages, SeqMonotone
    <3> HIDE DEF ks
    <3>3. <<>> \o (ks \o ts) = ks \o ts
      BY <1>2, <3>2
    <3>4. QED
      BY <3>1, <3>3
  <2>7. Staked(work') + Due(ks, AmountOf) = Staked(committed) + n
    BY <1>1, <1>2, <2>4, <2>5
  <2>8. ks \in Seq(ToDelegate)
    BY <2>1
  <2> HIDE DEF ks
  <2>9. NoRewards'
    BY <1>1, <2>4 DEF NoRewards
  <2>10. Fees(work') = Fees(committed)
    BY <1>1, <2>4, FeesApart DEF Fees
  <2>11. Delegating'
    BY <1>1, <2>4, <2>6, <2>7, <2>8, <2>9, <2>10 DEF Delegating, fee, ts, n
  <2>12. QED
    BY <2>11 DEF Taking
<1>5. CASE ls = <<>>
  <2>1. queue = ts
    <3> HIDE DEF ts
    <3> QED BY <1>1, <1>2, <1>5
  <2> DEFINE m == [type |-> "BankSend", sender |-> "dispatcher", to |-> "fees", amount |-> fee]
  <2>2. queue = <<m>>
    BY <2>1 DEF ToFees
  <2>3. /\ Message.type = "BankSend" /\ Message.sender = "dispatcher" /\ Message.to = "fees"
        /\ Message.amount = fee /\ Tail(queue) = <<>>
    BY <2>2 DEF Message
  <2>4. BankSend
    BY <2>3, HandlerOf
  <2>5. queue' = <<>> /\ committed' = committed
    <3>1. queue' = <<>> \o <<>> /\ committed' = committed
      BY <2>3, <2>4 DEF BankSend, Answer
    <3>2. <<>> \o <<>> = <<>>
      OBVIOUS
    <3>3. QED
      BY <3>1, <3>2
  <2>6. Staked(work) = Staked(committed) + n
    <3>1. Due(<<>>, AmountOf) = 0
      <4>1. AmountOf \in [ToDelegate -> Nat] /\ <<>> \in Seq(ToDelegate)
        BY AmountsType
      <4>2. QED
        BY ONLY <4>1, DueType
    <3> HIDE DEF n
    <3>2. QED
      BY <1>1, <1>2, <1>5, <3>1
  <2>7. AllTaken(committed, work')
    BY <1>1, <1>2, <2>3, <2>4, <2>6, FeeSent
  <2>8. Dispatched'
    BY <2>5, <2>7 DEF Dispatched
  <2>9. QED
    BY <2>8 DEF Taking
<1>6. QED
  BY <1>4, <1>5

LEMMA HandledTaking ==
  ASSUME Typed, Typed', Earned, Taking, Handled
  PROVE  Taking'
<1>1. queue # <<>>
  BY HandlerOf
<1>2. ~Dispatched
  BY <1>1 DEF Dispatched
<1>3. QED
  BY <1>1, <1>2, IdlingStep, SigningStep, PayingStep, PreparingStep, WithdrawingStep,
     SplittingStep, DelegatingStep DEF Taking

LEMMA SubmittedTaking ==
  ASSUME Typed, Typed', NEW m \in Signed, Submit(m)
  PROVE  Taking'
<1>1. /\ queue' = <<m>> /\ work' = work /\ committed' = committed /\ work = committed
      /\ work \in Worlds
  BY DEF Submit, Idle, Typed, WorldOK
<1>2. m \in Messages
  BY SignedMessages
<1>3. Payments \subseteq Nat \ {0}
  BY ProtocolAssumption
<1>4. CASE m.type \in {"BondForStAtom", "RemoveValidator"}
  <2>1. m.type = "BondForStAtom" => m.amount # 0
    <3>1. m.type = "BondForStAtom" => m.amount \in Payments
      BY <1>4 DEF Signed
    <3>2. QED
      BY <1>3, <3>1
  <2>2. Signing'
    BY <1>1, <1>2, <1>4, <2>1 DEF Signing
  <2>3. QED
    BY <2>2 DEF Taking
<1>5. CASE m.type = "WithdrawAndDispatch"
  <2>1. m = [type |-> "WithdrawAndDispatch"]
    BY <1>5 DEF Signed
  <2>2. <<>> \in Seq(Proxied) /\ <<>> \o <<m>> = <<m>>
    OBVIOUS
  <2>3. AllThere'
    BY <1>1 DEF AllThere
  <2>4. queue' = <<>> \o <<m>>
    BY <1>1, <2>2
  <2>5. Preparing'
    BY <2>1, <2>2, <2>3, <2>4 DEF Preparing
  <2>6. QED
    BY <2>5 DEF Taking
<1>6. CASE m.type \notin {"BondForStAtom", "RemoveValidator", "WithdrawAndDispatch"}
  <2>1. m.type # "Delegate"
    BY DEF Signed
  <2>2. m.type \in {"BondRewards", "DispatchRewards"} => m.sender \in Users
    BY DEF Signed
  <2>3. m.type = "BankSend" => m.to # "fees"
    BY DEF Signed
  <2>4. m \in Plain
    BY <1>2, <1>6, <2>1, <2>2, <2>3 DEF Plain
  <2>5. <<m>> \in Seq(Plain) /\ Staked(work) \in Nat
    BY <1>1, <2>4, DispatchedType
  <2>6. Idling'
    BY <1>1, <2>5 DEF Idling
  <2>7. QED
    BY <2>6 DEF Taking
<1>7. QED
  BY <1>4, <1>5, <1>6

LEMMA BetweenTaking ==
  ASSUME Typed', Commit \/ Abort \/ ChainStep
  PROVE  Taking'
<1>1. Staked(work') \in Nat
  BY DispatchedType DEF Typed, WorldOK
<1>2. queue' = <<>> /\ committed' = work'
  BY DEF Commit, Abort, ChainStep, EndBlock, SlashStake, SlashEntry, Reward,
     RedelegationCompletes, Happens, Idle
<1>3. Idling'
  <2>1. <<>> \in Seq(Plain)
    OBVIOUS
  <2>2. QED
    BY <1>1, <1>2, <2>1 DEF Idling
<1>4. QED
  BY <1>3 DEF Taking

LEMMA StutteringTaking ==
  ASSUME Taking, UNCHANGED vars
  PROVE  Taking'
<1>1. queue' = queue /\ work' = work /\ committed' = committed
  BY DEF vars
<1>2. (Idling => Idling') /\ (Signing => Signing') /\ (Paying => Paying')
  BY <1>1 DEF Idling, Signing, Paying
<1>3. AllThere => AllThere'
  BY <1>1 DEF AllThere
<1>4. NoRewards => NoRewards'
  BY <1>1 DEF NoRewards
<1>5. Preparing => Preparing'
  BY <1>1, <1>3 DEF Preparing
<1>6. Withdrawing => Withdrawing'
  BY <1>1, <1>3 DEF Withdrawing
<1>7. Splitting => Splitting'
  BY <1>1, <1>3, <1>4 DEF Splitting
<1>8. Delegating => Delegating'
  BY <1>1, <1>4 DEF Delegating
<1>9. Dispatched => Dispatched'
  BY <1>1 DEF Dispatched
<1>10. QED
  BY <1>2, <1>5, <1>6, <1>7, <1>8, <1>9 DEF Taking

LEMMA TakingStep ==
  ASSUME Typed, Typed', Earned, Taking, [Next]_vars
  PROVE  Taking'
  BY StutteringTaking, SubmittedTaking, BetweenTaking, HandledTaking DEF Next, Handled

LEMMA TakingInit ==
  ASSUME Init
  PROVE  Earned /\ Taking
<1>1. queue = <<>> /\ work = committed /\ work \in Worlds
  BY TypedInit DEF Init, Typed, WorldOK
<1>2. work.rewards = [v \in Validators |-> 0]
  BY DEF Init
<1>3. Earned
  BY <1>1, <1>2 DEF Earned, Earning
<1>4. Staked(work) \in Nat /\ <<>> \in Seq(Plain)
  BY <1>1, DispatchedType
<1>5. Idling
  BY <1>1, <1>4 DEF Idling
<1>6. QED
  BY <1>3, <1>5 DEF Taking

\* What a step that dispatches has done.
DispatchesAll ==
  \/ Fees(committed') > Fees(committed)
  \/ /\ Staked(committed') > Staked(committed)
     /\ \A u \in Users : committed'.coins[u] = committed.coins[u]
  => AllTaken(committed, committed')

LEMMA NothingDispatched ==
  ASSUME Typed, Typed', Fees(committed') = Fees(committed),
         \/ Staked(committed') <= Staked(committed)
         \/ \E u \in Users : committed'.coins[u] # committed.coins[u]
  PROVE  DispatchesAll
<1>1. /\ Fees(committed) \in Nat /\ Staked(committed) \in Nat
      /\ Fees(committed') \in Nat /\ Staked(committed') \in Nat
  BY DispatchedType DEF Typed, WorldOK
<1>2. ~(Fees(committed') > Fees(committed))
  BY <1>1
<1>3. ~(/\ Staked(committed') > Staked(committed)
        /\ \A u \in Users : committed'.coins[u] = committed.coins[u])
  BY <1>1
<1>4. QED
  BY <1>2, <1>3 DEF DispatchesAll

\* Only a dispatch that has come to its end, or what dispatches nothing, is
\* committed.
LEMMA CommitDispatches ==
  ASSUME Typed, Typed', Taking, Commit
  PROVE  DispatchesAll
<1>1. queue = <<>> /\ committed' = work
  BY DEF Commit
<1>2. CASE Idling
  BY <1>1, <1>2, NothingDispatched DEF Idling
<1>3. CASE Paying
  BY <1>1, <1>3, NothingDispatched DEF Paying
<1>4. CASE Dispatched
  BY <1>1, <1>4 DEF Dispatched, DispatchesAll
<1>5. ~Signing
  BY <1>1 DEF Signing
<1>6. ASSUME NEW T, NEW ls \in Seq(T), NEW d
      PROVE  ls \o <<d>> # <<>>
  OBVIOUS
<1>7. ~Preparing /\ ~Withdrawing
  BY <1>1, <1>6 DEF Preparing, Withdrawing
<1>8. /\ Undispatched(committed) \in Nat /\ FeeOf(committed) \in Nat
      /\ Staked(committed) \in Nat /\ Staked(work) \in Nat
      /\ Fees(committed) \in Nat /\ work.coins["dispatcher"] \in Nat
  <2>1. /\ Undispatched(committed) \in Nat /\ Staked(committed) \in Nat /\ Staked(work) \in Nat
        /\ Fees(committed) \in Nat /\ work.coins["dispatcher"] \in Nat
    BY DispatchedType DEF Typed, WorldOK
  <2>2. QED
    BY <2>1, TimesBound, ProtocolAssumption DEF FeeOf
<1>9. ~Splitting
  <2> DEFINE ts == ToFees(FeeOf(committed))
             x == RewardsBond(Undispatched(committed) - FeeOf(committed))
  <2>1. ts \in Seq(Messages)
    BY <1>8, NoFees
  <2>2. Splitting => queue = <<x>> \o ts
    BY DEF Splitting
  <2> HIDE DEF ts, x
  <2>3. <<x>> \o ts # <<>>
    BY <2>1
  <2>4. QED
    BY <1>1, <2>2, <2>3
<1>10. CASE Delegating
  <2> DEFINE fee == FeeOf(committed)
             ts == ToFees(fee)
             n == Undispatched(committed) - fee
  <2>1. PICK ls \in Seq(ToDelegate) :
          /\ queue = ls \o ts
          /\ NoRewards
          /\ work.coins["dispatcher"] = fee
          /\ Fees(work) = Fees(committed)
          /\ Staked(work) + Due(ls, AmountOf) = Staked(committed) + n
    BY <1>10 DEF Delegating
  <2>2. ts \in Seq(Messages)
    BY <1>8, NoFees
  <2>3. ts = <<>> /\ ls = <<>>
    <3>1. ls \in Seq(Messages)
      BY StakeMessages, SeqMonotone
    <3> HIDE DEF ts
    <3>2. Len(ls \o ts) = Len(ls) + Len(ts) /\ Len(ls) \in Nat /\ Len(ts) \in Nat
      BY <2>2, <3>1
    <3>3. ls \o ts = <<>> /\ Len(<<>>) = 0
      BY <1>1, <2>1
    <3>4. Len(ls) = 0 /\ Len(ts) = 0
      <4>1. Len(ls \o ts) = 0
        BY ONLY <3>3
      <4>2. QED
        BY ONLY <3>2, <4>1
    <3>5. QED
      BY <2>2, <3>1, <3>4
  <2>4. fee = 0
    BY <2>3 DEF ToFees
  <2>5. Due(<<>>, AmountOf) = 0
    <3>1. AmountOf \in [ToDelegate -> Nat] /\ <<>> \in Seq(ToDelegate)
      BY AmountsType
    <3>2. QED
      BY ONLY <3>1, DueType
  <2>6. SumOver(work.rewards, Validators) = 0
    BY <2>1, AccountsFinite, SumOverZero DEF NoRewards
  <2>7. Undispatched(work) = 0
    BY <2>1, <2>4, <2>6 DEF Undispatched
  <2>8. Fees(work) - Fees(committed) = fee
    BY <1>8, <2>1, <2>4
  <2>9. Staked(work) - Staked(committed) = n
    <3> HIDE DEF n
    <3>1. n \in Int
      BY <1>8 DEF n
    <3>2. QED
      BY <1>8, <2>1, <2>3, <2>5, <3>1
  <2>10. AllTaken(committed, work)
    BY <2>7, <2>8, <2>9 DEF AllTaken, FeeOf
  <2>11. QED
    BY <1>1, <2>10 DEF DispatchesAll
<1>11. QED
  BY <1>2, <1>3, <1>4, <1>5, <1>7, <1>9, <1>10 DEF Taking

\* The chain does not delegate by itself.
LEMMA ChainDispatches ==
  ASSUME Typed, Typed', ChainStep
  PROVE  DispatchesAll
<1>1. work = committed /\ work \in Worlds /\ Staked(committed) \in Nat
  BY DispatchedType DEF ChainStep, EndBlock, SlashStake, SlashEntry, Reward,
     RedelegationCompletes, Happens, Idle, Typed, WorldOK
<1>2. CASE committed'.coins["fees"] = committed.coins["fees"]
           /\ committed'.delegation = committed.delegation
  <2>1. Fees(committed') = Fees(committed) /\ Staked(committed') <= Staked(committed)
    BY <1>1, <1>2 DEF Fees, Staked
  <2>2. QED
    BY <2>1, NothingDispatched
<1>3. CASE EndBlock
  <2>1. committed'.coins["fees"] = committed.coins["fees"]
        /\ committed'.delegation = committed.delegation
    <3>1. PICK hub : committed'.coins = [committed.coins EXCEPT !["hub"] = hub]
                     /\ committed'.delegation = committed.delegation
      BY <1>1, <1>3 DEF EndBlock, Happens, Worlds
    <3>2. QED
      BY <1>1, <3>1, FeesApart DEF Worlds
  <2>2. QED
    BY <1>2, <2>1
<1>4. ASSUME NEW v \in Validators, NEW loss \in Losses, SlashStake(v, loss)
      PROVE  DispatchesAll
  <2> DEFINE d == committed.delegation
             e == committed'.delegation
  <2>1. /\ committed'.coins = committed.coins
        /\ e = [d EXCEPT ![v] = @ - loss] /\ loss < d[v] /\ loss \in Nat
        /\ d \in [Validators -> Nat]
    BY <1>1, <1>4, ProtocolAssumption DEF SlashStake, Happens, Worlds
  <2> HIDE DEF d, e
  <2>2. Differ(d, e, Validators, v) /\ e[v] = d[v] - loss
    BY <2>1 DEF Differ
  <2>3. /\ SumOver(d, Validators) \in Nat /\ SumOver(e, Validators) \in Nat
        /\ d[v] \in Nat /\ e[v] \in Nat
        /\ SumOver(e, Validators) + d[v] = SumOver(d, Validators) + e[v]
    BY <2>2, AccountsFinite, SumDiffers
  <2>4. loss \in Nat
    BY <2>1
  <2>5. SumOver(e, Validators) <= SumOver(d, Validators)
    BY ONLY <2>2, <2>3, <2>4
  <2>6. Fees(committed') = Fees(committed) /\ Staked(committed') <= Staked(committed)
    BY <2>1, <2>5 DEF Fees, Staked, d, e
  <2>7. QED
    BY <2>6, NothingDispatched
<1>5. ASSUME NEW v \in Validators, NEW t \in 0..MaxTime, NEW loss \in Losses,
             SlashEntry(v, t, loss)
      PROVE  DispatchesAll
  <2>1. committed'.coins = committed.coins /\ committed'.delegation = committed.delegation
    BY <1>1, <1>5 DEF SlashEntry, Happens, Worlds
  <2>2. QED
    BY <1>2, <2>1
<1>6. ASSUME NEW v \in Validators, Reward(v, 1)
      PROVE  DispatchesAll
  <2>1. committed'.coins = committed.coins /\ committed'.delegation = committed.delegation
    BY <1>1, <1>6 DEF Reward, Happens, Worlds
  <2>2. QED
    BY <1>2, <2>1
<1>7. ASSUME NEW v \in Validators, RedelegationCompletes(v)
      PROVE  DispatchesAll
  <2>1. committed'.coins = committed.coins /\ committed'.delegation = committed.delegation
    BY <1>1, <1>7 DEF RedelegationCompletes, Happens, Worlds
  <2>2. QED
    BY <1>2, <2>1
<1>8. QED
  BY <1>3, <1>4, <1>5, <1>6, <1>7 DEF ChainStep

LEMMA EveryDispatch ==
  ASSUME Typed, Typed', Taking, [Next]_vars
  PROVE  DispatchesAll
<1>1. CASE committed' = committed
  <2>1. Staked(committed) \in Nat
    BY DispatchedType DEF Typed, WorldOK
  <2>2. QED
    BY <1>1, <2>1, NothingDispatched
<1>2. CASE UNCHANGED vars \/ Abort \/ \E m \in Signed : Submit(m)
  BY <1>1, <1>2 DEF vars, Abort, Submit
<1>3. CASE Handled
  <2>1. committed' = committed
    BY <1>3, HandlerOf
  <2>2. QED
    BY <1>1, <2>1
<1>4. QED
  BY <1>2, <1>3, CommitDispatches, ChainDispatches DEF Next, Handled

\* However a dispatch is caused, by anybody's DispatchRewards or by the removal
\* of a validator, and however many validators there are: a transaction of the
\* hub, the dispatcher, the registry and the chain that pays a fee, or delegates
\* more without a user who pays for it, has collected all the rewards of all
\* validators, paid the fee of execute_dispatch_rewards to the coin, and
\* delegated the rest to the last coin.  The messages that do so are spread
\* over four handlers and as many as the validators, and may fail at each.
THEOREM DispatchIsComplete ==
  Spec => DispatchTakesAll
<1> DEFINE Inv == Typed /\ Earned /\ Taking
<1>1. Init => Inv
  BY TypedInit, TakingInit
<1>2. Inv /\ [Next]_vars => Inv'
  BY TypedStep, EarnedStep, TakingStep
<1>3. Inv /\ Inv' /\ [Next]_vars =>
        (\/ Fees(committed') > Fees(committed)
         \/ /\ Staked(committed') > Staked(committed)
            /\ \A u \in Users : committed'.coins[u] = committed.coins[u]
         => /\ Undispatched(committed') = 0
            /\ Fees(committed') - Fees(committed) = Times(Undispatched(committed), FeeRate)
            /\ Staked(committed') - Staked(committed)
                 = Undispatched(committed) - Times(Undispatched(committed), FeeRate))
  BY EveryDispatch DEF DispatchesAll, AllTaken
<1> HIDE DEF Inv
<1>4. QED
  BY <1>1, <1>2, <1>3, PTL DEF Spec, DispatchTakesAll
=============================================================================
