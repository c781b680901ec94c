----------------------------- MODULE HubQueries -----------------------------
(***************************************************************************)
(* The queries of the hub, next to the transactions of module Hub: what    *)
(* they promise is compared with what a transaction then does, and a       *)
(* client reads the history page by page while it grows.                   *)
(***************************************************************************)
EXTENDS Hub

CONSTANTS
  Limits,         \* limits the client asks for
  None,           \* no limit, or no start
  DEFAULT_LIMIT,
  MAX_LIMIT

ASSUME QueriesAssumption ==
  /\ None \notin Nat
  /\ Limits \subseteq Nat \union {None}
  /\ {DEFAULT_LIMIT, MAX_LIMIT} \subseteq Nat \ {0}

VARIABLES
  read,     \* the batch ids AllHistory has listed to the client so far
  complete  \* whether the client takes them for the whole history

queryVars == <<now, params, state, batch, history, wait, balance, supply, staked,
               delegated, inflight, read, complete>>

-----------------------------------------------------------------------------
\* query_state: what every handler would work on, slashes included that nobody
\* has booked.
QueriedState == ActualState

QueriedAnyBatch(b) == history[b].time < now  \* mutant: the unbonding period is forgotten

\* Unlike the withdrawal, the query wants the historical time to be later.
QueriedFinished(b) == history[b].time < HistoricalTime

\* query_withdrawable_unbonded: released or not, at the rate that is stored.
\* Before the unbonding period has passed once there is no answer.
WithdrawableUnbonded(u) ==
  SumTo([b \in DOMAIN history |->
           IF QueriedFinished(b) THEN Times(wait[u][b], history[b].statom_withdraw_rate) ELSE 0],
        Len(history))

StartInclusive(start) == IF start = None THEN 1 ELSE start  \* mutant: the start is listed again

\* The key convert makes comes right after that of start.
FirstListed(start) == IF start = None THEN 1 ELSE start + 1

AsMany(limit) == IF limit = None THEN DEFAULT_LIMIT ELSE IF limit < MAX_LIMIT THEN limit ELSE MAX_LIMIT

\* all_unbond_history, of which only the batch ids matter here.
AllHistory(start, limit) ==
  LET first == FirstListed(start)
      last == Least(first + AsMany(limit) - 1, Len(history))
  IN  [i \in 1..(last - first + 1) |-> first + i - 1]

-----------------------------------------------------------------------------
QueriesInit == Init /\ read = <<>> /\ complete = FALSE

\* The client goes on after the last batch it knows, and thinks that it has
\* read all when it gets fewer than it may.
ReadPage(limit) ==
  LET start == IF read = <<>> THEN None ELSE read[Len(read)]
      page == AllHistory(start, limit)
  IN  /\ read' = read \o page
      /\ complete' = (Len(page) < AsMany(limit))
      /\ UNCHANGED vars

Forget ==
  /\ read # <<>>
  /\ read' = <<>>
  /\ complete' = FALSE
  /\ UNCHANGED vars

QueriesNext ==
  \/ Next /\ UNCHANGED read /\ complete' = FALSE
  \/ \E limit \in Limits : ReadPage(limit)
  \/ Forget

QueriesSpec == QueriesInit /\ [][QueriesNext]_queryVars

\* Nobody has to read the history.
QueriesFairSpec == QueriesSpec /\ Fairness

-----------------------------------------------------------------------------
\* With no losses, what the query says can be withdrawn can be withdrawn at
\* once, but for two coins for each batch that the withdrawal releases: its
\* value and the rate derived from that are both truncated.
PromiseKept ==
  \A u \in Users :
    params.unbonding_period <= now =>
      /\ WithdrawableUnbonded(u)
           <= FinishedAmount(u, ProcessedHistory) + 2 * Cardinality(NewlyFinished)
      /\ FinishedAmount(u, ProcessedHistory) <= balance

\* At the rate the hub quotes, all the stAtom there is is worth no more than
\* what is delegated, also after a slash that is in nobody's books yet.
QuotedRateBacked ==
  ~TotalLoss =>
    QueriedState.statom_exchange_rate * (supply + batch.requested_statom)
      <= staked * DECIMAL_FRACTIONAL

\* However the pages are cut, and though batches are added in the meantime:
\* the client has every batch once and in order, and when it thinks that it
\* has them all it has.
PagesCoverHistory ==
  /\ \A i \in DOMAIN read : read[i] = i
  /\ complete => Len(read) = Len(history)
=============================================================================
