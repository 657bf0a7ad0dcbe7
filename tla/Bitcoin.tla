------------------------------ MODULE Bitcoin ------------------------------
(***************************************************************************)
(* Bitcoin as the data sources of crates/btc report it: transactions that  *)
(* spend outpoints, in the mempool or confirmed at a height.  External;    *)
(* modelled from how BtcDataSource is queried.                             *)
(***************************************************************************)
EXTENDS Integers, FiniteSets

CONSTANTS
    Outpoints,     \* Bitcoin outpoints RGB++ cells are bound to, numbered
    Txids,         \* Bitcoin transactions that spend them
    Spends,        \* Spends[x]: the outpoints x spends
    NoTx,          \* no transaction
    MaxBtcHeight,  \* bound on the height of Bitcoin
    MaxUnwinds     \* bound on replacements and Bitcoin reorganisations

ASSUME BitcoinAssumption ==
    /\ Outpoints \subseteq Nat /\ IsFiniteSet(Outpoints)
    /\ Spends \in [Txids -> SUBSET Outpoints]
    /\ NoTx \notin Txids
    /\ MaxBtcHeight \in Nat /\ MaxUnwinds \in Nat

Absent  == -1
Mempool == 0

VARIABLES
    btcTip,  \* height of Bitcoin
    seen,    \* seen[x]: Absent, Mempool, or the height x is confirmed at
    unwinds

btcVars == <<btcTip, seen, unwinds>>

BtcTypeOK ==
    /\ btcTip \in 0 .. MaxBtcHeight
    /\ seen \in [Txids -> Absent .. MaxBtcHeight]
    /\ unwinds \in 0 .. MaxUnwinds

BtcInit ==
    /\ btcTip = 0
    /\ seen = [x \in Txids |-> Absent]
    /\ unwinds = 0

Conflicts(x) == {y \in Txids \ {x} : Spends[x] \cap Spends[y] # {} /\ seen[y] # Absent}

Broadcast(x) ==
    /\ seen[x] = Absent
    /\ Conflicts(x) = {}
    /\ seen' = [seen EXCEPT ![x] = Mempool]
    /\ UNCHANGED <<btcTip, unwinds>>

\* A block confirms some of the mempool.
MineBtc ==
    /\ btcTip < MaxBtcHeight
    /\ btcTip' = btcTip + 1
    /\ \E confirmed \in SUBSET {x \in Txids : seen[x] = Mempool} :
          seen' = [x \in Txids |-> IF x \in confirmed THEN btcTip + 1 ELSE seen[x]]
    /\ UNCHANGED unwinds

\* x replaces the mempool transactions it conflicts with.
Replace(x) ==
    /\ unwinds < MaxUnwinds
    /\ seen[x] = Absent
    /\ Conflicts(x) # {}
    /\ \A y \in Conflicts(x) : seen[y] = Mempool
    /\ unwinds' = unwinds + 1
    /\ seen' = [y \in Txids |-> IF y = x THEN Mempool
                                ELSE IF y \in Conflicts(x) THEN Absent ELSE seen[y]]
    /\ UNCHANGED btcTip

\* The top block is replaced by an empty one, its transactions go back to the
\* mempool.
BtcReorg ==
    /\ unwinds < MaxUnwinds
    /\ \E x \in Txids : seen[x] = btcTip /\ btcTip > 0
    /\ unwinds' = unwinds + 1
    /\ seen' = [x \in Txids |-> IF seen[x] = btcTip THEN Mempool ELSE seen[x]]
    /\ UNCHANGED btcTip

BtcNext ==
    \/ \E x \in Txids : Broadcast(x) \/ Replace(x)
    \/ MineBtc
    \/ BtcReorg

SpentStatuses == {"spent_unconfirmed", "spent_confirmed"}

\* A data source's answer about an outpoint.
Answer(status, x, h) == [status |-> status, spender |-> x, height |-> h]

Unknown == Answer("unknown", NoTx, 0)

SpentBy(o, x) == o \in Spends[x] /\ seen[x] # Absent

OutpointStatus(o) ==
    IF \E x \in Txids : SpentBy(o, x)
    THEN LET x == CHOOSE x \in Txids : SpentBy(o, x)
         IN  IF seen[x] = Mempool
             THEN Answer("spent_unconfirmed", x, 0)
             ELSE Answer("spent_confirmed", x, seen[x])
    ELSE Answer("unspent", NoTx, 0)
=============================================================================
