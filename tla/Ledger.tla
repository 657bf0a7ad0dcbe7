------------------------------- MODULE Ledger -------------------------------
(***************************************************************************)
(* What the verifier and the address backfill share: the rows they read    *)
(* and label, and the Bitcoin data source both ask for transactions.       *)
(*                                                                         *)
(* Transitions are numbered in the order they are indexed in, several to a *)
(* block, and Bitcoin transactions in txid order.                          *)
(***************************************************************************)
EXTENDS Integers, FiniteSets, FiniteSetsExt, Functions

CONSTANTS
    Transitions,  \* numbered 1, 2, ... as they are indexed
    BlockOf,      \* BlockOf[t]: block_number
    TxidOf,       \* TxidOf[t]: btc_txid, or NoTxid
    NoTxid,
    Issuances,    \* transitions of kind issuance
    Expected,     \* Expected[t]: expected_commitment
    NoCommitment,
    Txids,        \* numbered in txid order
    Payloads,     \* Payloads[x]: the 32-byte OP_RETURN payloads, in output order
    Bindings,
    FundedBy,     \* FundedBy[b]: the transaction with the bound output
    BoundBy,      \* BoundBy[b]: the transition whose cell is bound to it
    Addressed,    \* bindings whose output the source can render as an address
    Early,        \* transactions the source knows from the start
    Hidden,       \* transactions it never knows
    Broken,       \* transactions it answers with an error, always
    MaxFaults     \* bound on failed calls and crashes

ASSUME LedgerAssumption ==
    /\ IsFiniteSet(Transitions) /\ Transitions = 1 .. Cardinality(Transitions)
    /\ BlockOf \in [Transitions -> Nat]
    /\ \A t, u \in Transitions : t <= u => BlockOf[t] <= BlockOf[u]
    /\ IsFiniteSet(Txids) /\ Txids \subseteq Nat \ {0}
    /\ TxidOf \in [Transitions -> Txids \cup {NoTxid}] /\ NoTxid \notin Txids
    /\ Issuances \subseteq Transitions /\ DOMAIN Expected = Transitions
    /\ \A x \in Txids :
          /\ DOMAIN Payloads[x] \subseteq Nat
          /\ \A i \in DOMAIN Payloads[x] :
                Payloads[x][i].tagged \in BOOLEAN /\ Payloads[x][i].value # NoCommitment
    /\ FundedBy \in [Bindings -> Txids] /\ BoundBy \in [Bindings -> Transitions]
    /\ Addressed \subseteq Bindings
    /\ Early \subseteq Txids /\ Hidden \subseteq Txids \ Early /\ Broken \subseteq Txids
    /\ MaxFaults \in Nat

VARIABLES
    indexed,    \* transitions 1 .. indexed have rows
    known,      \* transactions the data source knows
    status,     \* status[t]: commitment_status
    anomalies,  \* rgbpp_anomalies: <<kind, t>>
    cached,     \* btc_txs
    labels,     \* bindings with an address in btc_outpoints
    faults

ledgerVars == <<indexed, known, status, anomalies, cached, labels, faults>>

Statuses ==
    {"unchecked", "match", "mismatch", "missing", "btc_unknown", "not_applicable"}

LedgerInit ==
    /\ indexed = 0
    /\ known = Early
    /\ status = [t \in Transitions |-> "unchecked"]
    /\ anomalies = {} /\ cached = {} /\ labels = {}
    /\ faults = 0

\* The data source learns of a transaction.
Appear(x) ==
    /\ x \notin known \cup Hidden
    /\ known' = known \cup {x}
    /\ UNCHANGED <<indexed, status, anomalies, cached, labels, faults>>

\* Something fails: a request to the source, or a statement.
Fault ==
    /\ faults < MaxFaults
    /\ faults' = faults + 1

Bound == {b \in Bindings : BoundBy[b] <= indexed}

\* Mutant: every addressable output is stored, bound or not.
LabelledAll(x) == {b \in Addressed : FundedBy[b] = x}

\* record_addresses: the addressable outputs of x that carry an indexed cell.
Labelled(x) == {b \in Bound \cap Addressed : FundedBy[b] = x}
=============================================================================
