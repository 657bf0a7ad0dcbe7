------------------------------ MODULE Extract ------------------------------
(***************************************************************************)
(* What one CKB transaction says about RGB++ state                         *)
(* (crates/indexer/src/extract.rs, crates/types/src/protocol.rs).          *)
(*                                                                         *)
(* A transaction hash determines its body, so the bodies are constants:    *)
(* the cells of a transaction that carry one of the two protocol locks.    *)
(* Cells under any other lock are passed over by `classify` and are left   *)
(* out.  A cell is its CKB outpoint; its lock args name one Bitcoin        *)
(* transaction, unless they cannot be parsed (Malformed).                  *)
(***************************************************************************)
EXTENDS Integers, Sequences, FiniteSets

CONSTANTS
    Txs,        \* CKB transactions that touch a protocol lock
    Cells,      \* CKB outpoints
    Inputs,     \* Inputs[t]: the protocol cells t consumes
    Outputs,    \* Outputs[t]: the protocol cells t creates
    LockOf,     \* LockOf[c]: "rgbpp" or "btc_time"
    BoundTxid,  \* BoundTxid[c]: the Bitcoin transaction the args name
    Malformed,  \* cells whose args LockBinding::parse rejects
    NoTxid      \* the NULL of a Bitcoin txid column

LockKinds == {"rgbpp", "btc_time"}

\* An outpoint embeds the hash of the transaction that creates it, so two
\* transactions never create the same cell.  Txs are the transactions a lock
\* search can return: each has a protocol cell on one side.
ASSUME BodyAssumption ==
    /\ Inputs \in [Txs -> SUBSET Cells]
    /\ Outputs \in [Txs -> SUBSET Cells]
    /\ LockOf \in [Cells -> LockKinds]
    /\ Malformed \subseteq Cells
    /\ \A t, u \in Txs : t # u => Outputs[t] \cap Outputs[u] = {}
    /\ \A t \in Txs : Inputs[t] \cup Outputs[t] # {}

\* Whether a lock search for `lock` matches t on either side.
Touches(t, lock) == \E c \in Inputs[t] \cup Outputs[t] : LockOf[c] = lock

\* The outputs that survive parsing; the others are skipped one by one.
ClassifyOutputs(t) == Outputs[t] \ Malformed

\* The order of the alternatives is the order of the code's tests.
ClassifyTransition(ins, outs) ==
    CASE \E c \in ins : LockOf[c] = "btc_time"   -> "btc_time_unlock"
      [] \A c \in ins : LockOf[c] # "rgbpp"      -> "issuance"
      [] outs # {} /\ \A c \in outs : LockOf[c] = "btc_time" -> "leap_to_ckb"
      [] \E c \in outs : LockOf[c] = "rgbpp"     -> "transfer"
      [] OTHER                                   -> "exit"

\* The single Bitcoin transaction all outputs are bound to, if there is one.
DeriveBtcTxid(outs) ==
    IF \E c \in outs : \A d \in outs : BoundTxid[d] = BoundTxid[c]
    THEN BoundTxid[CHOOSE c \in outs : TRUE]
    ELSE NoTxid

\* A collision-free digest of the cells it covers is the cells themselves.
ExpectedCommitment(ins, outs) == <<ins, outs>>

\* extract() refuses a transaction of which nothing readable is left.
Extractable(ins, outs) == ins # {} \/ outs # {}

\* The transition row of a transaction, without the place it was found at.
TransitionOf(ins, outs) ==
    [kind       |-> ClassifyTransition(ins, outs),
     btcTxid    |-> DeriveBtcTxid(outs),
     commitment |-> ExpectedCommitment(ins, outs)]
=============================================================================
