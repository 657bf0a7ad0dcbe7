------------------------------- MODULE Chain -------------------------------
(***************************************************************************)
(* The outside world of the scanner: the CKB node's canonical chain and    *)
(* the rich indexer that follows it.  Both are separate services; they     *)
(* are modelled from how crates/ckb/src/client.rs queries them.            *)
(*                                                                         *)
(* A block is a fork number and the protocol transactions it carries.      *)
(* Blocks on the branch opened by the k-th reorganisation carry fork k,    *)
(* so <<height, fork>> identifies a block and its ancestry the way a       *)
(* header hash does.                                                       *)
(***************************************************************************)
EXTENDS Extract

CONSTANTS
    MaxHeight,          \* bound on the height of the chain
    MaxForks,           \* bound on the number of reorganisations
    MaxReorgDepth,      \* deepest reorganisation the network produces
    Bodies,             \* block bodies that can be mined
    Genesis,            \* body of block 0
    IndexerStartsEmpty  \* the rich indexer has not processed any block yet

ASSUME ChainAssumption ==
    /\ MaxHeight \in Nat /\ MaxForks \in Nat /\ MaxReorgDepth \in Nat
    /\ Bodies \subseteq Seq(Txs)
    /\ Genesis \in Seq(Txs)
    /\ IndexerStartsEmpty \in BOOLEAN

Heights == 0 .. MaxHeight

VARIABLES
    chain,   \* chain[h]: the node's block at height h, for h \in 0..tip
    tip,     \* the node's tip
    forks,   \* reorganisations so far
    idx,     \* idx[h]: the block the rich indexer processed at height h
    idxTip   \* the rich indexer's tip, -1 while it reports none

chainVars == <<chain, tip, forks, idx, idxTip>>

Block == [fork : Nat, txs : Seq(Txs)]

ChainTypeOK ==
    /\ chain \in [Heights -> Block]
    /\ tip \in Heights
    /\ forks \in Nat
    /\ idx \in [Heights -> Block]
    /\ idxTip \in -1 .. MaxHeight

\* The transaction t sits at index i of block h of the branch b of height top.
PlacedAt(b, top, h, i, t) ==
    /\ h \in 0 .. top
    /\ i \in DOMAIN b[h].txs
    /\ b[h].txs[i] = t

Before(h1, i1, h2, i2) == h1 < h2 \/ (h1 = h2 /\ i1 < i2)

\* Consensus rules: a transaction is on the chain at most once, spends only
\* cells created before it, and no cell is spent twice.
ValidBranch(b, top) ==
    \A h \in 0 .. top : \A i \in DOMAIN b[h].txs :
        /\ \A h2 \in 0 .. top : \A i2 \in DOMAIN b[h2].txs :
              <<h, i>> # <<h2, i2>> =>
                  /\ b[h].txs[i] # b[h2].txs[i2]
                  /\ Inputs[b[h].txs[i]] \cap Inputs[b[h2].txs[i2]] = {}
        /\ \A c \in Inputs[b[h].txs[i]] :
              \E h0 \in 0 .. h : \E i0 \in DOMAIN b[h0].txs :
                  /\ Before(h0, i0, h, i)
                  /\ c \in Outputs[b[h0].txs[i0]]

Unmined == [fork |-> 0, txs |-> <<>>]

ChainInit ==
    /\ chain = [h \in Heights |->
                   IF h = 0 THEN [fork |-> 0, txs |-> Genesis] ELSE Unmined]
    /\ ValidBranch(chain, 0)
    /\ tip = 0
    /\ forks = 0
    /\ idx = chain
    /\ idxTip = IF IndexerStartsEmpty THEN -1 ELSE 0

\* The node extends its chain by one block.
Mine(body) ==
    /\ tip < MaxHeight
    /\ tip' = tip + 1
    /\ chain' = [chain EXCEPT ![tip + 1] = [fork |-> forks, txs |-> body]]
    /\ ValidBranch(chain', tip')
    /\ UNCHANGED <<forks, idx, idxTip>>

\* The node switches to a branch that forks off `depth` blocks below its tip.
Reorg(depth, bodies) ==
    /\ forks < MaxForks
    /\ depth <= tip
    /\ forks' = forks + 1
    /\ chain' = [h \in Heights |->
                    IF h \in tip - depth + 1 .. tip
                    THEN [fork |-> forks + 1, txs |-> bodies[h]]
                    ELSE chain[h]]
    /\ ValidBranch(chain', tip)
    /\ UNCHANGED <<tip, idx, idxTip>>

\* The rich indexer processes the node's next block ...
IndexerAdvance ==
    /\ idxTip < tip
    /\ idxTip >= 0 => idx[idxTip] = chain[idxTip]
    /\ idx' = [idx EXCEPT ![idxTip + 1] = chain[idxTip + 1]]
    /\ idxTip' = idxTip + 1
    /\ UNCHANGED <<chain, tip, forks>>

\* ... or rolls back a block the node has abandoned.
IndexerRollback ==
    /\ idxTip > 0
    /\ idx[idxTip] # chain[idxTip]
    /\ idxTip' = idxTip - 1
    /\ UNCHANGED <<chain, tip, forks, idx>>

ReorgStep ==
    \E depth \in 1 .. MaxReorgDepth :
        \E bodies \in [tip - depth + 1 .. tip -> Bodies] : Reorg(depth, bodies)

ChainNext ==
    \/ \E body \in Bodies : Mine(body)
    \/ ReorgStep
    \/ IndexerAdvance
    \/ IndexerRollback
=============================================================================
