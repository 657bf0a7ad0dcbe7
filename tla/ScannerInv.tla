----------------------------- MODULE ScannerInv -----------------------------
(***************************************************************************)
(* The inductive invariant behind RowsSound, CheckpointComplete and        *)
(* RowsPermanent, for any number of scanners and any chain, as long as the *)
(* lag is at least as deep as the reorganisations.                         *)
(***************************************************************************)
EXTENDS Scanner

\* The conditions under which the promises hold.
LagSuffices ==
    /\ MaxReorgDepth <= ReorgLag
    /\ ~ IndexerStartsEmpty
    /\ StartBlock >= 1

\* The rich indexer is on the node's chain, except for blocks it has still to
\* roll back; and a shared block means a shared ancestry.
WorldInv ==
    /\ ValidBranch(chain, tip)
    /\ idxTip \in 0 .. tip
    /\ \A h \in 0 .. tip : chain[h].fork <= forks
    /\ \A h \in 0 .. idxTip : idx[h].fork <= forks
    /\ idx[0] = chain[0]
    /\ \A h \in 0 .. idxTip :
          idx[h].fork = chain[h].fork => \A g \in 0 .. h : idx[g] = chain[g]
    /\ \A h \in 0 .. idxTip - ReorgLag : idx[h] = chain[h]

IndexedUpTo(n) ==
    /\ n >= StartBlock - 1
    /\ n >= StartBlock => n <= FinalHeight
    /\ \A h \in StartBlock .. n : BlockIndexed(h)

AfterTip   == PcLabels \ {"idle", "node_tip", "indexer_tip"}
AfterCheck == AfterTip \ {"progress", "check"}
Processing == {"process", "apply"}

\* The blocks up to the target of a round are settled, at both endpoints.
TargetSettled(j) ==
    /\ j.tip <= tip
    /\ \A h \in 0 .. j.tip - ReorgLag : h <= idxTip /\ idx[h] = chain[h]

RangeOK(j) ==
    /\ j.from >= StartBlock
    /\ j.from - 1 <= j.cp
    /\ j.to <= j.tip - ReorgLag
    /\ j.to >= j.from

\* Every match is a transaction of the range ...
HitsSound(j) ==
    \A m \in j.hits :
        m.block \in j.from .. j.to /\ PlacedAt(chain, tip, m.block, m.index, m.tx)

HitFor(h, i, lock) ==
    [block |-> h, index |-> i, tx |-> chain[h].txs[i], lock |-> lock]

\* ... and all searches of `locks` have found it.
Found(j, h, i, locks) ==
    \A lock \in locks :
        Touches(chain[h].txs[i], lock) => HitFor(h, i, lock) \in j.hits

AllFound(j, locks) ==
    \A h \in j.from .. j.to : \A i \in DOMAIN chain[h].txs : Found(j, h, i, locks)

\* Everything the transaction at (h, i) says is in the batch.
TxBatched(j, h, i) ==
    LET t == chain[h].txs[i] IN
    /\ \A c \in ClassifyOutputs(t) :
          c \in DOMAIN j.created /\ j.created[c] = PlaceAt(h, i)
    /\ \A c \in Inputs[t] :
          c \in DOMAIN j.consumed /\ j.consumed[c] = [by |-> t, at |-> PlaceAt(h, i)]
    /\ Extractable(Inputs[t], ClassifyOutputs(t)) =>
          /\ t \in DOMAIN j.transitions
          /\ j.transitions[t] =
                [at |-> PlaceAt(h, i),
                 what |-> TransitionOf(Inputs[t], ClassifyOutputs(t))]

HasHit(j, h, i) == \E m \in j.hits : m.block = h /\ m.index = i

\* A transaction of the range is still to do, with all its matches, or done.
DoneOrPending(j) ==
    \A h \in j.from .. j.to : \A i \in DOMAIN chain[h].txs :
        IF HasHit(j, h, i) THEN Found(j, h, i, LockKinds) ELSE TxBatched(j, h, i)

HeadersOK(j) ==
    /\ HitBlocks(j.hits) \subseteq DOMAIN j.headers
    /\ \A h \in DOMAIN j.headers : h \in j.from .. j.to /\ j.headers[h] = chain[h].fork

Anchored(p) == p = PlaceAt(p.block, p.index)

\* What a row may say, wherever it is kept.
CreatedSound(c, p) ==
    /\ Anchored(p)
    /\ \/ \E t \in Txs : c \in ClassifyOutputs(t) /\ CanonicalPlace(p, t)
       \/ BackfillPlace(p, c)

ConsumedSound(c, r) ==
    /\ r = [by |-> r.by, at |-> PlaceAt(r.at.block, r.at.index)]
    /\ r.by \in Txs
    /\ c \in Inputs[r.by]
    /\ CanonicalPlace(r.at, r.by)

TransitionSound(t, r) ==
    /\ r = [at |-> PlaceAt(r.at.block, r.at.index),
            what |-> TransitionOf(Inputs[t], ClassifyOutputs(t))]
    /\ CanonicalPlace(r.at, t)

TablesSound ==
    /\ \A c \in DOMAIN created : CreatedSound(c, created[c])
    /\ \A c \in DOMAIN consumed : ConsumedSound(c, consumed[c])
    /\ \A t \in DOMAIN transitions : TransitionSound(t, transitions[t])

BatchSound(j) ==
    /\ \A c \in DOMAIN j.created : CreatedSound(c, j.created[c])
    /\ \A c \in DOMAIN j.consumed :
          ConsumedSound(c, j.consumed[c]) /\ c \in DOMAIN j.created \cup DOMAIN created
    /\ \A t \in DOMAIN j.transitions : TransitionSound(t, j.transitions[t])

EmptyBatch(j) ==
    j.created = NoRows /\ j.consumed = NoRows /\ j.transitions = NoRows

JobInv(l, j) ==
    /\ l # "idle" => IndexedUpTo(j.cp)
    /\ l = "indexer_tip" => j.tip <= tip
    /\ l \in AfterTip => TargetSettled(j)
    /\ l = "check" => j.cp < j.tip - ReorgLag
    /\ l \in AfterCheck => RangeOK(j)
    /\ l \in AfterCheck => HitsSound(j)
    /\ l \in PcLabels \ {"process", "apply", "prune"} => EmptyBatch(j)
    /\ l \in (PcLabels \ AfterCheck) \cup {"collect_rgbpp"} => j.hits = {}
    /\ l = "collect_btc_time" => AllFound(j, {"rgbpp"})
    /\ l = "headers" => AllFound(j, LockKinds)
    /\ l \in Processing => HeadersOK(j) /\ BatchSound(j) /\ DoneOrPending(j)
    /\ l = "apply" => j.hits = {}

StoreInv ==
    /\ checkpoint # NULL => IndexedUpTo(checkpoint)
    /\ TablesSound

IInv ==
    /\ WorldInv
    /\ StoreInv
    /\ \A s \in Scanners : JobInv(pc[s], job[s])

-----------------------------------------------------------------------------
(* One scanner alone on the database.  AloneInv needs nothing of the lag:    *)
(* it also holds while a deep reorganisation is under way.                   *)

OneScanner == \A r, s \in Scanners : r = s

\* A hash on record belongs to a block that has been seen, and a fork number
\* is never given out twice.
CheckpointInv ==
    /\ checkpoint >= NULL
    /\ checkpoint # NULL => checkpoint >= InitialCheckpoint
    /\ checkpoint = NULL => cpFork = NULL
    /\ cpFork # NULL => checkpoint <= tip
    /\ cpFork <= forks
    /\ \A h \in 0 .. tip : chain[h].fork <= forks

\* Nobody else moves the checkpoint a round has read, until the round commits.
RoundInv(l, j) ==
    /\ l # "idle" => checkpoint # NULL
    /\ l \notin {"idle", "prune"} => j.cp = checkpoint
    /\ l = "prune" => j.to = checkpoint
    /\ l \in BeforeCheck \ {"idle"} => j.cpFork = cpFork
    /\ l \notin {"idle", "node_tip"} => j.tip <= tip
    /\ l = "check" => j.cp < j.tip - ReorgLag
    /\ l \in AfterCheck =>
          /\ j.from = j.cp + 1
          /\ j.to >= j.from
          /\ j.to <= j.cp + BatchBlocks
          /\ j.to <= j.tip - ReorgLag
    /\ \A h \in DOMAIN j.headers : j.headers[h] \in 0 .. forks
    /\ l = "apply" => j.cpFork \in 0 .. forks

AloneInv ==
    /\ CheckpointInv
    /\ \A s \in Scanners : RoundInv(pc[s], job[s])

\* The header rows are those of the canonical chain, and the ones a rollback
\* would need are there.
BlocksInv ==
    /\ \A h \in DOMAIN blocks :
          /\ h \in StartBlock .. FinalHeight
          /\ blocks[h].fork = chain[h].fork
          /\ blocks[h].activity = HasActivity(h)
    /\ \A h \in StartBlock .. checkpoint :
          h >= checkpoint - HeaderRetention /\ HasActivity(h) => h \in DOMAIN blocks
    /\ cpFork # NULL => checkpoint \in DOMAIN blocks

\* A round has the header of every block with activity, and of its last one.
HeaderInv(l, j) ==
    /\ l \in Processing => DOMAIN j.headers = {h \in j.from .. j.to : HasActivity(h)}
    /\ l = "apply" => j.cpFork = chain[j.to].fork

\* Nothing is known from above block n: neither rows of the tables cr, co and
\* tr lie there, nor do cells from below start_block show a spend up there.
UpTo(n, cr, co, tr) ==
    /\ \A c \in DOMAIN cr :
          /\ cr[c].block <= n
          /\ cr[c].index = UnknownTxIndex => c \in DOMAIN co
    /\ \A c \in DOMAIN co : co[c].at.block <= n
    /\ \A t \in DOMAIN tr :
          tr[t].at.block <= n /\ Extractable(Inputs[t], ClassifyOutputs(t))

\* The tables hold no more than the blocks up to the checkpoint say.
ExactInv ==
    /\ UpTo(checkpoint, created, consumed, transitions)
    /\ \A s \in Scanners :
          pc[s] \in Processing =>
              UpTo(job[s].to, job[s].created, job[s].consumed, job[s].transitions)

SoloInv ==
    /\ AloneInv
    /\ BlocksInv
    /\ \A s \in Scanners : HeaderInv(pc[s], job[s])
    /\ ExactInv
=============================================================================
