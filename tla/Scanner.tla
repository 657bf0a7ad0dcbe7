------------------------------ MODULE Scanner ------------------------------
(***************************************************************************)
(* CKB discovery: crates/indexer/src/scanner.rs over the tables of         *)
(* crates/store/src/{state,cells,transitions,blocks}.rs.                   *)
(*                                                                         *)
(* Every remote call or database statement of scan_once is a step of its   *)
(* own, so that the chain, the rich indexer and other scanner processes    *)
(* (the `run` worker and a `scan-once` command share one database) can     *)
(* move between any two of them.  apply_batch is one database transaction  *)
(* and one step.                                                           *)
(***************************************************************************)
EXTENDS Chain

CONSTANTS
    Scanners,         \* scanner processes on the database
    StartBlock,       \* ckb.start_block
    ReorgLag,         \* ckb.reorg_lag
    BatchBlocks,      \* ckb.batch_blocks
    HeaderRetention,  \* ckb.header_retention
    MaxFaults         \* bound on transport errors and process crashes

ASSUME ScannerAssumption ==
    /\ StartBlock \in Nat
    /\ ReorgLag \in Nat
    /\ BatchBlocks \in Nat \ {0}
    /\ HeaderRetention \in Nat
    /\ MaxFaults \in Nat

VARIABLES
    \* table indexer_state; checkpoint is -1 while the row does not exist
    checkpoint, cpFork, progress, lastError,
    \* table rgbpp_cells, its created_* and its consumed_* columns
    created, consumed,
    \* tables rgbpp_transitions and ckb_blocks
    transitions, blocks,
    \* scanner processes: the next step, and the locals of scan_once
    pc, job,
    faults

streamVars == <<checkpoint, cpFork, progress, lastError>>
factVars   == <<created, consumed, transitions>>
dbVars     == <<streamVars, factVars, blocks>>
vars       == <<chainVars, dbVars, pc, job, faults>>

NULL == -1
UnknownTxIndex == -1

\* Rows given by `new` replace those of `old` with the same key.
Upsert(old, new) ==
    [k \in DOMAIN old \cup DOMAIN new |->
        IF k \in DOMAIN new THEN new[k] ELSE old[k]]

NoRows == [k \in {} |-> 0]

\* The block a row is anchored to, and the index of the transaction in it.
Place == [block : Nat, fork : Int, index : Int]

EmptyJob ==
    [cp |-> 0, cpFork |-> NULL, tip |-> 0, from |-> 0, to |-> 0,
     hits |-> {}, headers |-> NoRows,
     created |-> NoRows, consumed |-> NoRows, transitions |-> NoRows]

Init ==
    /\ ChainInit
    /\ checkpoint = NULL /\ cpFork = NULL
    /\ progress = [tip |-> 0, target |-> 0]
    /\ lastError = "none"
    /\ created = NoRows /\ consumed = NoRows
    /\ transitions = NoRows /\ blocks = NoRows
    /\ pc = [s \in Scanners |-> "idle"]
    /\ job = [s \in Scanners |-> EmptyJob]
    /\ faults = 0

-----------------------------------------------------------------------------
(* Helpers of scan_once *)

Goto(s, l) == pc' = [pc EXCEPT ![s] = l]

EndRound(s) ==
    /\ Goto(s, "idle")
    /\ job' = [job EXCEPT ![s] = EmptyJob]

\* Mutant: the first block counts as processed.
InitialCheckpointSkipsStart == StartBlock

InitialCheckpoint == IF StartBlock = 0 THEN 0 ELSE StartBlock - 1

\* The tip both endpoints have reached; a rich indexer without a tip is
\* taken to be as far as the node.
SyncedTip(nodeTip) ==
    IF idxTip = NULL \/ nodeTip <= idxTip THEN nodeTip ELSE idxTip

\* Mutant: the first block of the range is never far enough below the tip.
HasSafeTargetStrict(t) == t - ReorgLag > StartBlock

HasSafeTarget(t) == t - ReorgLag >= StartBlock /\ t >= ReorgLag

RangeFrom(cp) == IF cp + 1 >= StartBlock THEN cp + 1 ELSE StartBlock

\* Mutants: the lag is forgotten; the range is one block too long.
RangeToTip(cp, target) == target + ReorgLag
RangeToInclusive(cp, target) ==
    IF target <= RangeFrom(cp) + BatchBlocks THEN target ELSE RangeFrom(cp) + BatchBlocks

RangeTo(cp, target) ==
    IF target <= RangeFrom(cp) + BatchBlocks - 1
    THEN target ELSE RangeFrom(cp) + BatchBlocks - 1

\* Mutant: only the height is compared.
CheckpointCanonicalByHeight(j) == j.cpFork # NULL /\ j.cp > 0 => j.cp <= tip

\* The node still has the block the checkpoint was taken at.  Nothing is
\* compared before the first batch, or at height 0.
CheckpointCanonical(j) ==
    j.cpFork # NULL /\ j.cp > 0 =>
        j.cp <= tip /\ chain[j.cp].fork = j.cpFork

\* Mutant: the upper end of the range is taken as exclusive.
SearchExclusive(lock, from, to) ==
    UNION {{[block |-> h, index |-> i, tx |-> idx[h].txs[i], lock |-> lock] :
                i \in {k \in DOMAIN idx[h].txs : Touches(idx[h].txs[k], lock)}} :
           h \in {k \in from .. to - 1 : k <= idxTip}}

\* What the rich indexer answers to one lock search over [from, to].
Search(lock, from, to) ==
    UNION {{[block |-> h, index |-> i, tx |-> idx[h].txs[i], lock |-> lock] :
                i \in {k \in DOMAIN idx[h].txs : Touches(idx[h].txs[k], lock)}} :
           h \in {k \in from .. to : k <= idxTip}}

HitBlocks(hits) == {m.block : m \in hits}

\* Mutant: records are processed last first.
IsNextReversed(hits, m) ==
    \A n \in hits : ~ Before(m.block, m.index, n.block, n.index)

\* The next record of the merged list, in (block, tx_index) order.
IsNext(hits, m) ==
    \A n \in hits : ~ Before(n.block, n.index, m.block, m.index)

SameRecord(hits, m) ==
    {n \in hits : n.block = m.block /\ n.index = m.index /\ n.tx = m.tx}

\* The inputs of a record the searches flagged.
FlaggedInputs(hits, m) ==
    {c \in Inputs[m.tx] : \E n \in SameRecord(hits, m) : n.lock = LockOf[c]}

\* Mutant: the database is not asked before the node.
GapsOfBatch(j, ins) == ins \ DOMAIN j.created

\* Flagged inputs neither in this batch nor in the database.
Gaps(j, ins) == ins \ (DOMAIN j.created \cup DOMAIN created)

\* Where the node's canonical chain created c.
CreatedOnChainAt(c, h, i) ==
    \E t \in Txs : PlacedAt(chain, tip, h, i, t) /\ c \in Outputs[t]

OnNodeChain(c) == \E h \in 0 .. tip : \E i \in DOMAIN chain[h].txs :
                      CreatedOnChainAt(c, h, i)

\* backfill_input's row: the creating block if there is one, else block 0
\* with no hash; the position in the block is not known.
BackfillRow(c) ==
    IF OnNodeChain(c)
    THEN LET h == CHOOSE h \in 0 .. tip : \E i \in DOMAIN chain[h].txs :
                      CreatedOnChainAt(c, h, i)
         IN  [block |-> h, fork |-> chain[h].fork, index |-> UnknownTxIndex]
    ELSE [block |-> 0, fork |-> NULL, index |-> UnknownTxIndex]

-----------------------------------------------------------------------------
(* The steps of scan_once *)

\* init_stream: insert the row unless it exists, and read it back.
InitStream(s) ==
    /\ pc[s] = "idle"
    /\ checkpoint' = IF checkpoint = NULL THEN InitialCheckpoint ELSE checkpoint
    /\ job' = [job EXCEPT ![s].cp = checkpoint', ![s].cpFork = cpFork]
    /\ Goto(s, "node_tip")
    /\ UNCHANGED <<chainVars, cpFork, progress, lastError, factVars, blocks, faults>>

\* synced_tip, first call: the node's tip.
GetNodeTip(s) ==
    /\ pc[s] = "node_tip"
    /\ job' = [job EXCEPT ![s].tip = tip]
    /\ Goto(s, "indexer_tip")
    /\ UNCHANGED <<chainVars, dbVars, faults>>

\* synced_tip, second call: the rich indexer's tip.
GetIndexerTip(s) ==
    /\ pc[s] = "indexer_tip"
    /\ job' = [job EXCEPT ![s].tip = SyncedTip(job[s].tip)]
    /\ Goto(s, "progress")
    /\ UNCHANGED <<chainVars, dbVars, faults>>

\* record_chain_progress, and the two early returns of an idle round.
RecordProgress(s) ==
    LET t      == job[s].tip
        target == IF HasSafeTarget(t) THEN t - ReorgLag ELSE 0
    IN  /\ pc[s] = "progress"
        /\ progress' = [tip |-> t, target |-> target]
        /\ IF HasSafeTarget(t) /\ target > job[s].cp
           THEN Goto(s, "check") /\ UNCHANGED job
           ELSE EndRound(s)
        /\ UNCHANGED <<chainVars, checkpoint, cpFork, lastError, factVars, blocks, faults>>

\* assert_checkpoint_still_canonical passes; the range is fixed.
CheckCheckpoint(s) ==
    LET cp == job[s].cp IN
    /\ pc[s] = "check"
    /\ CheckpointCanonical(job[s])
    /\ job' = [job EXCEPT ![s].from = RangeFrom(cp),
                          ![s].to = RangeTo(cp, job[s].tip - ReorgLag)]
    /\ Goto(s, "collect_rgbpp")
    /\ UNCHANGED <<chainVars, dbVars, faults>>

\* collect_range: one search per protocol lock, merged per transaction.
Collect(s, at, lock, next) ==
    /\ pc[s] = at
    /\ job' = [job EXCEPT ![s].hits =
                  @ \cup Search(lock, job[s].from, job[s].to)]
    /\ Goto(s, next)
    /\ UNCHANGED <<chainVars, dbVars, faults>>

CollectRgbpp(s)   == Collect(s, "collect_rgbpp", "rgbpp", "collect_btc_time")
CollectBtcTime(s) == Collect(s, "collect_btc_time", "btc_time", "headers")

\* Mutant: the last block of the range gets no header.
FetchHeadersShort(s) ==
    /\ pc[s] = "headers"
    /\ job' = [job EXCEPT ![s].headers =
                  [h \in HitBlocks(job[s].hits) \ {job[s].to} |-> chain[h].fork]]
    /\ Goto(s, "process")
    /\ UNCHANGED <<chainVars, dbVars, faults>>

\* fetch_headers: the header of every block that produced a match.
FetchHeaders(s) ==
    /\ pc[s] = "headers"
    /\ \A h \in HitBlocks(job[s].hits) : h <= tip
    /\ job' = [job EXCEPT ![s].headers =
                  [h \in HitBlocks(job[s].hits) |-> chain[h].fork]]
    /\ Goto(s, "process")
    /\ UNCHANGED <<chainVars, dbVars, faults>>

\* Where the headers and the searches say a record sits.
RecordPlace(j, m) ==
    [block |-> m.block, fork |-> j.headers[m.block], index |-> m.index]

\* What extract() returns for a record of which `ins` were resolved.
NewCells(j, m) == [c \in ClassifyOutputs(m.tx) |-> RecordPlace(j, m)]

NewSpends(j, m, ins) == [c \in ins |-> [by |-> m.tx, at |-> RecordPlace(j, m)]]

NewTransitions(j, m, ins) ==
    [t \in IF Extractable(ins, ClassifyOutputs(m.tx)) THEN {m.tx} ELSE {} |->
        [at |-> RecordPlace(j, m), what |-> TransitionOf(ins, ClassifyOutputs(m.tx))]]

\* process_transaction for a record.  Flagged inputs are resolved from the
\* batch, from the database, or from the node, in that order; of the last,
\* `gone` are those the node cannot return because their transaction left
\* its chain, and their spends are skipped.
ProcessRecord(s, m, gone) ==
    LET j    == job[s]
        ins  == FlaggedInputs(j.hits, m)
        back == Gaps(j, ins) \ gone
    IN  /\ back \cap Malformed = {}
        /\ job' = [job EXCEPT
              ![s].hits = @ \ SameRecord(j.hits, m),
              ![s].created = Upsert(Upsert(@, [c \in back |-> BackfillRow(c)]),
                                    NewCells(j, m)),
              ![s].consumed = Upsert(@, NewSpends(j, m, ins \ gone)),
              ![s].transitions = Upsert(@, NewTransitions(j, m, ins \ gone))]

Process(s) ==
    /\ pc[s] = "process"
    /\ \E m \in job[s].hits :
         /\ IsNext(job[s].hits, m)
         /\ \E gone \in SUBSET {c \in Gaps(job[s], FlaggedInputs(job[s].hits, m)) :
                                   ~ OnNodeChain(c)} :
               ProcessRecord(s, m, gone)
    /\ UNCHANGED <<chainVars, dbVars, pc, faults>>

\* The checkpoint block's own header, fetched unless it had a match.
CheckpointHeader(s) ==
    LET j == job[s] IN
    /\ pc[s] = "process"
    /\ j.hits = {}
    /\ j.to \in DOMAIN j.headers \/ j.to <= tip
    /\ job' = [job EXCEPT ![s].cpFork =
                  IF j.to \in DOMAIN j.headers THEN j.headers[j.to]
                  ELSE chain[j.to].fork]
    /\ Goto(s, "apply")
    /\ UNCHANGED <<chainVars, dbVars, faults>>

\* The header rows of a batch: the activity blocks and the checkpoint.
\* upsert_block_in never takes an activity flag back.
BlockRows(j) ==
    [h \in DOMAIN j.headers \cup {j.to} |->
        [fork |-> IF h \in DOMAIN j.headers THEN j.headers[h] ELSE j.cpFork,
         activity |-> \/ h \in DOMAIN j.headers
                      \/ h \in DOMAIN blocks /\ blocks[h].activity]]

\* apply_spend updates nothing where there is no row.
SpendsWithRow(j) ==
    [c \in {d \in DOMAIN j.consumed : d \in DOMAIN created \cup DOMAIN j.created} |->
        j.consumed[c]]

\* apply_batch: blocks, cells, spends, transitions and the checkpoint in one
\* database transaction.
ApplyBatch(s) ==
    LET j == job[s] IN
    /\ pc[s] = "apply"
    /\ blocks' = Upsert(blocks, BlockRows(j))
    /\ created' = Upsert(created, j.created)
    /\ consumed' = Upsert(consumed, SpendsWithRow(j))
    /\ transitions' = Upsert(transitions, j.transitions)
    /\ checkpoint' = j.to
    /\ cpFork' = j.cpFork
    /\ progress' = [tip |-> j.tip, target |-> j.tip - ReorgLag]
    /\ lastError' = "none"
    /\ Goto(s, "prune")
    /\ UNCHANGED <<chainVars, job, faults>>

\* Mutant: the last block of the retention window goes too.
PruneOneMore(s) ==
    LET keepFrom == job[s].to - HeaderRetention IN
    /\ pc[s] = "prune"
    /\ blocks' = [h \in {k \in DOMAIN blocks : k > keepFrom} |-> blocks[h]]
    /\ EndRound(s)
    /\ UNCHANGED <<chainVars, streamVars, factVars, faults>>

\* prune_blocks_below, a statement of its own after the commit.
Prune(s) ==
    LET keepFrom == job[s].to - HeaderRetention IN
    /\ pc[s] = "prune"
    /\ blocks' = [h \in {k \in DOMAIN blocks : k >= keepFrom} |-> blocks[h]]
    /\ EndRound(s)
    /\ UNCHANGED <<chainVars, streamVars, factVars, faults>>

-----------------------------------------------------------------------------
(* Failure *)

OnNodeChainTx(t) == \E h \in 0 .. tip : \E i \in DOMAIN chain[h].txs : chain[h].txs[i] = t

\* The round is refused: the checkpoint is off the chain, a header is missing,
\* the node has dropped a matched transaction together with its branch, or a
\* consumed cell to be backfilled has unreadable args.
Refused(s) ==
    LET j == job[s] IN
    \/ pc[s] = "check" /\ ~ CheckpointCanonical(j)
    \/ pc[s] = "headers" /\ \E h \in HitBlocks(j.hits) : h > tip
    \/ pc[s] = "process" /\ j.hits = {} /\ j.to \notin DOMAIN j.headers /\ j.to > tip
    \/ /\ pc[s] = "process"
       /\ \E m \in j.hits :
             /\ IsNext(j.hits, m)
             /\ \/ ~ OnNodeChainTx(m.tx)
                \/ Gaps(j, FlaggedInputs(j.hits, m)) \cap Malformed # {}

\* run() stores the error of a failed round and sleeps.
RoundFails(s) ==
    /\ Refused(s)
    /\ lastError' = "refused"
    /\ EndRound(s)
    /\ UNCHANGED <<chainVars, checkpoint, cpFork, progress, factVars, blocks, faults>>

\* A remote call or statement fails under run().
TransportError(s) ==
    /\ pc[s] # "idle"
    /\ faults < MaxFaults
    /\ faults' = faults + 1
    /\ lastError' = "transport"
    /\ EndRound(s)
    /\ UNCHANGED <<chainVars, checkpoint, cpFork, progress, factVars, blocks>>

\* The process dies and is restarted, or a scan-once command gives up: the
\* locals are lost, the database keeps what was committed.
Crash(s) ==
    /\ pc[s] # "idle"
    /\ faults < MaxFaults
    /\ faults' = faults + 1
    /\ EndRound(s)
    /\ UNCHANGED <<chainVars, dbVars>>

-----------------------------------------------------------------------------
Step(s) ==
    \/ InitStream(s) \/ GetNodeTip(s) \/ GetIndexerTip(s) \/ RecordProgress(s)
    \/ CheckCheckpoint(s) \/ CollectRgbpp(s) \/ CollectBtcTime(s)
    \/ FetchHeaders(s) \/ Process(s) \/ CheckpointHeader(s)
    \/ ApplyBatch(s) \/ Prune(s) \/ RoundFails(s)

World == ChainNext /\ UNCHANGED <<dbVars, pc, job, faults>>

Next ==
    \/ World
    \/ \E s \in Scanners : Step(s) \/ TransportError(s) \/ Crash(s)

Spec == Init /\ [][Next]_vars

\* The run loop always starts another round, and every await returns.
FairSpec ==
    /\ Spec
    /\ WF_vars((IndexerAdvance \/ IndexerRollback) /\ UNCHANGED <<dbVars, pc, job, faults>>)
    /\ \A s \in Scanners : WF_vars(Step(s))

-----------------------------------------------------------------------------
(* Properties *)

Hit == [block : Nat, index : Nat, tx : Txs, lock : LockKinds]

PcLabels == {"idle", "node_tip", "indexer_tip", "progress", "check",
             "collect_rgbpp", "collect_btc_time", "headers", "process",
             "apply", "prune"}

JobTypeOK(j) ==
    /\ DOMAIN j = DOMAIN EmptyJob
    /\ j.cp \in Int /\ j.cpFork \in Int /\ j.tip \in Int
    /\ j.from \in Nat /\ j.to \in Nat
    /\ j.hits \subseteq Hit
    /\ DOMAIN j.headers \subseteq Nat
    /\ \A h \in DOMAIN j.headers : j.headers[h] \in Int
    /\ DOMAIN j.created \subseteq Cells
    /\ \A c \in DOMAIN j.created : j.created[c] \in Place
    /\ DOMAIN j.consumed \subseteq Cells
    /\ DOMAIN j.transitions \subseteq Txs

\* The types of the tables and of the scanners' locals.
TypeOK ==
    /\ ChainTypeOK
    /\ checkpoint \in Int /\ cpFork \in Int
    /\ progress \in [tip : Int, target : Int]
    /\ lastError \in {"none", "refused", "transport"}
    /\ DOMAIN created \subseteq Cells
    /\ \A c \in DOMAIN created : created[c] \in Place
    /\ DOMAIN consumed \subseteq DOMAIN created
    /\ DOMAIN transitions \subseteq Txs
    /\ DOMAIN blocks \subseteq Nat
    /\ pc \in [Scanners -> PcLabels]
    /\ DOMAIN job = Scanners
    /\ \A s \in Scanners :
          /\ JobTypeOK(job[s])
          /\ pc[s] = "check" => job[s].tip - ReorgLag \in Nat
          /\ pc[s] = "process" => HitBlocks(job[s].hits) \subseteq DOMAIN job[s].headers
    /\ faults \in 0 .. MaxFaults

FinalHeight == tip - ReorgLag

PlaceAt(h, i) == [block |-> h, fork |-> chain[h].fork, index |-> i]

\* p is the place of t on the node's canonical chain, below the lag.
CanonicalPlace(p, t) ==
    /\ p.block \in StartBlock .. FinalHeight
    /\ PlacedAt(chain, tip, p.block, p.index, t)
    /\ p.fork = chain[p.block].fork

\* p is the block below start_block that created c.
BackfillPlace(p, c) ==
    /\ p.block \in 0 .. StartBlock - 1
    /\ p.block <= FinalHeight
    /\ p.index = UnknownTxIndex
    /\ p.fork = chain[p.block].fork
    /\ \E i \in DOMAIN chain[p.block].txs : c \in Outputs[chain[p.block].txs[i]]

\* Every stored fact is a fact of the canonical chain, at a block that can no
\* longer be reorganised away: apply_batch never commits a row read from an
\* abandoned branch.  A row without a transaction index is a backfill, and
\* only cells created below start_block are ever backfilled.
RowsSound ==
    /\ \A c \in DOMAIN created :
          \/ \E t \in Txs : c \in ClassifyOutputs(t) /\ CanonicalPlace(created[c], t)
          \/ BackfillPlace(created[c], c)
    /\ \A c \in DOMAIN consumed :
          /\ c \in Inputs[consumed[c].by]
          /\ CanonicalPlace(consumed[c].at, consumed[c].by)
    /\ \A t \in DOMAIN transitions :
          /\ CanonicalPlace(transitions[t].at, t)
          /\ transitions[t].what = TransitionOf(Inputs[t], ClassifyOutputs(t))

\* Everything the transaction at (h, i) says is in the tables, and the
\* transition was classified with all of its inputs known.
TxIndexed(h, i) ==
    LET t == chain[h].txs[i] IN
    /\ \A c \in ClassifyOutputs(t) :
          c \in DOMAIN created /\ created[c] = PlaceAt(h, i)
    /\ \A c \in Inputs[t] :
          c \in DOMAIN consumed /\ consumed[c] = [by |-> t, at |-> PlaceAt(h, i)]
    /\ Extractable(Inputs[t], ClassifyOutputs(t)) =>
          /\ t \in DOMAIN transitions
          /\ transitions[t] =
                [at |-> PlaceAt(h, i),
                 what |-> TransitionOf(Inputs[t], ClassifyOutputs(t))]

BlockIndexed(h) == \A i \in DOMAIN chain[h].txs : TxIndexed(h, i)

\* The checkpoint means "fully processed up to and including this height":
\* whatever crashes, fails or runs beside it, no fact of a block between
\* start_block and the checkpoint is missing.
CheckpointComplete == \A h \in StartBlock .. checkpoint : BlockIndexed(h)

RowsKept ==
    /\ \A c \in DOMAIN created : c \in DOMAIN created' /\ created'[c] = created[c]
    /\ \A c \in DOMAIN consumed : c \in DOMAIN consumed' /\ consumed'[c] = consumed[c]
    /\ \A t \in DOMAIN transitions :
          t \in DOMAIN transitions' /\ transitions'[t] = transitions[t]

\* Replaying a range (after a crash, or by a second process) never changes or
\* loses a committed fact: insert_cell, apply_spend and insert_transition are
\* idempotent on a stable chain.
RowsPermanent == [][RowsKept]_factVars

\* With one scanner the checkpoint only moves forward, and at most by one
\* batch at a time.
CheckpointMonotone ==
    [][checkpoint' > checkpoint
       /\ (checkpoint # NULL => checkpoint' <= checkpoint + BatchBlocks)]_checkpoint

HasActivity(h) == chain[h].txs # <<>>

\* With one scanner the header rows a rollback would walk are there: every
\* activity block of the retention window and the checkpoint block, with
\* their canonical hashes, even when a crash separates commit and pruning.
HeadersRetained ==
    cpFork # NULL =>
        \A h \in StartBlock .. checkpoint :
            h >= checkpoint - HeaderRetention /\ (HasActivity(h) \/ h = checkpoint) =>
                /\ h \in DOMAIN blocks
                /\ blocks[h].fork = chain[h].fork
                /\ blocks[h].activity = HasActivity(h)

OffChain == cpFork # NULL /\ checkpoint > 0 /\ chain[checkpoint].fork # cpFork

BeforeCheck == {"idle", "node_tip", "indexer_tip", "progress", "check"}

\* A reorganisation below the checkpoint halts indexing for good once no
\* round is past its check: the scanner refuses to advance over a fork.  Said
\* of branches that are not returned to: a node that switches back to the
\* abandoned branch makes the hash on record match again.
HaltsOnFork ==
    \A n \in Heights :
        [](OffChain /\ checkpoint = n /\ (\A s \in Scanners : pc[s] \in BeforeCheck)
              => [](checkpoint = n))

\* Every block that has left the reorg window is indexed eventually, once
\* outages end and while the rich indexer keeps following the node.
CatchesUp ==
    \A h \in Heights : (h >= StartBlock /\ FinalHeight >= h) ~> (checkpoint >= h)

\* The tables as the sets of rows a reader of the database sees.
StoredView ==
    [created     |-> {<<c, created[c]>> : c \in DOMAIN created},
     consumed    |-> {<<c, consumed[c].by, consumed[c].at>> : c \in DOMAIN consumed},
     transitions |-> {<<t, transitions[t].at, transitions[t].what>> :
                         t \in DOMAIN transitions}]

Facts == INSTANCE FactIndex WITH view <- StoredView

\* One scanner implements the abstract index: at every moment the tables are
\* exactly the facts of the canonical chain up to the checkpoint, and
\* apply_batch publishes a range in one step.
ImplementsFactIndex == Facts!Spec
=============================================================================
