# rgbpp-indexer: TLA+ models, checks and proofs

rgbpp-indexer follows RGB++ assets: it discovers protocol cells on CKB through a
rich indexer, stores them as facts in PostgreSQL, and relates them to observations
of the Bitcoin outpoints they are bound to. These modules model its core as
written in `src/`, check it with TLC on small instances, and prove with TLAPS, for
every instance, every safety property the runs check (section 6), among them that the
scanner and the commitment verifier implement their abstract specifications.

## 1. Inventory

| Component | State | Operations | Interacts with |
|---|---|---|---|
| CKB scanner (`indexer/src/scanner.rs`) | locals of a round; the stream row | `run`, `scan_once` | CKB node, rich indexer, fact tables |
| Extraction (`indexer/src/extract.rs`) | none (pure) | classify outputs and transition, derive the Bitcoin txid and the commitment | called by the scanner |
| Fact tables (`store/src/{cells,transitions,blocks,state}.rs`) | `rgbpp_cells`, `rgbpp_transitions`, `ckb_blocks`, `indexer_state` | `apply_batch`, `init_stream`, `record_chain_progress`, `set_stream_error`, `prune_blocks_below` | written by the scanner, read by everything else |
| CKB client (`ckb/src`) | none | tips, headers, transactions, lock searches with cursor paging, bounded retry | CKB node, rich indexer |
| Refresh queue (`store/src/queue.rs`) | `btc_refresh_queue` | enqueue, claim with backoff, complete, fail, drop exhausted | API, reconciler |
| Reconciler (`indexer/src/reconcile.rs`, `store/src/btc.rs`) | `btc_outpoints`, `btc_txs` | refresh outpoints, drain the queue, diff an address, resolve a transition | Bitcoin source, queue, anomalies |
| Sweeper and anomalies (`indexer/src/sweeper.rs`, `store/src/anomalies.rs`) | `sweep_runs`, `rgbpp_anomalies` | page through live bindings, detect misspends, open and resolve findings | reconciler, fact tables |
| Commitment verifier (`indexer/src/verify.rs`) | `commitment_status` of a transition | `verify_once` | reconciler, anomalies |
| Address backfill (`indexer/src/address_backfill.rs`) | an in-memory cursor; `btc_outpoints.address` | `backfill_once` | Bitcoin source |
| Bitcoin sources (`btc/src`) | throttle permits | observe one or many outpoints, fetch a transaction | Esplora, Blockbook |
| Engine and shutdown (`indexer/src/engine.rs`, `shutdown.rs`, `node/src/main.rs`) | worker tasks, a watch channel | bootstrap, spawn, trigger, join | all workers |
| API and read models (`api/src`, `store/src/{activity,stats,models}.rs`) | none of its own; a cursor or an offset at the client | histories, listings, balances, batches; refresh requests | store, reconciler |
| Types (`types/src`) | none | byte formats, configuration | everywhere |

What is hard here:

- *Ordering and interleaving.* A round makes many remote calls; the CKB chain, the
  rich indexer behind it, and other processes on the same database (`scan-once`
  beside `run`) move between any two of them.
- *Reorganisations.* There is no rollback; the lag is the only defence, and one
  comparison of the checkpoint hash is the only alarm.
- *Crashes and partial failure.* A range is replayed after any error; commit and
  pruning are separate.
- *Boundaries.* Inclusive ranges, the lag, `start_block`, the retention window.
- *Bitcoin side.* Observations race each other and the queue entries that asked
  for them; retries, backoff and freshness interact. A data source answers one
  question with several requests, all of them behind one throttle.
- *Reading while writing.* A page of history is three queries and a history several
  pages; blocks are committed and seals labelled in between.
- *Progress.* Two workers go through lists in a fixed order, and items at the head
  of a list may fail for ever; all workers must notice the shutdown signal.

What makes each part correct:

- scanner and fact tables: what is stored is true of the canonical chain and final;
  nothing below the checkpoint is missing; facts never change; the checkpoint only
  moves forward (one process); the scanner stops on a fork and otherwise catches up;
- queue and reconciler: a request is answered or given up after its retries; no
  spend is invented; observations converge to Bitcoin whatever
  raced or failed;
- sweeper: a finding is opened only for a spend without a transition and is closed
  when the transition arrives;
- verifier and backfill: verdicts say what the chains say, a mismatch is never
  stored without its finding, and no item starves the others;
- data sources: every outpoint asked about is answered, a spent output is never
  called unspent, and the throttle's limits hold;
- read side: a history skips and repeats nothing, agrees with the balances, and says
  when it may be incomplete; batches are answered by position;
- process: after the signal no sleeping worker begins another round, and everything
  ends.

## 2. Modules

| Module | Models |
|---|---|
| `Extract` | what one CKB transaction says: `classify_outputs`, `classify_transition`, `derive_btc_txid`, `expected_commitment` |
| `Chain` | the node's canonical chain and the rich indexer following it (external) |
| `Scanner` | `scan_once`, statement by statement, over the fact tables; its properties |
| `FactIndex` | abstract specification: the tables are a function of the chain and the checkpoint |
| `ScannerInv` | the inductive invariants `IInv` (any number of scanners) and `SoloInv` (one) |
| `ScannerSafety` | type correctness, `IInv`, soundness, completeness and permanence, proved |
| `ScannerRefinement` | one scanner: the checkpoint, the halt on a fork, header retention and the refinement of `FactIndex`, proved |
| `MCScanner` | the small chain TLC uses |
| `Bitcoin` | transactions in the mempool or confirmed, replacement, reorganisation, and what a data source answers (external) |
| `Reconcile` | refresh queue, observation cache and findings; `refresh_outpoints`, the drain worker, requests, the address diff, `resolve_transition` |
| `Sweep` | the sweeper over `Reconcile`, the composition of all users of the tables, and the properties of the Bitcoin side |
| `SweepProofs` | types, the queue, the truth of recorded spends and the grace period, proved |
| `MCSweep` | two bindings, an RGB++ transfer and a wallet's spend |
| `Source`, `MCSource` | `observe_many`, the Esplora and Blockbook look-ups and the throttle; two funding transactions, one unknown to the source, and a history of up to four; for the throttle, three groups of one output |
| `SourceProofs` | the throttle's two limits and what the answers say, proved |
| `ReadApi`, `MCReadApi` | address history, asset list, holders, balances, batches and transaction status read from a growing index; three transitions of two owners |
| `ReadApiProofs` | types; histories that repeat and miss nothing; whole histories; the asset list; the bounds on holders; batches; proved |
| `PollProofs` | the answers about a transaction's status, proved |
| `BalanceProofs` | sums over finite sets, and that histories add up to balances, proved |
| `Ledger` | the rows and the data source that verifier and backfill share |
| `Verify` | `verify_once` |
| `Verdicts` | abstract specification: a transition is judged once and justly, and findings are made known and never withdrawn |
| `Backfill` | the address backfill |
| `Workers`, `MCWorkers` | bootstrap, the worker loops over `Verify` and `Backfill`, shutdown, crash and restart; four transitions in three blocks, two of one Bitcoin transaction, one that can never be checked |
| `WorkersProofs` | types, verdicts, the refinement of `Verdicts`, recorded mismatches, lost findings and the bounded drain, proved |

### Abstractions

A transaction hash determines its body, so bodies are constants (`Inputs`,
`Outputs`, `LockOf`, `BoundTxid`); only cells under the two protocol locks appear.
A block is a fork number and a sequence of transactions; `<<height, fork>>` plays
the role of the header hash. Fork numbers are not reused, so a reorganisation back to
an abandoned branch is not modelled: after one the checkpoint hash would match again,
and `HaltsOnFork` is not about it. A commitment is collision free and is represented by
the cells it covers. A database row is a function value keyed as the table is.

On the Bitcoin side outpoints are numbers (they are paged in order), a transaction
is the set of outpoints it spends, the set its CKB transition binds, and whether it
carries a commitment. Time is untimed: a backoff and an observation's time to live
end at some later step, and the due entries of the queue are a sequence in the order
they became due, which is the claim order because every caller uses the priority
`ON_DEMAND`. The fact tables are reduced to the live and the consumed bindings, the
indexed Bitcoin txids and a backlog of transitions the scanner has not reached;
`Scanner` is what justifies this. CKB heights are counted in transitions, so the
checkpoint stands at the number of indexed ones and the recorded target anywhere from
0 to the number of final ones. `pending_ckb_outpoints` returns `PendingLimit` rows at
most; which ones when there are more is left open (the code takes the oldest
observations). All addressable outpoints belong to one address.

In `Source` time is counted in ticks up to the throttle's interval; a request starts,
and is in flight, from the step that records `last_start`, as `send` follows at once.
An address history is the sequence of transactions seen that touch the address, each
with its place counted from the newest, which is what puts it on a page; new ones join
at the front, and `MaxDrops` unconfirmed ones may be evicted from the mempool, which
closes the gap. A failed request stands for every status, transport and decoding
error. In `ReadApi` the tables are a function of the height indexed so far (`Scanner`
justifies this too), a seal is the outpoint a cell is bound to, and requests of
different clients do not interact, so one client at a time is enough. Blocks above the
lag are already fixed in `ReadApi` (a client that polls across a reorganisation may
see a look-up withdrawn); the rich indexer is never behind the index, and its height
does not fall between two look-ups of one request. In `Ledger` transitions are
numbered in block order, several may share a block (`BlockOf`), among which the
verifier's query leaves the order open, Bitcoin transactions are numbered in txid
order, a commitment is a value, and `Broken` transactions are those the source answers
with errors for ever. `Workers` leaves out the queue worker, the sweeper and the
heartbeat, whose loops have the same shape and whose rounds touch nothing of `Ledger`
that matters here, and the draining of the HTTP server.

### State and actions against the code

| Code | Model |
|---|---|
| `indexer_state` (`last_block_number`, `last_block_hash`, tip/target, `last_error`) | `checkpoint` (-1: no row), `cpFork`, `progress`, `lastError` |
| `rgbpp_cells` created/consumed columns | `created`, `consumed` |
| `rgbpp_transitions`, `ckb_blocks` | `transitions`, `blocks` |
| locals of `scan_once` | `job[s]`; the await it is at: `pc[s]` |
| `init_stream` | `InitStream` |
| `synced_tip` | `GetNodeTip`, `GetIndexerTip` |
| `record_chain_progress` and the two idle returns | `RecordProgress` |
| `assert_checkpoint_still_canonical` and the range | `CheckCheckpoint`, or `RoundFails` |
| `collect_range` | `CollectRgbpp`, `CollectBtcTime` |
| `fetch_headers` | `FetchHeaders` |
| the loop over records, `process_transaction`, `resolve_input`, `backfill_input` | `Process` |
| header of the checkpoint block | `CheckpointHeader` |
| `apply_batch` | `ApplyBatch` |
| `prune_blocks_below` | `Prune` |
| an error of any call under `run` | `TransportError` |
| the process dies, or `scan-once` returns the error | `Crash` |

| Code | Model |
|---|---|
| `btc_refresh_queue` (`attempts`; `next_attempt_at <= now()`) | `queue`; membership and place in `line` |
| `btc_outpoints`, `btc_txs`, open rows of `rgbpp_anomalies` | `obs`, `btcTxs`, `anomalies` |
| `enqueue_refresh`, `enqueue_refresh_many` | `Enqueue` in `RequestQueued`, `Overflow`, `RecordError` |
| `refresh_outpoints` | `BeginRefresh`, `Overflow`, `Observe`, `Record`, `Follow`, `Resolve` |
| `drain_queue_once` | `DropExhausted`, `Claim`, `FilterFresh`, `ClearFresh`, refresh, `Settle` |
| `reconcile_address` | `RequestAddress`, `LabelAddress`, `DiffAddress`, refresh |
| `resolve_transition` | `RequestTransition`, `FetchTransition`, refresh |
| `sweep_inner` | `StartSweep`, `Page`, refresh |
| `target_block_number` as the sweeper reads it; `record_chain_progress` | `target`; `RecordProgress` |
| `indexer_is_caught_up`, `detect_misspends` | `CaughtUp`, `CheckCaughtUp`, `ReadTip`, `ReadPending`, `Match`, `Close`, `FetchSpender`, `RecordLate`, `RecordUncommitted` |
| an error or a crash in any of them | `Abort` |

| Code | Model |
|---|---|
| semaphore, `last_start` and its lock, the sleep | `permits`, `last`, `pc[g] = "sleep"`, `wake` |
| `Throttle::acquire` | `TakePermit`, `LockLastStart`, `StartRequest`; the permit goes back in `Proceed` |
| `observe_many` | `StartGroup`, `Proceed`, `Tell`, `Returned` |
| `resolved.insert`, the list of answers | `Merge` |
| `outspend`, `outspends` | `EsploraAnswer`, `EsploraStatus` |
| Blockbook's transaction and `resolve_spenders` | `BlockbookTx`, `BlockbookPage`, `EndWalk`, `LastPage`, `StatusOf` |
| 404; any other failure | `NotFound`; `RequestFails` |
| `activity_by_btc_address` and its three queries | `StartScroll`, `ReadRows`, `ReadCells`, `ReadUnresolved` |
| `address_activity`, its cursor and `next_cursor` | `ActivityPage`, `AfterCursor`, `LastPos`, `ReachedEnd` |
| `list_assets`, `count_assets` | `StartListing`, `ListRows`, `ListTotal`, `NextAssets`; `AssetPage`, `CountAssets`, `KindsOf` |
| `asset_summary_sql`, `asset_balances_for_outpoints`, the view `rgbpp_cell_status` | `HolderCount`, `UnlabelledSealCount`; `BalanceCells`; `Status` |
| `assets_by_btc_address`, `balance_by_btc_address` | `AddressCells`, `AddressBalance` |
| `counts` of `/status` | `Counts` |
| `cells_batch`, `assets_batch`, `transitions_batch`, `parse_batch` | `CellsBatch`, `AssetsBatch`, `TransitionsBatch`, `BatchRefused` |
| `transaction_status`, with the `resolve_transition` of a poll | `StartPoll`, `ResolveIndexed`, `ResolveSource`, `ResolveLookup`, `ReadTransitions`, `ReadTxidCells`, `PollAgain`, `EndPoll` |
| `point_lookup_cells` | `PointLookup`, `LookedUp` |
| scanner, backfill and reconciler as readers see them | `CommitBlock`, `Label`, `Observe` |
| `verify_once` | `ReadBatch`, `SkipIssuance`, `FetchNone`, `FetchTx`, `CacheTx`, `RecordMismatch`, `Settle`, `SetUnknown`, `RecordUnknown`, `AbortPass` |
| `AddressBackfill::run`, `backfill_once`, `resolve` | `NextCursor`; `ReadPage`, `PageFails`, `SkipFunding`; `FetchFunding`, `LabelFunding` |
| `Engine::bootstrap`, `spawn_workers` | `Bootstrap`, `BootstrapFails`, `Spawned` |
| `CkbScanner::run` | `InitStream`, `ScanRound`, `AfterRound` |
| `Shutdown::sleep` | `Timer`, `Changed` |
| `run` of `main.rs` after the signal | `Signal`, `Joined` |

One call is one step; the exceptions are `refresh_btc_tx` (fetch, label and cache)
and the two reads of the address diff. `get_transactions` pages of one search are one step: the
pages of a search are read from settled blocks, and paging itself is planned as a
module of its own. `fetch_headers` is one step although the calls run
concurrently; a reorganisation between two of them matters only when it is deeper
than the lag.

## 3. Properties

- `TypeOK`: the types of tables and locals.
- `RowsSound`: every row is a fact of the canonical chain at or below
  `tip - lag`, at its place; only cells older than `start_block` are backfilled.
- `CheckpointComplete`: between `start_block` and the checkpoint nothing is missing,
  and every transition was classified with all of its inputs known.
- `RowsPermanent`: replays and second processes never change a committed fact.
- `CheckpointMonotone`, `HeadersRetained`: one process; crashes included.
- `ImplementsFactIndex`: with one process the tables equal `FactIndex`'s view and
  each batch is published in one step.
- `CatchesUp`: every settled block is indexed eventually.
- `HaltsOnFork`: a reorganisation under the checkpoint stops the scanner (see the
  abstractions for a return to the old branch).

On the Bitcoin side (`Sweep`):

- `TypeOK`: tables and labels; an error is never stored as a status.
- `OnlyRecordedLeave`: an entry leaves the queue with a row about its outpoint, or
  after `max_attempts`, whatever the drain worker races with.
- `SpendsReal`: without replacements and reorganisations a recorded spend exists.
- `GraceRespected`: until Bitcoin is unwound a finding is opened only for a spend that
  deep, whatever the age of the tip and the observation it is computed from.
- `QueueDrains`: every entry is dealt with, although the sweeper re-queues others.
- `EventuallyAccurate`: the observations of live bindings converge to Bitcoin through
  races, faults, the request cap and a reorganisation.
- `MisspendsFlagged`: a misspend that lasts is on the list in the end; the caught-up
  test does not keep detection from running for ever.
- `FindingsClose`: what a comment promises of findings; refuted, see below.

Data sources (`Source`):

- `TypeOK`: throttle, tasks and answers; permits never run below zero.
- `InFlightBounded`, `StartsSpaced`: the two limits of the throttle, however tasks
  interleave and whatever fails.
- `NoResurrection`: an output whose spender was there when its look-up began, and was
  not dropped since, is never reported unspent, and a reported spender spends it.
- `UnknownExplained`: walking a history that grows meanwhile finds the spender; only
  failures, outputs without an address, the page cap and a transaction that was dropped
  from the history leave an output unknown.
- `AllAnswered`: every outpoint is answered.

Read side (`ReadApi`):

- `NoRepeat`, `HistoryComplete`: the two halves of what keyset pagination is for.
- `HistoryMatchesBalance`: the deltas of a history add up to what the balance query
  reports for the seals of the address.
- `WholeStory`: when every page reported no unresolved binding, the history is whole.
- `ListingComplete`: paging by offset until the total lists every asset once, as many
  as `/status` counts.
- `HoldersBounded`: `holder_count` and `unlabelled_seal_count` bracket the holders.
- `BatchAligned`: a batch of cells, assets or transitions is refused as a whole or
  answered at every position.
- `PollsConsistent`: the three queries behind a transaction's status agree although
  the index moves between them, and a transition once named stays named.
- `AwaitingExplained`: "awaiting CKB" is never an artefact of the index catching up
  between two look-ups.

Background workers (`Workers`):

- `LossesBounded`: the finding of an unknown transaction is written after its status;
  a failure or crash loses the one under way at most, and nothing else loses any.
- `ImplementsVerdicts`: `set_commitment_result` overwrites what is there, and a pass
  repeats what a failed one left; a transition is judged once nevertheless, with a
  verdict the first tagged payload, or the first one when none is tagged, justifies, a
  mismatch is known before it is the verdict, and no
  finding is without cause or withdrawn. Two consequences have a name of their own and
  are proved: `VerdictsRight`, what a stored verdict says about the two chains (and that
  its transition is indexed and its transaction cached), and `MismatchRecorded`, no
  stored mismatch is without its finding.
- `DrainBounded`, `ShutdownCompletes`: no sleeping worker begins a new round after the
  signal (a scanner still initialising may do its first, and the round it is in is its
  last), and the process ends.
- `EveryTransitionChecked`: in spite of transient failures, and up to the block of the
  first transaction that fails for ever.
- `EveryBindingLabelled`: in spite of bindings that are never resolved, and of
  transactions that become known, or rows that appear, behind the cursor.

## 4. Runs

| Run | Instance | Shows |
|---|---|---|
| `scanner_single` | 5 heights, start 2, lag 1, batches of 2, one reorganisation of depth 1, one fault, fairness | `TypeOK`, `RowsSound`, `CheckpointComplete`, `HeadersRetained`, `RowsPermanent`, `ImplementsFactIndex`, `CatchesUp` |
| `scanner_pair` | two processes, 5 heights, batches of 1 | the invariant under interleaving (what follows from it is proved) |
| `scanner_deep` | 5 heights, start 1, batches of 1, a reorganisation of depth 1 or 2 with lag 1 | `CheckpointMonotone`, `HaltsOnFork` |
| `scanner_malformed` (violation) | a cell with unreadable args is spent | `CatchesUp` fails |
| `refresh_queue` | drain worker and one API client, two requests of any kind, one fault, claims of 2 capped at 1, known addresses, a transfer that re-binds | `TypeOK`, `SpendsReal`, `OnlyRecordedLeave` |
| `refresh_live` | sweeper pages of 2 capped at 1, drain batches of 1, one fault, one reorganisation, fairness | `QueueDrains`, `EventuallyAccurate` |
| `sweep_findings` | sweeper, a transfer competing with a wallet's spend, grace 2, one fault, one replacement or reorganisation, fairness | `GraceRespected`, `MisspendsFlagged` |
| `sweep_close` (violation) | sweeper, no faults, fairness | `FindingsClose` fails |
| `source` | either backend, two groups of two outputs at once, one permit, pages of one and a cap of three, histories of two to four transactions that grow and may lose one, one failure, fairness | `TypeOK`, `NoResurrection`, `UnknownExplained`, `AllAnswered` |
| `throttle` | either backend, three tasks, two permits, an interval of two ticks, one failure | `InFlightBounded`, `StartsSpaced` |
| `read_api` | three transitions in two blocks, seven cells, four seals of two owners, three Bitcoin transactions, pages of one and two, look-ups of at most two outputs | `TypeOK` and the properties of `ReadApi` |
| `background` | three workers, batches of two (verifier) and one (backfill), one fault or crash, two transitions in one block, a late transaction of two transitions with three payloads, a broken transaction, the signal at any time, fairness | `TypeOK` and the properties of `Workers` |

The bounds reach what matters: cells created below, in and above the range; a cell
created and spent in one block, in one batch and across batches; two competing
spends on two branches; a backfill; an idle round; a full and a short batch; a
reorganisation before, in and after every step of a round; a crash at every step,
including between commit and pruning. On the Bitcoin side two outpoints and caps of
one and two keep the order of the configured limits (`sweep.batch_size` above
`max_outpoints_per_request` above `queue_batch_size`), so pages overflow and claims
are partial; a fault is an error, an evasive answer, a lagging list or an abort, at
any step. `refresh_live` uses one spending transaction and no transfer to stay small;
its grace period is never over, as findings do not
matter there; `sweep_findings` has both. In `source` a cap of three
and a history of three let a spender move to the next page between two requests and
still be within the cap; a fourth transaction puts one beyond it; a drop between two
pages moves one to the page just read. Each exception of `UnknownExplained` is met: the
run fails without it. In `throttle` a second permit lets one task wait for `last_start`
while another sleeps with the lock, and a third task lets it wait for a permit. In
`background` two transitions may become unknown and one call fails, so that the losses
`LossesBounded` allows are fewer than could be lost; the payload that counts stands
between two that do not. In
`read_api` two transitions share a block and pages of one split it; a cell is older
than the index, one moves to the time lock, one is created and consumed in one block;
a requested size of 0 and of 3 is clamped on both sides; one Bitcoin transaction has two
transitions in different blocks and more outputs than are looked up. In `background` a batch
of the verifier is shorter than the backlog, and every page of the backfill is full
until its last. No symmetry is used.

Deadlock checking stays on: a scanner, the drain worker and the sweeper can always
start another round.

### Fairness

`FairSpec` assumes weak fairness of each scanner's step (the loop in `run` always
starts another round, every request has a timeout) and of the rich indexer's
following of the node. Mining, reorganisations and faults are not fair; faults are
bounded by `MaxFaults`, so outages end. `Sweep`'s `FairSpec` assumes the same of every
worker (their loops sleep and start again whatever a pass returned), that backoffs
and times to live end, and that the scanner records its progress and gets through its
backlog (`CatchesUp`);
Bitcoin and the appearance of CKB transitions are not fair. `Source`'s `FairSpec`
assumes that the clock runs and that each task goes on (a request has a timeout, so
it is answered or fails; tokio's semaphore and mutex serve their waiters in turn).
`Workers`' assumes that tasks are scheduled and timers fire, and that a supervisor
restarts a process that died; the signal, crashes and the appearance of transactions
are not fair.

## 5. What the violation runs show

1. *Unreadable args of a consumed cell* (`indexer/src/scanner.rs:475`). `extract`
   skips such a cell as an output, so it is in no table; its spend is backfilled,
   the parse error leaves `scan_once`, and every later round fails at the same
   record.
2. *Findings that stay open* (`indexer/src/sweeper.rs:188`). Only live cells are
   looked at, and the transition that should close the finding consumes the cell.

The models also show the following, for which no run is kept.

- *Rich indexer without a tip* (`ckb/src/client.rs:85`). `synced_tip` falls back to
  the node's tip. The searches then answer with nothing and the checkpoint passes
  the blocks, the "silent data loss" the comment above the function describes.
  `CheckpointComplete` fails with `IndexerStartsEmpty`, which is
  why `LagSuffices` excludes it.
- *The alarm* (`indexer/src/scanner.rs:145`). The hash is compared before the range
  is read. A reorganisation deeper than the lag inside the round stores rows of the
  abandoned branch with a checkpoint hash of the new branch; later comparisons agree.
- *Labels count as answers* (`store/src/btc.rs:182`). The row inserted to hold an
  address has `observed_at = now()`; the drain worker finds it fresh and drops the
  request, although nobody asked about the outpoint. `OnlyRecordedLeave` is what holds.
- *`start_block = 0`* (`store/src/state.rs:33`). The initial checkpoint saturates at 0
  and so claims block 0, which is never scanned: `CheckpointComplete` needs
  `start_block >= 1`, an assumption of the proofs.
- *The caught-up test* (`indexer/src/sweeper.rs:139`) compares the checkpoint with the
  target the scanner recorded last. A target is low while the rich indexer trails the
  node, 0 while the synced tip is below `start_block` plus the lag, and stale while the
  scanner cannot reach its endpoints; the test then passes, and a transition that is
  final on CKB but not indexed is reported as missing. The finding is one of those that
  stay open.
- *Backoff undone* (`indexer/src/reconcile.rs:167`). A failed observation is queued
  again as due now, so that the drain pass undoes the backoff its own claim set, and
  an outage uses up `max_attempts` in as many passes.
- *Unknown overwrites a spend* (`store/src/btc.rs:69`). The view shows the cell as live
  until the next definite answer. "Changed" compares status words
  (`store/src/btc.rs:91`), so a transaction that replaced a known spender, or one
  whose fetch failed, is not fetched.
- *One transaction the source fails on for ever* (`indexer/src/verify.rs:98`) keeps
  every later transition unchecked: the exception in `EveryTransitionChecked`. A
  Blockbook that says "not found" with status 400, which the comment at
  `btc/src/blockbook.rs:66` mentions, is such a source: the status is looked at first
  (line 62) and the answer is an error.
- *The finding of an unknown transaction* (`indexer/src/verify.rs:99`) is written after
  the status, which is final; a crash in between loses it. `LossesBounded` says how
  much is lost; for mismatches the order is the safe one (`MismatchRecorded`).
- *The scanner that never starts* (`indexer/src/scanner.rs:61`). When `init_stream`
  fails `run` returns, without a stream error, and the process goes on without it.
- *The count behind the rows* (`api/src/handlers.rs:709`). `unresolved_bindings_total`
  is read last, so a label that lands between the queries lets a partial page report
  zero; `WholeStory` therefore asks that nothing moved during the reading. A cursor
  that cannot be parsed is no cursor (`store/src/activity.rs:24`): the first page.
- *Pending cells in balances.* `asset_balances_for_outpoints` can include them, but
  the handler passes the current UTXOs of the address (`api/src/handlers.rs:305`),
  among which a spent seal is not, once the source lists it as spent.

- *What a look-up does not find* (`indexer/src/reconcile.rs:389`). A transaction whose
  cells above the lag were already spent, went under the time lock, or are bound to
  outputs beyond the bound of the look-up is reported as awaiting CKB until the index
  reaches it: the exceptions in `AwaitingExplained`.
- *Seals of time-locked cells* (`store/src/stats.rs:169`). `live_seal_count` counts
  the distinct pairs of txid and output, so the cells under the time lock, whose output
  is `NULL`, count as one seal per transaction.

## 6. Proofs

`ScannerSafety` proves `TypeCorrect`: `Spec => []TypeOK`, for every number of
scanners, chain, lag, batch size and fault bound. It also proves, from `LagSuffices`
(reorganisations no deeper than the lag, a rich indexer that has a tip, `start_block
>= 1`: without any of them section 5 shows a counterexample):

- `Invariant`: `[](TypeOK /\ IInv)`,
- `Soundness`: `[]RowsSound`, `Completeness`: `[]CheckpointComplete`,
- `Permanence`: `RowsPermanent`.

None of the properties is inductive alone. `IInv` has three parts. `WorldInv`: the
rich indexer agrees with the node up to its tip minus the lag, and a shared block
means a shared ancestry. `JobInv`: what each scanner holds at each step is right:
the range starts at most one above a fully indexed height, its end is settled at
both endpoints, the remaining hits are exactly the unprocessed transactions of the
range, and the batch holds exactly the facts of the processed ones. `StoreInv`: the
tables are sound, the checkpoint is complete, and everything older than the
checkpoint is resolvable. The invariant allows two scanners: the slower one moves
the checkpoint back, which is why it speaks of "indexed up to n" for each scanner
separately and not of one checkpoint.

The proof goes action by action. World steps keep settled blocks (`Reorg` cannot
reach below `tip - lag`), so the jobs of all scanners stay right; a scanner step
changes its own job and, in `ApplyBatch`, the tables, where every written row
either is new or equals the row it replaces.

`ScannerRefinement` is about one scanner alone on its database (`OneScanner`: the
slower of two may move the checkpoint back) and proves

- `MonotoneCheckpoint`: `CheckpointMonotone`, `HaltsForGood`: `HaltsOnFork`, for any
  lag and reorganisations of any depth,
- `HeadersKept`: `[]HeadersRetained`, from `LagSuffices`,
- `Implements`: `ImplementsFactIndex`, from `LagSuffices`: the scanner, with its calls,
  failures, crashes and replays, implements `FactIndex`, whose tables are a function of
  the chain and the checkpoint.

The first two rest on `AloneInv`: nobody moves the checkpoint between the moment a
round reads it and the moment it commits, and a hash on record belongs to a block that
was canonical once and, as fork numbers are not reused, is canonical again only if the
branch is. `SoloInv` adds what the tables do not have: `IInv` says that everything up
to the checkpoint is there, `ExactInv` that nothing from above it is, neither in the
tables nor, above the end of its range, in the batch of a round; `BlocksInv` and
`HeaderInv` say the same of header rows. Together they make the tables equal to
`FactIndex`'s, row by row. `ApplyBatch` is then a `Publish`, `InitStream` an `Open`,
steps of the chain are steps of `FactIndex`'s chain (settled blocks do not change, so
neither does the view), and every other step stutters. The refinement assumes that a
transaction under consideration touches at least one protocol cell, which is what the
lock searches return.

`SweepProofs` proves, for any number of drain workers, sweepers and callers, any
limits, and every Bitcoin:

- `TypeCorrect`: `[]TypeOK`, `SpendsAreReal`: `[]SpendsReal`,
- `OnlyRecorded`: `OnlyRecordedLeave`, `GraceIsRespected`: `GraceRespected`.

`SweepInv` is needed because all of these are about rows written from answers that were
obtained steps before. `ObsInv` says of every row, and `HeldInv` of every answer a
process still carries, that a spend it names is real with the height it gives, as long
as nothing was replaced or reorganised; `HeldInv` also says that the rows a sweeper is
about to report are spends as deep as the grace period at the tip it read, which is at
most the present one, whatever the recorded target and the limit on pending rows.
`HasRows`: what a process counts as answered or as fresh has a row;
rows are never removed, so this survives any interleaving, and it is why an entry it
then deletes from the queue was recorded. `QueueInv` keeps the line of due entries a
duplicate-free list of entries, without which a claim could count one twice.

`SourceProofs` proves `InFlightBounded` and `StartsSpaced` for every number of tasks,
permit count and interval. `ThrottleInv` says that the free permits and the tasks that
hold one add up to the configured number, that one task at most sleeps with the lock
on `last_start` (a task that waits for the lock holds a permit but has no turn), and
that the sleeper wakes no earlier than one interval after the last start. The first
part gives the bound, the other two the spacing.

It also proves `TypeCorrect`, `NoneResurrected` (`NoResurrection`) and
`UnknownsExplained` (`UnknownExplained`), for both backends, every page size and page
cap, any failures, any growth of the histories and any transactions dropped from them.
`AskInv` relates what a task holds
between two requests to a history that is longer by the next one: every flagged output
is found already, excused (a failure, no address, a history beyond the cap or one that
lost a transaction), or
`Ahead`: its owner is still to be walked, or is being walked and the spender's place is
behind the pages read. New transactions join at the front, so places only grow
(`SeenGrows`; a drop takes one out and excuses its history, `Thinned`) and a page
turned never hides what was ahead (`PageRead`); when the last page is read nothing is
ahead unless the cap was reached (`BeyondCap`). Assumed of the source: a transaction
that spends an output is in the history of its owner.

`ReadApiProofs` proves, for every index, ownership, page size and schedule of commits
and labels:

- `TypeCorrect`: `[]TypeOK`,
- `NoRepeats`: `NoRepeat`, `Complete`: `[]HistoryComplete`,
- `HoldersWithinBounds`: `[]HoldersBounded`, by the cardinality of the owners of a
  union of labelled and unlabelled seals,
- `WholeStories`: `[]WholeStory`, `CompleteListings`: `[]ListingComplete`,
- `AlignedBatches`: `[]BatchAligned`, of every state.

`ScrollInv` says of a history being read that what was due when the reading began is
still there (`DueInv`), was sent, is on the page in hand, or is older than that page
(`AheadInv`), and that everything sent is newer than the cursor or on the page in hand
(`SentInv`); new blocks and labels never take a transition away. The core is the lemma `LeftOut`:
what a page of the newest transitions leaves out is older than the oldest on the page.
`StoryInv` adds that an undisturbed history owes exactly what touches the address, and
that nothing is unresolved since its last page said so. For the asset list `ListOK`
says that the pages read are the first places of the list (`FirstPlaces`), up to the
offset or one page further once the rows have answered, and that `more` compares that
with the total, once that has answered; every place is below the total (`RankBelow`).

`PollProofs` proves `PollsConsistent` and `AwaitingExplained`. Blocks are indexed in
order, so the first transition of a Bitcoin transaction stays the first (`FirstStays`)
and what one query named the next one finds (`BeforeInv`, `NamedInv`, `ListInv`). A
cell that exists when the look-up begins and is not found at the height of its own
request was consumed by then, or is one the look-up leaves out (`AwaitInv`).

`BalanceProofs` proves `HistoriesMatch`: `[]HistoryMatchesBalance`, for every index,
labelling, page size and amounts. The sums of the model are folds of the community
modules, defined by a recursive function on the subsets of a set. The induction theorems
of the library cannot be instantiated by the installed provers, so each fact about sums
is proved by contradiction from a smallest counterexample: a family of subsets of a
finite set that is not empty has a member no proper subset of which is in it
(`SmallestSet`, from the well-foundedness of `<` on `Nat` and the cardinality). That
gives what a sum is (`SumStep`), that the order does not matter (`SumRemove`), that sums
over disjoint sets add up (`SumUnion`), and that the differences of sums that the
entries hold add up to the difference of the sums over the unions (`SumDeltas`); the
number of cells is the sum of ones. `ToldInv` says that each entry of an undisturbed
history is what the index now says of its transition, whatever page it came on; with
`ScrollInv` and `StoryInv` the entries then are one for each transition that touched
the address (`ToldAll`), they receive every cell that was created in the index and send
every consumed one, each once (`ToldCells`), and created less consumed cells are the
held ones less those older than the index (`SplitTwice`). Assumed of CKB: a cell is
consumed after it was created (`CausalAssumption`), without which a spend could be
indexed whose creation is not.

`WorkersProofs` proves `TypeCorrect`, `MismatchRecorded`, `VerdictsRight`
(`VerdictsAreRight`) and `DrainBounded`, for any transitions, batch sizes, faults and
crashes. `FindingInv`: a pass that is about to store a mismatch has written its
finding, which no step removes, a crash included. `WorkInv` carries the batch of a pass
to its verdict: it holds indexed transitions with a Bitcoin transaction, which is known
from the source's answer on and cached before it is judged, so that a verdict is
computed from the transaction it is about whatever is indexed, labelled or lost
meanwhile, and in whichever order the query returns the transitions of a block
(`BatchInv`, `TablesInv`, `WalkInv`, `MainInv`). `LoopInv`: the signal is only given
to a process whose main task has stopped starting workers.

It also proves `VerdictsImplemented` (`ImplementsVerdicts`) and `LossesAreBounded`
(`LossesBounded`). The refinement mapping is the identity on statuses and findings.
`JudgeInv` is what makes it go through: what is left of a batch has not been judged
since it was read, but for the one transition whose finding is under way. Every step that
stores a verdict is then a `Judge`, the two that record a finding are `ReportMismatch`
and `ReportUnknown`, and everything else, the verdict "unchecked" included, leaves both
tables alone. For the losses `ActiveInv` says that a pass is under way only in a round
of the verifier and a round only in a running process, so that nothing but a counted
failure or crash ends a pass between its two writes.

The assumptions on constants are types, finiteness (of outpoints, transitions, cells),
positive sizes, and the facts about the two chains named above; each module's
`ASSUME` lists them and TLC evaluates them in the runs of that module.

Only model-checked: everything with fairness, that is `CatchesUp`, `QueueDrains`,
`EventuallyAccurate`, `MisspendsFlagged`, `AllAnswered`, `ShutdownCompletes`,
`EveryTransitionChecked` and `EveryBindingLabelled`: liveness and `ENABLED` are beyond
the prover. Every invariant and action property of the passing runs is a theorem.

## 7. Plan

Done: `Extract`, `Chain`, `Scanner`, `FactIndex`; `Bitcoin`, `Reconcile` and `Sweep`;
`Source`; `ReadApi`; `Ledger`, `Verify`, `Verdicts`, `Backfill` and `Workers`; the
invariants of all of them, the refinements of `FactIndex` and `Verdicts`, and the proofs
of section 6.

Left, in this order:

1. Abstract specifications: an observation cache (each row is an answer that was true
   at some moment) for `Reconcile`, a list of findings for `Sweep`.
2. `Paging`: the cursor loop and the bounded retry of the CKB client.

## 8. Not modelled

HTTP, JSON and hexadecimal decoding, molecule serialisation and hashing (pure
functions covered by the repository's test vectors), asset decoding, validation of
addresses, the single-row look-ups of the API (batches of one), the counts of the queue
and of anomalies (sizes of tables), the formatting of answers, logging,
progress and heartbeat output, configuration parsing, the draining of the HTTP server.
