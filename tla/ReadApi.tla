------------------------------ MODULE ReadApi ------------------------------
(***************************************************************************)
(* The read side: what the HTTP API (crates/api) answers from the index    *)
(* (crates/store) while the scanner appends to it and the address backfill *)
(* labels seals.  A page of address history is three separate queries, a   *)
(* history or an asset listing is several pages, and the status of one     *)
(* transaction is asked of both chains and polled.                         *)
(*                                                                         *)
(* A seal is the Bitcoin outpoint a cell is bound to; cells under the BTC  *)
(* time lock have none.  Rows follow from the height indexed so far: a     *)
(* cell has one once its creation is indexed, or, when it was created      *)
(* before the index starts, once its consumption is.                       *)
(***************************************************************************)
EXTENDS Integers, Sequences, FiniteSets, FiniteSetsExt, SequencesExt

CONSTANTS
    Txs,          \* CKB transactions that are RGB++ transitions
    Pos,          \* Pos[t]: <<block_number, tx_index>>
    Cells,
    CreatedBy,    \* CreatedBy[c]: its transition, NoTx if before the index
    ConsumedBy,   \* ConsumedBy[c]: its transition, NoTx if never
    NoTx,
    Seals,
    SealOf,       \* SealOf[c]: the seal, or NoSeal
    NoSeal,
    OwnerOf,      \* OwnerOf[s]: the address that controls the seal
    Assets,       \* type script hashes, numbered
    AssetOf,      \* AssetOf[c]: asset, or NoAsset for a cell without a type
    NoAsset,
    KindOf,       \* KindOf[a]: asset_kind
    Amount,       \* Amount[c]: udt_amount
    Txids,        \* Bitcoin transactions
    NoTxid,
    BoundTo,      \* BoundTo[c]: the Bitcoin transaction its lock args name
    VoutOf,       \* VoutOf[s]: the output index of the seal
    BtcTxidOf,    \* BtcTxidOf[t]: btc_txid of the transition, or NoTxid
    OutCount,     \* OutCount[x]: how many outputs x has
    MaxLookup,    \* MAX_POINT_LOOKUP_VOUTS
    MaxTip,       \* height of the last block
    Limits,       \* page sizes callers ask for
    MaxPageSize,  \* api.max_page_size
    MaxBatch      \* length of the batches the properties quantify over

ASSUME ReadAssumption ==
    /\ IsFiniteSet(Txs) /\ IsFiniteSet(Seals) /\ IsFiniteSet(Cells)
    /\ Pos \in [Txs -> Nat \X Nat] /\ NoTx \notin Txs
    /\ \A t, u \in Txs : Pos[t] = Pos[u] => t = u
    /\ CreatedBy \in [Cells -> Txs \cup {NoTx}]
    /\ ConsumedBy \in [Cells -> Txs \cup {NoTx}]
    /\ SealOf \in [Cells -> Seals \cup {NoSeal}] /\ NoSeal \notin Seals
    /\ AssetOf \in [Cells -> Assets \cup {NoAsset}] /\ NoAsset \notin Assets
    /\ Assets \subseteq Nat /\ Amount \in [Cells -> Nat]
    /\ DOMAIN OwnerOf = Seals
    /\ KindOf \in [Assets -> {"xudt", "sudt", "spore", "spore_cluster", "unknown"}]
    /\ BoundTo \in [Cells -> Txids] /\ NoTxid \notin Txids
    /\ BtcTxidOf \in [Txs -> Txids \cup {NoTxid}]
    /\ VoutOf \in [Seals -> Nat] /\ OutCount \in [Txids -> Nat \ {0}]
    /\ MaxLookup \in Nat \ {0}
    /\ MaxTip \in Nat /\ Limits \subseteq Int /\ MaxPageSize \in Nat \ {0}
    /\ MaxBatch \in Nat

VARIABLES
    tip,       \* indexed_to
    labelled,  \* seals with a recorded address
    spent,     \* seals observed as spent on Bitcoin
    scroll,    \* the client reading an address history
    listing,   \* the client reading the asset list
    poll       \* the client polling the status of a transaction

vars == <<tip, labelled, spent, scroll, listing, poll>>

Addresses == {OwnerOf[s] : s \in Seals}

Indexed(t) == t # NoTx /\ Pos[t][1] <= tip

CellRows == {c \in Cells : Indexed(CreatedBy[c]) \/ Indexed(ConsumedBy[c])}

Consumed(c) == Indexed(ConsumedBy[c])

\* The `owned` of the activity queries: cells joined with labelled seals.
Owned(address) ==
    {c \in CellRows : SealOf[c] \in labelled /\ OwnerOf[SealOf[c]] = address}

Before(p, q) == p[1] < q[1] \/ (p[1] = q[1] /\ p[2] < q[2])

\* CKB's own rule: a cell is consumed after it was created.
ASSUME CausalAssumption ==
    \A c \in Cells : CreatedBy[c] # NoTx /\ ConsumedBy[c] # NoTx =>
        Before(Pos[CreatedBy[c]], Pos[ConsumedBy[c]])

\* Mutant: the configured maximum is forgotten.
PageSizeUnbounded(requested) == IF requested < 1 THEN 1 ELSE requested

\* AppState::page_size.
PageSize(requested) ==
    IF requested < 1 THEN 1 ELSE IF requested > MaxPageSize THEN MaxPageSize ELSE requested
-----------------------------------------------------------------------------
\* GET /v1/rgbpp/activity/by-btc-address

Touched(address) ==
    {t \in Txs : Indexed(t) /\ \E c \in Owned(address) : t \in {CreatedBy[c], ConsumedBy[c]}}

\* Mutant: the cursor is only a block number.
AfterCursorBlock(t, cursor) == cursor = <<>> \/ Pos[t][1] < cursor[1]

\* Mutant: the entry at the cursor is sent again.
AfterCursorAgain(t, cursor) == cursor = <<>> \/ ~Before(cursor, Pos[t])

\* The keyset condition; no cursor, or an unreadable one, is the first page.
AfterCursor(t, cursor) == cursor = <<>> \/ Before(Pos[t], cursor)

\* The newest `limit` of the transitions behind the cursor.
ActivityPage(address, cursor, limit) ==
    LET rest == {t \in Touched(address) : AfterCursor(t, cursor)} IN
    {t \in rest : Cardinality({u \in rest : Before(Pos[t], Pos[u])}) < limit}

\* address_activity_cells and the entry build_activity makes of them.
Entry(address, t) ==
    [tx       |-> t,
     received |-> {c \in Owned(address) : CreatedBy[c] = t},
     sent     |-> {c \in Owned(address) : ConsumedBy[c] = t}]

OfAsset(S, a) == {c \in S : AssetOf[c] = a}

Total(S) == SumFunctionOnSet(Amount, S)

\* DeltaAccumulator: the net movement of one asset in an entry.
Delta(entry, a) ==
    [amount |-> Total(OfAsset(entry.received, a)) - Total(OfAsset(entry.sent, a)),
     cells  |-> Cardinality(OfAsset(entry.received, a)) - Cardinality(OfAsset(entry.sent, a))]

\* Mutant: bindings of consumed cells are not counted.
UnresolvedLive ==
    {c \in CellRows : ~Consumed(c) /\ SealOf[c] # NoSeal /\ SealOf[c] \notin labelled}

\* bindings_missing_address.
Unresolved == {c \in CellRows : SealOf[c] # NoSeal /\ SealOf[c] \notin labelled}

Idle == [pc |-> "idle", address |-> "none", limit |-> 1, cursor |-> <<>>, page |-> {},
         entries |-> {}, due |-> {}, quiet |-> TRUE, whole |-> TRUE]

\* Requests only read, so one client at a time shows all they can see.
NoClient == scroll.pc = "idle" /\ listing.pc = "idle" /\ poll.pc = "idle"

\* A client starts; `due` is what its history has to show.
StartScroll(address, requested) ==
    /\ NoClient
    /\ scroll' = [Idle EXCEPT !.pc = "rows", !.address = address,
                              !.limit = PageSize(requested), !.due = Touched(address)]
    /\ UNCHANGED <<tip, labelled, spent, listing, poll>>

\* First query of a page: the transitions.
ReadRows ==
    /\ scroll.pc = "rows"
    /\ scroll' = [scroll EXCEPT
           !.pc = "cells",
           !.page = ActivityPage(scroll.address, scroll.cursor, scroll.limit)]
    /\ UNCHANGED <<tip, labelled, spent, listing, poll>>

\* Mutant: the newest one.
OldestNewest(S) == CHOOSE t \in S : \A u \in S : ~Before(Pos[t], Pos[u])

\* The last of a list that is newest first, the first of one in block order.
Oldest(S) == CHOOSE t \in S : \A u \in S : ~Before(Pos[u], Pos[t])

LastPos(page) == Pos[Oldest(page)]

ReachedEnd(page, limit) == Cardinality(page) < limit

\* Second query: the cells of the page; the entries are complete.
ReadCells ==
    /\ scroll.pc = "cells"
    /\ scroll' = [scroll EXCEPT
           !.pc = "count",
           !.entries = @ \cup {Entry(scroll.address, t) : t \in scroll.page}]
    /\ UNCHANGED <<tip, labelled, spent, listing, poll>>

\* Third query: unresolved_bindings_total.  The page is sent with its cursor.
ReadUnresolved ==
    /\ scroll.pc = "count"
    /\ scroll' = [scroll EXCEPT
           !.pc     = IF ReachedEnd(scroll.page, scroll.limit) \/ scroll.page = {}
                      THEN "done" ELSE "rows",
           !.cursor = IF scroll.page = {} THEN @ ELSE LastPos(scroll.page),
           !.whole  = @ /\ Unresolved = {}]
    /\ UNCHANGED <<tip, labelled, spent, listing, poll>>

Forget ==
    /\ scroll.pc = "done"
    /\ scroll' = Idle
    /\ UNCHANGED <<tip, labelled, spent, listing, poll>>
-----------------------------------------------------------------------------
\* GET /v1/rgbpp/assets

\* Mutant: a cluster is a collection and not a DOB.
KindsOfClusterless(kind) ==
    CASE kind = "udt"     -> {"xudt", "sudt"}
      [] kind = "dob"     -> {"spore"}
      [] kind = "unknown" -> {"unknown"}
      [] kind = "all"     -> {"xudt", "sudt", "spore", "unknown"}

\* The kinds a query names; "all" also stands for none given.
KindsOf(kind) ==
    CASE kind = "udt"     -> {"xudt", "sudt"}
      [] kind = "dob"     -> {"spore", "spore_cluster"}
      [] kind = "unknown" -> {"unknown"}
      [] kind = "all"     -> {"xudt", "sudt", "spore", "spore_cluster", "unknown"}

RowsOf(a) == {c \in CellRows : AssetOf[c] = a}

LiveRowsOf(a) == {c \in RowsOf(a) : ~Consumed(c)}

\* Cells older than the index are recorded with the block of their creation.
CreatedBlock(c) == IF CreatedBy[c] = NoTx THEN 0 ELSE Pos[CreatedBy[c]][1]

LastBlock(a) == Max({CreatedBlock(c) : c \in RowsOf(a)})

ListedBefore(a, b) ==
    \/ LastBlock(a) > LastBlock(b)
    \/ /\ LastBlock(a) = LastBlock(b)
       /\ \/ Cardinality(LiveRowsOf(a)) > Cardinality(LiveRowsOf(b))
          \/ Cardinality(LiveRowsOf(a)) = Cardinality(LiveRowsOf(b)) /\ a < b

AssetsOfKinds(kinds) == {a \in Assets : RowsOf(a) # {} /\ KindOf[a] \in kinds}

\* list_assets: ORDER BY ... LIMIT ... OFFSET.
AssetPage(kinds, limit, offset) ==
    LET listed == AssetsOfKinds(kinds)
        rank(a) == Cardinality({b \in listed : ListedBefore(b, a)})
    IN  {a \in listed : rank(a) \in offset .. offset + limit - 1}

CountAssets(kinds) == Cardinality(AssetsOfKinds(kinds))

NoListing == [pc |-> "idle", kind |-> "all", limit |-> 1, offset |-> 0, waits |-> {},
              more |-> FALSE, got |-> {}, again |-> {}, quiet |-> TRUE]

\* The two queries a page of the list joins, in whichever order they answer.
Queries == {"rows", "total"}

StartListing(kind, requested) ==
    /\ NoClient
    /\ listing' = [NoListing EXCEPT !.pc = "page", !.kind = kind, !.waits = Queries,
                                    !.limit = PageSize(requested)]
    /\ UNCHANGED <<tip, labelled, spent, scroll, poll>>

ListRows ==
    LET page == AssetPage(KindsOf(listing.kind), listing.limit, listing.offset) IN
    /\ "rows" \in listing.waits
    /\ listing' = [listing EXCEPT !.waits = @ \ {"rows"},
                                  !.got = @ \cup page,
                                  !.again = @ \cup (listing.got \cap page)]
    /\ UNCHANGED <<tip, labelled, spent, scroll, poll>>

ListTotal ==
    /\ "total" \in listing.waits
    /\ listing' = [listing EXCEPT
           !.waits = @ \ {"total"},
           !.more  = listing.offset + listing.limit < CountAssets(KindsOf(listing.kind))]
    /\ UNCHANGED <<tip, labelled, spent, scroll, poll>>

\* The client asks for the next offset while the total says there is more.
NextAssets ==
    /\ listing.pc = "page" /\ listing.waits = {}
    /\ listing' = IF listing.more
                  THEN [listing EXCEPT !.waits = Queries, !.offset = @ + listing.limit]
                  ELSE [listing EXCEPT !.pc = "done"]
    /\ UNCHANGED <<tip, labelled, spent, scroll, poll>>

ForgetListing ==
    /\ listing.pc = "done"
    /\ listing' = NoListing
    /\ UNCHANGED <<tip, labelled, spent, scroll, poll>>
-----------------------------------------------------------------------------
\* asset_summary_sql: the seals of an asset's live RGB++ cells, by owner.
LiveSeals(a) == {SealOf[c] : c \in LiveRowsOf(a)} \ {NoSeal}

HolderCount(a) == Cardinality({OwnerOf[s] : s \in LiveSeals(a) \cap labelled})

\* Mutant: every unlabelled seal is put down to one holder.
UnlabelledSealCountOnce(a) == IF LiveSeals(a) \subseteq labelled THEN 0 ELSE 1

UnlabelledSealCount(a) == Cardinality(LiveSeals(a) \ labelled)

\* Mutant: the Bitcoin side is looked at first.
StatusBtcFirst(c) ==
    IF SealOf[c] \in spent THEN "pending_ckb" ELSE IF Consumed(c) THEN "spent" ELSE "live"

\* The view rgbpp_cell_status.
Status(c) ==
    IF Consumed(c) THEN "spent" ELSE IF SealOf[c] \in spent THEN "pending_ckb" ELSE "live"

\* asset_balances_for_outpoints.
BalanceCells(seals, a, includePending) ==
    {c \in RowsOf(a) : /\ SealOf[c] \in seals
                       /\ Status(c) \in {"live"} \cup (IF includePending THEN {"pending_ckb"} ELSE {})}

\* cells_by_btc_outpoints.
CellsBySeals(seals, includeSpent) ==
    {c \in CellRows : SealOf[c] \in seals /\ (includeSpent \/ ~Consumed(c))}

\* counts, of the tables that are modelled here.
Counts ==
    [total_cells |-> Cardinality(CellRows),
     live_cells |-> Cardinality({c \in CellRows : ~Consumed(c)}),
     pending_ckb_cells |-> Cardinality({c \in CellRows : Status(c) = "pending_ckb"}),
     transitions |-> Cardinality({t \in Txs : Indexed(t)}),
     udts |-> Cardinality(AssetsOfKinds({"xudt", "sudt"})),
     dobs |-> Cardinality(AssetsOfKinds({"spore"}))]

\* GET /v1/rgbpp/assets/by-btc-address, after the reconciliation Reconcile has:
\* the cells on the outputs the source lists for the address.
AddressCells(utxos, includeSpent) == CellsBySeals(utxos, includeSpent)

\* GET /v1/rgbpp/balance/by-btc-address, likewise.
AddressBalance(utxos, a, includePending) == Total(BalanceCells(utxos, a, includePending))

Refused == <<"400">>

\* What a batch answers for a key without a row.
Null == <<>>

\* parse_batch: too many keys, or one that cannot be parsed, refuse the batch.
BatchRefused(keys, bad) == Len(keys) > MaxPageSize \/ \E i \in DOMAIN keys : keys[i] = bad

\* Mutant: the rows of a key are moved out when it is first answered.
CellsBatchMoved(keys, includeSpent) ==
    IF BatchRefused(keys, NoSeal) THEN Refused
    ELSE LET rows == CellsBySeals(Range(keys), includeSpent) IN
         [i \in DOMAIN keys |-> IF \E j \in 1 .. i - 1 : keys[j] = keys[i] THEN {}
                                ELSE {c \in rows : SealOf[c] = keys[i]}]

\* POST /v1/rgbpp/cells:batch: one query for all keys, answers by position.
CellsBatch(keys, includeSpent) ==
    IF BatchRefused(keys, NoSeal) THEN Refused
    ELSE LET rows == CellsBySeals(Range(keys), includeSpent) IN
         [i \in DOMAIN keys |-> {c \in rows : SealOf[c] = keys[i]}]

\* The row of asset_summary_sql.
Summary(a) ==
    [cells |-> Cardinality(RowsOf(a)), live |-> Cardinality(LiveRowsOf(a)),
     seals |-> Cardinality({<<BoundTo[c], SealOf[c]>> : c \in LiveRowsOf(a)}),
     amount |-> Total(LiveRowsOf(a)), last |-> LastBlock(a),
     holders |-> HolderCount(a), unlabelled |-> UnlabelledSealCount(a)]

\* assets_by_type_hashes.
AssetsByHashes(hashes) == {a \in hashes : RowsOf(a) # {}}

\* POST /v1/rgbpp/assets:batch.
AssetsBatch(keys) ==
    IF BatchRefused(keys, NoAsset) THEN Refused
    ELSE LET rows == AssetsByHashes(Range(keys)) IN
         [i \in DOMAIN keys |-> IF keys[i] \in rows THEN Summary(keys[i]) ELSE Null]

\* transition_by_ckb_tx.
TransitionByTx(t) == IF Indexed(t) THEN [tx |-> t, txid |-> BtcTxidOf[t]] ELSE Null

\* transitions_by_ckb_txs.
TransitionsByTxs(hashes) == {t \in hashes : Indexed(t)}

\* POST /v1/rgbpp/transitions:batch.
TransitionsBatch(keys) ==
    IF BatchRefused(keys, NoTx) THEN Refused
    ELSE LET rows == TransitionsByTxs(Range(keys)) IN
         [i \in DOMAIN keys |->
             IF keys[i] \in rows THEN [tx |-> keys[i], txid |-> BtcTxidOf[keys[i]]] ELSE Null]
-----------------------------------------------------------------------------
\* GET /v1/rgbpp/transactions/{txid}

\* transitions_by_btc_txid.
TransitionsOf(x) == {t \in Txs : Indexed(t) /\ BtcTxidOf[t] = x}

\* cells_by_btc_txid.
CellsOfTxid(x) == {c \in CellRows : BoundTo[c] = x}

\* On CKB at height h, indexed or not.
LiveAt(c, h) ==
    /\ CreatedBy[c] # NoTx => Pos[CreatedBy[c]][1] <= h
    /\ ConsumedBy[c] # NoTx => Pos[ConsumedBy[c]][1] > h

\* The outputs that are looked up, one request each, up to the last one.
LastLookedUp(x) == (IF OutCount[x] < MaxLookup THEN OutCount[x] ELSE MaxLookup) - 1

LookedUp(x) == 0 .. LastLookedUp(x)

\* Mutant: the blocks the index has reached are not searched again.
PointLookupAbove(x, height) ==
    {c \in Cells : /\ BoundTo[c] = x /\ SealOf[c] # NoSeal /\ VoutOf[SealOf[c]] \in LookedUp(x)
                   /\ LiveAt(c, height[VoutOf[SealOf[c]]]) /\ c \notin CellRows}

\* point_lookup_cells: the rich indexer's live cells under the RGB++ lock of an
\* output of x; output i is asked for when the rich indexer is at height[i].
PointLookup(x, height) ==
    {c \in Cells : /\ BoundTo[c] = x /\ SealOf[c] # NoSeal /\ VoutOf[SealOf[c]] \in LookedUp(x)
                   /\ LiveAt(c, height[VoutOf[SealOf[c]]])}

\* Where the request is and what it has read; the rich indexer was
\* asked from height `from` to height `seen`; `before` is what the poll before
\* was told.
NoPoll == [pc |-> "idle", txid |-> NoTxid, resolution |-> "none", named |-> NoTx,
           from |-> 0, seen |-> 0, transitions |-> {}, cells |-> {}, before |-> NoTx]

StartPoll(x) ==
    /\ NoClient
    /\ poll' = [NoPoll EXCEPT !.pc = "resolve", !.txid = x]
    /\ UNCHANGED <<tip, labelled, spent, scroll, listing>>

Resolved(resolution) ==
    poll' = [poll EXCEPT !.pc = "transitions", !.resolution = resolution, !.named = NoTx]

\* resolve_transition: an indexed transition answers at once.
ResolveIndexed ==
    LET rows == TransitionsOf(poll.txid) IN
    /\ poll.pc = "resolve"
    /\ poll' = IF rows = {} THEN [poll EXCEPT !.pc = "source"]
               ELSE [poll EXCEPT !.pc = "transitions", !.resolution = "indexed",
                                 !.named = Oldest(rows)]
    /\ UNCHANGED <<tip, labelled, spent, scroll, listing>>

\* The data source knows the transaction or not; Reconcile has the refresh of
\* its inputs.
ResolveSource ==
    /\ poll.pc = "source"
    /\ Resolved("unknown_btc_tx") \/ poll' = [poll EXCEPT !.pc = "lookup"]
    /\ UNCHANGED <<tip, labelled, spent, scroll, listing>>

\* The rich indexer is ahead of the index by the reorg lag, or more.
ResolveLookup ==
    /\ poll.pc = "lookup"
    /\ \E height \in [LookedUp(poll.txid) -> tip .. MaxTip] :
          /\ \A i, j \in LookedUp(poll.txid) : i <= j => height[i] <= height[j]
          /\ height[0] >= poll.seen
          /\ poll' = [poll EXCEPT
                 !.pc = "transitions", !.named = NoTx, !.from = height[0],
                 !.seen = height[LastLookedUp(poll.txid)],
                 !.resolution = IF PointLookup(poll.txid, height) # {} THEN "ckb_seen_above_lag"
                                ELSE "awaiting_ckb"]
    /\ UNCHANGED <<tip, labelled, spent, scroll, listing>>

ReadTransitions ==
    /\ poll.pc = "transitions"
    /\ poll' = [poll EXCEPT !.pc = "cells", !.transitions = TransitionsOf(poll.txid)]
    /\ UNCHANGED <<tip, labelled, spent, scroll, listing>>

ReadTxidCells ==
    /\ poll.pc = "cells"
    /\ poll' = [poll EXCEPT !.pc = "done", !.cells = CellsOfTxid(poll.txid)]
    /\ UNCHANGED <<tip, labelled, spent, scroll, listing>>

\* The client asks again.
PollAgain ==
    /\ poll.pc = "done"
    /\ poll' = [NoPoll EXCEPT !.pc = "resolve", !.txid = poll.txid, !.seen = poll.seen,
                              !.before = poll.named]
    /\ UNCHANGED <<tip, labelled, spent, scroll, listing>>

\* It has enough, or a query failed and it was told so.
EndPoll ==
    /\ poll.pc # "idle"
    /\ poll' = NoPoll
    /\ UNCHANGED <<tip, labelled, spent, scroll, listing>>
-----------------------------------------------------------------------------
Init ==
    /\ tip = 0
    /\ labelled = {} /\ spent = {}
    /\ scroll = Idle
    /\ listing = NoListing
    /\ poll = NoPoll

Disturb ==
    /\ scroll' = [scroll EXCEPT !.quiet = FALSE]
    /\ listing' = [listing EXCEPT !.quiet = FALSE]
    /\ UNCHANGED poll

\* The scanner commits the next block.
CommitBlock ==
    /\ tip < MaxTip
    /\ tip' = tip + 1
    /\ Disturb
    /\ UNCHANGED <<labelled, spent>>

\* The backfill records the owner of a bound seal.
Label(s) ==
    /\ s \notin labelled
    /\ \E c \in CellRows : SealOf[c] = s
    /\ labelled' = labelled \cup {s}
    /\ Disturb
    /\ UNCHANGED <<tip, spent>>

\* The reconciler observes a spend of a seal whose cells are being consumed.
Observe(s) ==
    /\ s \notin spent
    /\ \E c \in CellRows : SealOf[c] = s /\ ConsumedBy[c] # NoTx
    /\ spent' = spent \cup {s}
    /\ UNCHANGED <<tip, labelled, scroll, listing, poll>>

Next ==
    \/ CommitBlock
    \/ \E s \in Seals : Label(s) \/ Observe(s)
    \/ \E a \in Addresses, n \in Limits : StartScroll(a, n)
    \/ ReadRows \/ ReadCells \/ ReadUnresolved \/ Forget
    \/ \E k \in {"all", "udt", "dob", "unknown"}, n \in Limits : StartListing(k, n)
    \/ ListRows \/ ListTotal \/ NextAssets \/ ForgetListing
    \/ \E x \in Txids : StartPoll(x)
    \/ ResolveIndexed \/ ResolveSource \/ ResolveLookup \/ ReadTransitions \/ ReadTxidCells
    \/ PollAgain \/ EndPoll

Spec == Init /\ [][Next]_vars
-----------------------------------------------------------------------------
\* The type invariant of the index as read and of its clients.
TypeOK ==
    /\ tip \in 0 .. MaxTip
    /\ labelled \subseteq Seals /\ spent \subseteq Seals
    /\ scroll.pc \in {"idle", "rows", "cells", "count", "done"}
    /\ scroll.page \subseteq Txs /\ scroll.due \subseteq Txs
    /\ scroll.limit \in 1 .. MaxPageSize
    /\ \A e \in scroll.entries : e.tx \in Txs /\ e.received \cup e.sent \subseteq Cells
    /\ listing.pc \in {"idle", "page", "done"} /\ listing.got \subseteq Assets
    /\ poll.txid \in Txids \cup {NoTxid} /\ poll.seen \in 0 .. MaxTip
    /\ poll.transitions \subseteq Txs /\ poll.cells \subseteq Cells

EntryTxs(entries) == {e.tx : e \in entries}

\* activity.rs: "an offset would drift as the scanner appends, silently
\* repeating or skipping entries mid-scroll".  A page never shows a transition
\* an earlier page of the same history showed, whatever was indexed or
\* labelled in between.
NoRepeat ==
    [][scroll.pc = "rows" /\ scroll'.pc = "cells" =>
           scroll'.page \cap EntryTxs(scroll.entries) = {}]_vars

\* activity.rs, the other half: a history read to its end has every transition
\* that touched the address when the reading began.
HistoryComplete == scroll.pc = "done" => scroll.due \subseteq EntryTxs(scroll.entries)

\* The history, the balance and the list of cells tell the same story: when
\* nothing moved during the reading, the deltas of the entries add up to the
\* unspent cells on the seals of the address, less the cells from before the
\* index, of which only the consumption is history.
HistoryMatchesBalance ==
    scroll.pc = "done" /\ scroll.quiet =>
        LET mine   == {s \in labelled : OwnerOf[s] = scroll.address}
            held(a)  == OfAsset(AddressCells(mine, FALSE), a)
            older(a) == {c \in RowsOf(a) : SealOf[c] \in mine /\ CreatedBy[c] = NoTx}
            sum(a)   == SumFunction([e \in scroll.entries |-> Delta(e, a).amount])
            count(a) == SumFunction([e \in scroll.entries |-> Delta(e, a).cells])
        IN  \A a \in Assets :
               /\ sum(a) = AddressBalance(mine, a, TRUE) - Total(older(a))
               /\ count(a) = Cardinality(held(a)) - Cardinality(older(a))
               /\ Total(held(a)) = AddressBalance(mine, a, TRUE)

\* dto.rs, unresolved_bindings_total: "non-zero means ... any history may be
\* incomplete".  When nothing moved during the reading and every page reported
\* none, the history has every transition of every cell the address controls.
WholeStory ==
    scroll.pc = "done" /\ scroll.quiet /\ scroll.whole =>
        \A c \in CellRows :
            SealOf[c] # NoSeal /\ OwnerOf[SealOf[c]] = scroll.address =>
                {t \in {CreatedBy[c], ConsumedBy[c]} : Indexed(t)} \subseteq EntryTxs(scroll.entries)

\* handlers.rs, list_assets: paging by offset until the total is reached lists
\* every asset with a cell, spore clusters and assets nobody holds any more
\* included, and each one once, when nothing was indexed during the reading; the
\* counts of /status are those of the list.
ListingComplete ==
    listing.pc = "done" /\ listing.quiet =>
        /\ listing.again = {}
        /\ listing.kind = "all" =>
              listing.got = {AssetOf[c] : c \in CellRows} \ {NoAsset}
        /\ listing.kind = "dob" =>
              listing.got = {a \in {AssetOf[c] : c \in CellRows} \ {NoAsset} :
                                KindOf[a] \notin {"xudt", "sudt", "unknown"}}
        /\ listing.kind = "udt" => Cardinality(listing.got) = Counts.udts
        /\ listing.kind = "dob" =>
              Counts.dobs = Cardinality({a \in listing.got : KindOf[a] # "spore_cluster"})

\* README: holder_count is a floor, and with unlabelled_seal_count it bounds
\* the true number of holders, also when one address holds several seals.
HoldersBounded ==
    \A a \in Assets :
        LET seals == {SealOf[c] : c \in {d \in CellRows : AssetOf[d] = a /\ ~Consumed(d)}} \ {NoSeal}
            holders == Cardinality({OwnerOf[s] : s \in seals})
        IN  HolderCount(a) <= holders /\ holders <= HolderCount(a) + UnlabelledSealCount(a)

\* handlers.rs, parse_batch: "answers are aligned with the request".  A batch
\* is refused as a whole or answered at every position as the single requests
\* and the asset list would, repeated keys included.
\* (An answer depends on the index alone: states between two clients suffice.)
BatchAligned ==
    NoClient =>
        /\ \A keys \in SeqOf(Seals \cup {NoSeal}, MaxBatch), all \in BOOLEAN :
              IF Len(keys) > MaxPageSize \/ NoSeal \in Range(keys)
              THEN CellsBatch(keys, all) = Refused
              ELSE \A i \in 1 .. Len(keys) :
                      CellsBatch(keys, all)[i] = CellsBySeals({keys[i]}, all)
        /\ \A keys \in SeqOf(Assets \cup {NoAsset}, MaxBatch) :
              IF Len(keys) > MaxPageSize \/ NoAsset \in Range(keys)
              THEN AssetsBatch(keys) = Refused
              ELSE \A i \in 1 .. Len(keys) :
                      AssetsBatch(keys)[i] =
                          IF keys[i] \in AssetsOfKinds({KindOf[keys[i]]}) THEN Summary(keys[i]) ELSE Null
        /\ \A keys \in SeqOf(Txs \cup {NoTx}, MaxBatch) :
              IF Len(keys) > MaxPageSize \/ NoTx \in Range(keys)
              THEN TransitionsBatch(keys) = Refused
              ELSE \A i \in 1 .. Len(keys) : TransitionsBatch(keys)[i] = TransitionByTx(keys[i])

\* handlers.rs, transaction_status: "suitable for polling".  The three queries
\* of an answer agree although the index moves between them: the transition a
\* resolution names heads the list, and the list's cells are all there.  And a
\* transition once named is named by every later answer.
PollsConsistent ==
    poll.pc = "done" =>
        /\ poll.before # NoTx => poll.named = poll.before
        /\ poll.resolution = "indexed" =>
              /\ poll.named \in poll.transitions
              /\ \A t \in poll.transitions : ~Before(Pos[t], Pos[poll.named])
        /\ \A t \in poll.transitions :
              {c \in Cells : CreatedBy[c] = t /\ BoundTo[c] = poll.txid} \subseteq poll.cells

\* reconcile.rs, resolve_transition: "look past the lag".  An answer that CKB is
\* awaited is not given because the index caught up between the two look-ups:
\* every cell CKB had for it when the outputs were first asked for is
\* consumed, under the time lock, or beyond the bound of the look-up.
AwaitingExplained ==
    poll.pc = "done" /\ poll.resolution = "awaiting_ckb" =>
        \A c \in Cells :
            /\ BoundTo[c] = poll.txid
            /\ CreatedBy[c] # NoTx => Pos[CreatedBy[c]][1] <= poll.from
            => \/ ConsumedBy[c] # NoTx /\ Pos[ConsumedBy[c]][1] <= poll.seen
               \/ SealOf[c] = NoSeal
               \/ VoutOf[SealOf[c]] >= MaxLookup \/ VoutOf[SealOf[c]] >= OutCount[poll.txid]
=============================================================================
