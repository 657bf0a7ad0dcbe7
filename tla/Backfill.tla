------------------------------ MODULE Backfill ------------------------------
(***************************************************************************)
(* The address backfill (address_backfill.rs): a walk, in txid order and a *)
(* page at a time, over the funding transactions of unlabelled bindings.   *)
(* The cursor lives in memory.                                             *)
(***************************************************************************)
EXTENDS Ledger

CONSTANT BackfillBatch  \* reconcile.address_backfill_batch

ASSUME BackfillAssumption == BackfillBatch \in Nat \ {0}

\* Where the pass is, the page's transactions still to resolve, the cursor it
\* was read with (0: none) and the one to go on from.
VARIABLE walk

NoWalk == [pc |-> "idle", todo |-> {}, cursor |-> 0, next |-> 0]

\* funding_txids_missing_address.
MissingAfter(cursor) ==
    LET all == {FundedBy[b] : b \in {d \in Bound \ labels : FundedBy[d] > cursor}} IN
    {x \in all : Cardinality({y \in all : y < x}) < BackfillBatch}

\* Mutant: the walk does not start over.
NextCursorOnward(page) == IF page = {} THEN walk.cursor ELSE Max(page)

\* A short page is the end of the set: start over.
NextCursor(page) == IF Cardinality(page) < BackfillBatch THEN 0 ELSE Max(page)

\* The rest of the page, or the end of the pass.
WalkOn(todo, next) ==
    walk' = IF todo = {} THEN [NoWalk EXCEPT !.cursor = next]
            ELSE [walk EXCEPT !.pc = "fetch", !.todo = todo, !.next = next]

\* The page is gone through in txid order.
Funding == Min(walk.todo)

BeginWalk == walk' = [walk EXCEPT !.pc = "read"]

ReadPage ==
    LET page == MissingAfter(walk.cursor) IN
    /\ walk.pc = "read"
    /\ WalkOn(page, NextCursor(page))
    /\ UNCHANGED ledgerVars

\* resolve: the transaction is cached; nothing to do for one the source does
\* not know.
FetchFunding ==
    /\ walk.pc = "fetch"
    /\ Funding \notin Broken
    /\ IF Funding \in known
       THEN cached' = cached \cup {Funding} /\ walk' = [walk EXCEPT !.pc = "label"]
       ELSE WalkOn(walk.todo \ {Funding}, walk.next) /\ UNCHANGED cached
    /\ UNCHANGED <<indexed, known, status, anomalies, labels, faults>>

LabelFunding ==
    /\ walk.pc = "label"
    /\ labels' = labels \cup Labelled(Funding)
    /\ WalkOn(walk.todo \ {Funding}, walk.next)
    /\ UNCHANGED <<indexed, known, status, anomalies, cached, faults>>

\* A transaction that fails is skipped.
SkipFunding ==
    /\ walk.pc \in {"fetch", "label"}
    /\ \/ Fault
       \/ walk.pc = "fetch" /\ Funding \in Broken /\ UNCHANGED faults
    /\ WalkOn(walk.todo \ {Funding}, walk.next)
    /\ UNCHANGED <<indexed, known, status, anomalies, cached, labels>>

\* The page itself cannot be read: the cursor stays.
PageFails ==
    /\ walk.pc = "read"
    /\ Fault
    /\ walk' = [walk EXCEPT !.pc = "idle"]
    /\ UNCHANGED <<indexed, known, status, anomalies, cached, labels>>

BackfillStep ==
    ReadPage \/ FetchFunding \/ LabelFunding \/ SkipFunding \/ PageFails
=============================================================================
