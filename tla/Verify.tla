------------------------------- MODULE Verify -------------------------------
(***************************************************************************)
(* The commitment verifier (verify.rs): one pass over the oldest unchecked *)
(* transitions, comparing what each commits to with what its Bitcoin       *)
(* transaction published.                                                  *)
(***************************************************************************)
EXTENDS Ledger

CONSTANT VerifyBatch  \* verify.batch_size

ASSUME VerifyAssumption == VerifyBatch \in Nat \ {0}

\* The pass: where it is, the transitions left of its batch, and the one it is at.
VARIABLE pass

NoPass == [pc |-> "idle", batch |-> {}, item |-> 0]
NewPass == [pc |-> "read", batch |-> {}, item |-> 0]

Item == pass.item

\* Mutant: the last tagged payload counts.
FindCommitmentLast(x) ==
    LET all    == DOMAIN Payloads[x]
        tagged == {i \in all : Payloads[x][i].tagged}
    IN  IF all = {} THEN NoCommitment
        ELSE Payloads[x][IF tagged = {} THEN Min(all) ELSE Max(tagged)].value

\* find_commitment: the first tagged payload, or else the first plain one.
FindCommitment(x) ==
    LET all    == DOMAIN Payloads[x]
        tagged == {i \in all : Payloads[x][i].tagged}
    IN  IF all = {} THEN NoCommitment
        ELSE Payloads[x][Min(IF tagged = {} THEN all ELSE tagged)].value

Verdict(expected, observed) ==
    IF observed = NoCommitment THEN "missing"
    ELSE IF expected = NoCommitment THEN "unchecked"
    ELSE IF observed = expected THEN "match" ELSE "mismatch"

\* Mutant: a transaction that was unknown is looked up again.
UncheckedOrUnknown ==
    {t \in 1 .. indexed : status[t] \in {"unchecked", "btc_unknown"} /\ TxidOf[t] # NoTxid}

Unchecked ==
    {t \in 1 .. indexed : status[t] = "unchecked" /\ TxidOf[t] # NoTxid}

\* unchecked_transitions: ORDER BY block_number LIMIT, which leaves the order
\* within a block, and what the limit cuts off of one, to the database.
IsUncheckedBatch(batch) ==
    /\ Cardinality(batch) =
          (IF Cardinality(Unchecked) < VerifyBatch THEN Cardinality(Unchecked) ELSE VerifyBatch)
    /\ \A t \in batch, u \in Unchecked \ batch : BlockOf[t] <= BlockOf[u]

\* Mutant: the newest block comes first.
FrontNewest(batch) == {t \in batch : \A u \in batch : BlockOf[u] <= BlockOf[t]}

\* The transitions that may come next, in the order of the query.
Front(batch) == {t \in batch : \A u \in batch : BlockOf[t] <= BlockOf[u]}

\* The next transition of the batch, or the end of the pass.
GoOn(batch) ==
    \/ batch = {} /\ pass' = NoPass
    \/ \E t \in Front(batch) : pass' = [pc |-> "fetch", batch |-> batch, item |-> t]

GoTo(pc) == pass' = [pass EXCEPT !.pc = pc]

ReadBatch ==
    /\ pass.pc = "read"
    /\ \E batch \in SUBSET Unchecked : IsUncheckedBatch(batch) /\ GoOn(batch)
    /\ UNCHANGED ledgerVars

\* set_commitment_result.
SetResult(t, result) == status' = [status EXCEPT ![t] = result]

\* Issuance is exempt.
SkipIssuance ==
    /\ pass.pc = "fetch"
    /\ Item \in Issuances
    /\ SetResult(Item, "not_applicable")
    /\ GoOn(pass.batch \ {Item})
    /\ UNCHANGED <<indexed, known, anomalies, cached, labels, faults>>

\* refresh_btc_tx: the source does not know the transaction.
FetchNone ==
    /\ pass.pc = "fetch"
    /\ Item \notin Issuances
    /\ TxidOf[Item] \notin known \cup Broken
    /\ GoTo("unknown")
    /\ UNCHANGED ledgerVars

\* refresh_btc_tx: it does (and will not forget it, so that this is one step
\* with the next); the outputs are labelled, and a failure is only logged.
FetchTx ==
    /\ pass.pc = "fetch"
    /\ Item \notin Issuances
    /\ TxidOf[Item] \in known \ Broken
    /\ \/ labels' = labels \cup Labelled(TxidOf[Item]) /\ UNCHANGED faults
       \/ Fault /\ UNCHANGED labels
    /\ GoTo("cache")
    /\ UNCHANGED <<indexed, known, status, anomalies, cached>>

\* refresh_btc_tx: upsert_btc_tx.
CacheTx ==
    /\ pass.pc = "cache"
    /\ cached' = cached \cup {TxidOf[Item]}
    /\ GoTo("judge")
    /\ UNCHANGED <<indexed, known, status, anomalies, labels, faults>>

\* A mismatch is recorded as a finding before its verdict is stored.
RecordMismatch ==
    /\ pass.pc = "judge"
    /\ Verdict(Expected[Item], FindCommitment(TxidOf[Item])) = "mismatch"
    /\ anomalies' = anomalies \cup {<<"commitment_mismatch", Item>>}
    /\ GoTo("settle")
    /\ UNCHANGED <<indexed, known, status, cached, labels, faults>>

\* The verdict is stored.
Settle ==
    LET verdict == Verdict(Expected[Item], FindCommitment(TxidOf[Item])) IN
    /\ \/ pass.pc = "judge" /\ verdict # "mismatch"
       \/ pass.pc = "settle"
    /\ SetResult(Item, verdict)
    /\ GoOn(pass.batch \ {Item})
    /\ UNCHANGED <<indexed, known, anomalies, cached, labels, faults>>

\* Mutant: the status is all that is written.
SetUnknownOnly ==
    /\ pass.pc = "unknown"
    /\ SetResult(Item, "btc_unknown")
    /\ GoOn(pass.batch \ {Item})
    /\ UNCHANGED <<indexed, known, anomalies, cached, labels, faults>>

\* The source does not know the transaction: the status, and then the finding.
SetUnknown ==
    /\ pass.pc = "unknown"
    /\ SetResult(Item, "btc_unknown")
    /\ GoTo("report")
    /\ UNCHANGED <<indexed, known, anomalies, cached, labels, faults>>

RecordUnknown ==
    /\ pass.pc = "report"
    /\ anomalies' = anomalies \cup {<<"unknown_btc_tx", Item>>}
    /\ GoOn(pass.batch \ {Item})
    /\ UNCHANGED <<indexed, known, status, cached, labels, faults>>

\* Mutant: an error leaves the pass where it is, and the request is repeated
\* for ever.
AbortPassNever ==
    /\ pass.pc = "fetch" /\ Item \notin Issuances /\ TxidOf[Item] \in Broken
    /\ pass' = [pass EXCEPT !.pc = "fetch"]
    /\ UNCHANGED ledgerVars

\* Any other failure ends the pass; what is left is read again by the next one.
AbortPass ==
    /\ \/ pass.pc # "idle" /\ Fault
       \/ /\ pass.pc = "fetch" /\ Item \notin Issuances /\ TxidOf[Item] \in Broken
          /\ UNCHANGED faults
    /\ pass' = NoPass
    /\ UNCHANGED <<indexed, known, status, anomalies, cached, labels>>

VerifyStep ==
    \/ ReadBatch \/ SkipIssuance \/ FetchNone \/ FetchTx \/ CacheTx
    \/ RecordMismatch \/ Settle \/ SetUnknown \/ RecordUnknown \/ AbortPass
=============================================================================
