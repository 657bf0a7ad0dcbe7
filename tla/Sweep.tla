------------------------------- MODULE Sweep -------------------------------
(***************************************************************************)
(* The sweeper (crates/indexer/src/sweeper.rs): every live binding is      *)
(* observed again, and spends without a CKB transition become findings.    *)
(* Composed with the reconciler's other users.                             *)
(***************************************************************************)
EXTENDS Reconcile

CONSTANTS
    SweepBatch,  \* sweep.batch_size
    Grace,       \* sweep.misspend_grace_confirmations
    Allowed,     \* sweep.require_synced_within_blocks
    PendingLimit \* rows pending_ckb_outpoints returns at most

ASSUME SweepAssumption ==
    /\ SweepBatch \in Nat \ {0} /\ Grace \in Nat /\ Allowed \in Nat
    /\ PendingLimit \in Nat \ {0}

Kinds == {"btc_spent_without_ckb", "no_commitment_in_spender"}

Finding(kind, o) == [kind |-> kind, outpoint |-> o]

\* live_bound_outpoints_after: the next page, in the order of outpoints.
PageAfter(cursor) ==
    LET rest == {o \in live : o > cursor} IN
    {o \in rest : Cardinality({k \in rest : k < o}) < SweepBatch}

\* Mutant: the top block does not count as a confirmation.
ConfirmationsShort(tip, h) == IF tip >= h THEN tip - h ELSE 0

\* Mutant: a block before the spend counts as a confirmation.
ConfirmationsLong(tip, h) == (IF tip >= h THEN tip - h ELSE 0) + 2

Confirmations(tip, h) == (IF tip >= h THEN tip - h ELSE 0) + 1

\* Mutant: a recorded target of 0 is taken for none.
CaughtUpPositive ==
    /\ target > 0
    /\ target - Cardinality(transitions) <= Allowed

\* The checkpoint is close enough to the target recorded last, if there is one;
\* it may be past it.
CaughtUp ==
    /\ target # NoTarget
    /\ target - Cardinality(transitions) <= Allowed

StartSweep(w) ==
    /\ pc[w] = "idle"
    /\ job' = [job EXCEPT ![w] = EmptyJob]
    /\ Goto(w, "page")
    /\ UNCHANGED <<btcVars, ckbVars, queueVars, obs, btcTxs, anomalies, bounds>>

\* One turn of sweep_inner's loop; the last page is empty.
Page(w) ==
    LET page == PageAfter(job[w].cursor) IN
    /\ pc[w] = "page"
    /\ IF page = {}
       THEN Goto(w, "caught_up") /\ job' = [job EXCEPT ![w] = EmptyJob]
       ELSE BeginRefresh(w, [EmptyJob EXCEPT !.cursor =
                CHOOSE o \in page : \A k \in page : k <= o], page)
    /\ UNCHANGED <<btcVars, ckbVars, queueVars, obs, btcTxs, anomalies, bounds>>

\* indexer_is_caught_up.
CheckCaughtUp(w) ==
    /\ pc[w] = "caught_up"
    /\ Goto(w, IF CaughtUp THEN "tip" ELSE "idle")
    /\ UNCHANGED <<btcVars, ckbVars, queueVars, obs, btcTxs, anomalies, job, bounds>>

ReadTip(w) ==
    /\ pc[w] = "tip"
    /\ job' = [job EXCEPT ![w].tip = btcTip]
    /\ Goto(w, "pending")
    /\ UNCHANGED <<btcVars, ckbVars, queueVars, obs, btcTxs, anomalies, bounds>>

\* Whether detect_misspends looks further into an observed spend.
Ripe(a, tip) ==
    /\ a.status = "spent_confirmed"
    /\ Confirmations(tip, a.height) >= Grace

\* What pending_ckb_outpoints selects from.
Pending == {o \in live \cap DOMAIN obs : IsSpent(obs[o].is)}

\* pending_ckb_outpoints, without the rows the loop skips.  Its order, by the age
\* of the observation, only matters beyond the limit, where any row may be left
\* out.
ReadPending(w) ==
    /\ pc[w] = "pending"
    /\ \E rows \in SUBSET Pending :
          LET ripe == {o \in rows : Ripe(obs[o].is, job[w].tip)} IN
          /\ rows = Pending \/ Cardinality(rows) = PendingLimit
          /\ Cardinality(rows) <= PendingLimit
          /\ job' = [job EXCEPT ![w].pending = [o \in ripe |-> obs[o].is.spender]]
          /\ Goto(w, IF ripe = {} THEN "idle" ELSE "match")
    /\ UNCHANGED <<btcVars, ckbVars, queueVars, obs, btcTxs, anomalies, bounds>>

\* transitions_by_btc_txid for the next row.
Match(w) ==
    /\ pc[w] = "match"
    /\ \E o \in DOMAIN job[w].pending :
          LET x == job[w].pending[o] IN
          /\ job' = [job EXCEPT ![w].cur = o, ![w].spender = x]
          /\ Goto(w, IF x \in transitions THEN "close" ELSE "spender")
    /\ UNCHANGED <<btcVars, ckbVars, queueVars, obs, btcTxs, anomalies, bounds>>

NextRow(w) ==
    LET left == Without(job[w].pending, {job[w].cur}) IN
    IF left = NoRows
    THEN Goto(w, "idle") /\ job' = [job EXCEPT ![w] = EmptyJob]
    ELSE /\ Goto(w, "match")
         /\ job' = [job EXCEPT ![w] = [EmptyJob EXCEPT !.pending = left, !.tip = job[w].tip]]

\* A transition was indexed meanwhile.
Close(w) ==
    /\ pc[w] = "close"
    /\ anomalies' = ResolvedFor(job[w].cur)
    /\ NextRow(w)
    /\ UNCHANGED <<btcVars, ckbVars, queueVars, obs, btcTxs, bounds>>

\* refresh_btc_tx: a spender the source does not return counts as one without
\* a commitment.
FetchSpender(w) ==
    LET x == job[w].spender IN
    /\ pc[w] = "spender"
    /\ RefreshBtcTx(x)
    /\ Goto(w, IF x \in Commits /\ seen[x] # Absent THEN "late" ELSE "uncommitted")
    /\ UNCHANGED <<btcVars, ckbVars, queueVars, anomalies, job, bounds>>

\* record_anomaly opens the finding, or opens it again.
RecordFinding(w, at, kind) ==
    /\ pc[w] = at
    /\ anomalies' = anomalies \cup {Finding(kind, job[w].cur)}
    /\ NextRow(w)
    /\ UNCHANGED <<btcVars, ckbVars, queueVars, obs, btcTxs, bounds>>

RecordLate(w)        == RecordFinding(w, "late", "btc_spent_without_ckb")
RecordUncommitted(w) == RecordFinding(w, "uncommitted", "no_commitment_in_spender")

SweepStep(w) ==
    \/ StartSweep(w) \/ Page(w) \/ CheckCaughtUp(w) \/ ReadTip(w) \/ ReadPending(w)
    \/ Match(w) \/ Close(w) \/ FetchSpender(w) \/ RecordLate(w) \/ RecordUncommitted(w)

-----------------------------------------------------------------------------
Step(p) ==
    \/ RefreshStep(p)
    \/ p \in Drainers /\ DrainStep(p)
    \/ p \in Sweepers /\ SweepStep(p)
    \/ p \in Callers /\ CallerStep(p)

Next ==
    \/ Passing
    \/ \E S \in SUBSET Outpoints \ {{}} : RequestQueued(S)
    \/ \E p \in Procs : Step(p) \/ Abort(p)

Spec == Init /\ [][Next]_vars

\* Every worker keeps running, backoffs and times to live end, and the scanner
\* keeps polling and gets through its backlog.
FairSpec ==
    /\ Spec
    /\ \A p \in Procs : WF_vars(Step(p))
    /\ \A o \in Outpoints : WF_vars(BackoffEnds(o)) /\ WF_vars(GoesStale(o))
    /\ \A x \in Txids : WF_vars(IndexTransition(x))
    /\ WF_vars(RecordProgress(Settled))

-----------------------------------------------------------------------------
(* Properties *)

PcLabels == {"idle", "overflow", "observe", "record", "follow", "resolve",
             "claim", "fresh", "clear", "settle", "label", "diff", "fetch",
             "page", "caught_up", "tip", "pending", "match", "close",
             "spender", "late", "uncommitted"}

Answers == [status : {"unspent", "unknown", "error"} \cup SpentStatuses,
            spender : Txids \cup {NoTx}, height : Nat]

\* The types of the tables and of the workers' locals.
TypeOK ==
    /\ BtcTypeOK
    /\ live \subseteq Outpoints /\ moved \subseteq Outpoints
    /\ backlog \subseteq Txids /\ transitions \subseteq Txids
    /\ target \in Nat \cup {NoTarget}
    /\ DOMAIN queue \subseteq Outpoints
    /\ \A o \in DOMAIN queue : queue[o] \in Nat
    /\ line \in Seq(Outpoints)
    /\ InLine \subseteq DOMAIN queue /\ Cardinality(InLine) = Len(line)
    /\ DOMAIN obs \subseteq Outpoints
    /\ \A o \in DOMAIN obs :
          /\ obs[o] \in [is : Answers, by : {"label", "source"}, fresh : BOOLEAN, address : BOOLEAN]
          /\ obs[o].is.status # "error"
    /\ DOMAIN btcTxs \subseteq Txids
    /\ anomalies \subseteq [kind : Kinds, outpoint : Outpoints]
    /\ pc \in [Procs -> PcLabels]

\* A request leaves the queue only with a row about its outpoint, or after
\* max_attempts attempts: no race of the drain worker's clean-ups with other
\* refreshes loses one nothing is known about.
OnlyRecordedLeave ==
    [][\A o \in DOMAIN queue \ DOMAIN queue' :
          queue[o] >= MaxAttempts \/ o \in DOMAIN obs]_queue

\* Every queued outpoint is dealt with.
QueueDrains == \A o \in Outpoints : o \in DOMAIN queue ~> o \notin DOMAIN queue

\* While Bitcoin is not unwound, every recorded spend names a transaction that
\* spends the outpoint on Bitcoin: nothing is invented from a data source's
\* silence, from an address list that lags, or from a label.
SpendsReal ==
    unwinds = 0 =>
        \A o \in DOMAIN obs : IsSpent(obs[o].is) =>
            obs[o].is.spender = OutpointStatus(o).spender /\ IsSpent(OutpointStatus(o))

Accurate(o) == o \in DOMAIN obs /\ obs[o].is = OutpointStatus(o)

\* Whatever raced, failed or was reorganised away, the observation of a live
\* binding ends up agreeing with Bitcoin.
EventuallyAccurate == \A o \in Outpoints : <>[](o \in live => Accurate(o))

\* The outpoint is spent, with at least Grace blocks from the spend to the tip.
SpentDeep(o) ==
    LET a == OutpointStatus(o) IN
    a.status = "spent_confirmed" /\ a.height + Grace <= btcTip + 1

Misspent(o) ==
    /\ o \in live
    /\ SpentDeep(o)
    /\ OutpointStatus(o).spender \notin transitions

Open(o) == \E f \in anomalies : f.outpoint = o

\* A bound outpoint that stays spent past the grace period with no CKB
\* transition is on the list of findings in the end.
MisspendsFlagged == \A o \in Outpoints : <>[]Misspent(o) => <>[]Open(o)

\* Until Bitcoin is unwound a finding is opened only for an outpoint
\* that really is spent and at least Grace blocks deep, whatever the age of
\* the observation it was opened from.
GraceRespected ==
    [][unwinds = 0 =>
          \A f \in anomalies' \ anomalies : SpentDeep(f.outpoint)]_anomalies

\* A finding is closed once the matching CKB transition has been indexed.
FindingsClose ==
    \A o \in Outpoints :
        (Open(o) /\ o \in moved) ~> ~ Open(o)
=============================================================================
