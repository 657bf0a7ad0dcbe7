----------------------------- MODULE Reconcile -----------------------------
(***************************************************************************)
(* Bitcoin observations: the reconciler (crates/indexer/src/reconcile.rs)  *)
(* over the refresh queue (crates/store/src/queue.rs), the observation     *)
(* cache (crates/store/src/btc.rs) and the findings                        *)
(* (crates/store/src/anomalies.rs).                                        *)
(*                                                                         *)
(* The drain worker, the sweeper and every API request or `refresh`        *)
(* command run refresh_outpoints on the same tables; a step is a remote    *)
(* call or a statement (refresh_btc_tx and the address diff, whose reads   *)
(* nothing else depends on, are one step each).  Time is untimed: an       *)
(* entry's backoff and an observation's time to live end at some later     *)
(* moment.  Every entry the code queues has priority ON_DEMAND, so that    *)
(* due entries are claimed in the order they became due.                   *)
(***************************************************************************)
EXTENDS Bitcoin, Sequences

CONSTANTS
    Drainers,       \* queue workers
    Callers,        \* API requests and commands
    Sweepers,       \* sweep workers
    Bindings,       \* outpoints bound to a live cell at first
    Creates,        \* Creates[x]: outpoints bound by the CKB transition of x
    Commits,        \* transactions that carry an RGB++ commitment
    Addressable,    \* outpoints whose address a data source can name
    MaxPerRequest,  \* reconcile.max_outpoints_per_request
    QueueBatch,     \* reconcile.queue_batch_size
    MaxAttempts,    \* reconcile.max_attempts
    MaxRequests,    \* bound on API requests
    MaxFaults       \* bound on failed or evasive answers

ASSUME ReconcileAssumption ==
    /\ Bindings \subseteq Outpoints
    /\ Creates \in [Txids -> SUBSET Outpoints]
    /\ Commits \subseteq Txids /\ Addressable \subseteq Outpoints
    /\ MaxPerRequest \in Nat \ {0} /\ QueueBatch \in Nat \ {0}
    /\ MaxAttempts \in Nat \ {0}
    /\ MaxRequests \in Nat /\ MaxFaults \in Nat

Procs == Drainers \cup Callers \cup Sweepers

VARIABLES
    live, moved,   \* rgbpp_cells: bindings of live and of consumed cells
    backlog,       \* Bitcoin txids of CKB transitions not yet indexed
    transitions,   \* rgbpp_transitions: Bitcoin txids of indexed ones
    target,        \* indexer_state: target_block_number, or NoTarget
    queue,         \* btc_refresh_queue: the attempts of an entry
    line,          \* its due entries, by next_attempt_at
    obs,           \* btc_outpoints: the answer, its source, whether it is fresh
    btcTxs,        \* btc_txs: the confirmation last fetched
    anomalies,     \* rgbpp_anomalies: the open findings
    pc, job,       \* processes
    requests, faults

queueVars == <<queue, line>>
ckbVars == <<live, moved, backlog, transitions, target>>
bounds  == <<requests, faults>>
vars    == <<btcVars, ckbVars, queueVars, obs, btcTxs, anomalies, pc, job, bounds>>

NoRows == [k \in {} |-> 0]

\* No row yet, or one in which target_block_number is null.
NoTarget == -1

Without(f, S) == [k \in DOMAIN f \ S |-> f[k]]

With(f, k, v) == [i \in DOMAIN f \cup {k} |-> IF i = k THEN v ELSE f[i]]

EmptyJob ==
    [want |-> {}, todo |-> {}, answers |-> NoRows, done |-> {}, cur |-> 0,
     spender |-> NoTx, fresh |-> {}, cursor |-> -1, tip |-> 0, pending |-> NoRows]

Init ==
    /\ BtcInit
    /\ live = Bindings /\ moved = {} /\ backlog = {} /\ transitions = {} /\ target = NoTarget
    /\ queue = NoRows /\ line = <<>>
    /\ obs = NoRows /\ btcTxs = NoRows
    /\ anomalies = {}
    /\ pc = [p \in Procs |-> "idle"]
    /\ job = [p \in Procs |-> EmptyJob]
    /\ requests = 0 /\ faults = 0

-----------------------------------------------------------------------------
(* Tables *)

InLine == {line[i] : i \in DOMAIN line}

Orders(S) == {f \in [1 .. Cardinality(S) -> S] : \A i, k \in DOMAIN f : f[i] = f[k] => i = k}

\* enqueue_refresh(_many): an existing entry keeps its attempts, and is due.
Enqueue(S) ==
    /\ queue' = [o \in DOMAIN queue \cup S |-> IF o \in DOMAIN queue THEN queue[o] ELSE 0]
    /\ \E s \in Orders(S \ InLine) : line' = line \o s

\* The entries of a sequence that are not in S, in the same order.
Keep(s, S) ==
    LET kept == {i \in DOMAIN s : s[i] \notin S}
        At(n) == CHOOSE i \in kept : Cardinality({k \in kept : k <= i}) = n
    IN  [n \in 1 .. Cardinality(kept) |-> s[At(n)]]

\* Rows deleted from the queue.
Dequeue(S) ==
    /\ queue' = Without(queue, S)
    /\ line' = Keep(line, S)

\* claim_refresh_batch takes this many of the due entries.
ClaimSize == IF Len(line) <= QueueBatch THEN Len(line) ELSE QueueBatch

IsSpent(a) == a.status \in SpentStatuses

\* upsert_observation reports a change of the status word only.
Changed(o, a) == o \notin DOMAIN obs \/ obs[o].is.status # a.status

\* record_binding_addresses and record_outpoint_addresses: the rows of bound
\* outpoints learn their address; an outpoint without a row gets one, with
\* status unknown and the current time.
Labelled(S) ==
    LET bound == S \cap (live \cup moved) \cap Addressable IN
    [o \in DOMAIN obs \cup bound |->
        IF o \notin DOMAIN obs
        THEN [is |-> Unknown, by |-> "label", fresh |-> TRUE, address |-> TRUE]
        ELSE [obs[o] EXCEPT !.address = @ \/ o \in bound]]

ResolvedFor(o) == {f \in anomalies : f.outpoint # o}

-----------------------------------------------------------------------------
(* refresh_outpoints *)

Goto(p, l) == pc' = [pc EXCEPT ![p] = l]

\* Where a process goes when its refresh is done.
AfterRefresh(p) ==
    IF p \in Drainers THEN "settle" ELSE IF p \in Sweepers THEN "page" ELSE "idle"

\* The first MaxPerRequest of the outpoints asked for.
Capped(S) == {o \in S : Cardinality({k \in S : k < o}) < MaxPerRequest}

\* The locals and the label of a process about to refresh `want`.
BeginRefresh(p, j, want) ==
    /\ job' = [job EXCEPT ![p] = [j EXCEPT !.want = want, !.todo = Capped(want),
                                           !.answers = NoRows, !.done = {}]]
    /\ Goto(p, IF want = {} THEN AfterRefresh(p)
               ELSE IF Capped(want) # want THEN "overflow" ELSE "observe")

\* Mutant: what is beyond the cap is dropped.
OverflowDropped(p) ==
    /\ pc[p] = "overflow"
    /\ Goto(p, "observe")
    /\ UNCHANGED <<btcVars, ckbVars, queueVars, obs, btcTxs, anomalies, job, bounds>>

\* What is beyond the cap is queued.
Overflow(p) ==
    /\ pc[p] = "overflow"
    /\ Enqueue(job[p].want \ job[p].todo)
    /\ Goto(p, "observe")
    /\ UNCHANGED <<btcVars, ckbVars, obs, btcTxs, anomalies, job, bounds>>

\* observe_many, one outpoint: the truth, or a source that cannot tell, or an
\* error.
Observe(p) ==
    /\ pc[p] = "observe"
    /\ \E o \in job[p].todo :
       \E a \in {OutpointStatus(o), Unknown, Answer("error", NoTx, 0)} :
          /\ a = OutpointStatus(o) \/ faults < MaxFaults
          /\ faults' = IF a = OutpointStatus(o) THEN faults ELSE faults + 1
          /\ job' = [job EXCEPT ![p].todo = @ \ {o}, ![p].answers = With(@, o, a)]
          /\ Goto(p, IF job[p].todo = {o} THEN "record" ELSE "observe")
    /\ UNCHANGED <<btcVars, ckbVars, queueVars, obs, btcTxs, anomalies, requests>>

\* Continue with the next answer, or return from refresh_outpoints.
NextAnswer(p, left, done) ==
    IF left # NoRows
    THEN /\ Goto(p, "record")
         /\ job' = [job EXCEPT ![p].answers = left, ![p].done = done,
                               ![p].cur = 0, ![p].spender = NoTx]
    ELSE /\ Goto(p, AfterRefresh(p))
         /\ job' = [job EXCEPT ![p] =
                      [EmptyJob EXCEPT !.done = IF p \in Drainers THEN done ELSE {},
                                       !.cursor = job[p].cursor]]

\* Mutant: a failed observation counts as refreshed.
RecordErrorDone(p, o) ==
    /\ job[p].answers[o].status = "error"
    /\ Enqueue({o})
    /\ NextAnswer(p, Without(job[p].answers, {o}), job[p].done \cup {o})
    /\ UNCHANGED obs

\* A failed observation is queued for a retry.
RecordError(p, o) ==
    /\ job[p].answers[o].status = "error"
    /\ Enqueue({o})
    /\ NextAnswer(p, Without(job[p].answers, {o}), job[p].done)
    /\ UNCHANGED obs

\* Mutant: the error is written as if it were an answer.
RecordAnswerUnchecked(p, o) ==
    /\ obs' = With(obs, o, [is |-> job[p].answers[o], by |-> "source", fresh |-> TRUE,
                            address |-> FALSE])
    /\ NextAnswer(p, Without(job[p].answers, {o}), job[p].done \cup {o})
    /\ UNCHANGED queueVars

\* upsert_observation, and what has to follow it.
RecordAnswer(p, o) ==
    LET a    == job[p].answers[o]
        left == Without(job[p].answers, {o})
    IN  /\ a.status # "error"
        /\ obs' = With(obs, o, [is |-> a, by |-> "source", fresh |-> TRUE,
                                address |-> o \in DOMAIN obs /\ obs[o].address])
        /\ IF IsSpent(a) /\ ~ Changed(o, a)
           THEN NextAnswer(p, left, job[p].done \cup {o})
           ELSE /\ Goto(p, IF IsSpent(a) THEN "follow" ELSE "resolve")
                /\ job' = [job EXCEPT ![p].answers = left, ![p].cur = o,
                              ![p].spender = a.spender, ![p].done = @ \cup {o}]
        /\ UNCHANGED queueVars

Record(p) ==
    /\ pc[p] = "record"
    /\ \E o \in DOMAIN job[p].answers : RecordError(p, o) \/ RecordAnswer(p, o)
    /\ UNCHANGED <<btcVars, ckbVars, btcTxs, anomalies, bounds>>

\* refresh_btc_tx(x): nothing when the source does not know x; otherwise the
\* outputs of x that carry cells are labelled (a failure to is only logged) and
\* x is cached.
RefreshBtcTx(x) ==
    IF seen[x] = Absent
    THEN UNCHANGED <<obs, btcTxs>>
    ELSE /\ obs' \in {obs, Labelled(Creates[x])}
         /\ btcTxs' = With(btcTxs, x, seen[x])

\* follow_up_spend.
Follow(p) ==
    /\ pc[p] = "follow"
    /\ RefreshBtcTx(job[p].spender)
    /\ NextAnswer(p, job[p].answers, job[p].done)
    /\ UNCHANGED <<btcVars, ckbVars, queueVars, anomalies, bounds>>

\* An answer other than spent closes the findings of the outpoint.
Resolve(p) ==
    /\ pc[p] = "resolve"
    /\ anomalies' = ResolvedFor(job[p].cur)
    /\ NextAnswer(p, job[p].answers, job[p].done)
    /\ UNCHANGED <<btcVars, ckbVars, queueVars, obs, btcTxs, bounds>>

-----------------------------------------------------------------------------
(* The drain worker: drain_queue_once *)

\* drop_exhausted_refreshes.
DropExhausted(d) ==
    /\ pc[d] = "idle"
    /\ Dequeue({o \in DOMAIN queue : queue[o] >= MaxAttempts})
    /\ Goto(d, "claim")
    /\ UNCHANGED <<btcVars, ckbVars, obs, btcTxs, anomalies, job, bounds>>

\* Mutant: the entries that became due last are claimed first.
ClaimNewest(d) ==
    LET picked == {line[Len(line) - i + 1] : i \in 1 .. ClaimSize} IN
    /\ pc[d] = "claim"
    /\ queue' = [o \in DOMAIN queue |-> IF o \in picked THEN queue[o] + 1 ELSE queue[o]]
    /\ line' = SubSeq(line, 1, Len(line) - ClaimSize)
    /\ job' = [job EXCEPT ![d].want = picked]
    /\ Goto(d, IF picked = {} THEN "idle" ELSE "fresh")
    /\ UNCHANGED <<btcVars, ckbVars, obs, btcTxs, anomalies, bounds>>

\* claim_refresh_batch: one more attempt, and not due until the backoff ends.
Claim(d) ==
    LET picked == {line[i] : i \in 1 .. ClaimSize} IN
    /\ pc[d] = "claim"
    /\ queue' = [o \in DOMAIN queue |-> IF o \in picked THEN queue[o] + 1 ELSE queue[o]]
    /\ line' = SubSeq(line, ClaimSize + 1, Len(line))
    /\ job' = [job EXCEPT ![d].want = picked]
    /\ Goto(d, IF picked = {} THEN "idle" ELSE "fresh")
    /\ UNCHANGED <<btcVars, ckbVars, obs, btcTxs, anomalies, bounds>>

\* Claimed outpoints with a fresh row are not asked about again.
FilterFresh(d) ==
    LET fresh == {o \in job[d].want : o \in DOMAIN obs /\ obs[o].fresh} IN
    /\ pc[d] = "fresh"
    /\ IF fresh = {}
       THEN BeginRefresh(d, job[d], job[d].want)
       ELSE /\ job' = [job EXCEPT ![d].fresh = fresh]
            /\ Goto(d, "clear")
    /\ UNCHANGED <<btcVars, ckbVars, queueVars, obs, btcTxs, anomalies, bounds>>

\* complete_refresh for those, one by one; then the others are refreshed.
ClearFresh(d) ==
    LET j == job[d] IN
    /\ pc[d] = "clear"
    /\ \E o \in j.fresh :
          /\ Dequeue({o})
          /\ IF j.fresh # {o}
             THEN job' = [job EXCEPT ![d].fresh = @ \ {o}, ![d].want = @ \ {o}] /\ UNCHANGED pc
             ELSE IF j.want = {o}
             THEN job' = [job EXCEPT ![d] = EmptyJob] /\ Goto(d, "idle")
             ELSE BeginRefresh(d, [j EXCEPT !.fresh = {}], j.want \ {o})
    /\ UNCHANGED <<btcVars, ckbVars, obs, btcTxs, anomalies, bounds>>

\* complete_refresh for what was answered; fail_refresh only notes the error
\* of the others.
Settle(d) ==
    /\ pc[d] = "settle"
    /\ IF job[d].done = {}
       THEN /\ job' = [job EXCEPT ![d] = EmptyJob]
            /\ Goto(d, "idle")
            /\ UNCHANGED queueVars
       ELSE \E o \in job[d].done :
            /\ Dequeue({o})
            /\ job' = [job EXCEPT ![d].done = @ \ {o}]
            /\ UNCHANGED pc
    /\ UNCHANGED <<btcVars, ckbVars, obs, btcTxs, anomalies, bounds>>

DrainStep(d) ==
    DropExhausted(d) \/ Claim(d) \/ FilterFresh(d) \/ ClearFresh(d) \/ Settle(d)

-----------------------------------------------------------------------------
(* Requests *)

\* POST /v1/rgbpp/refresh, queued.
RequestQueued(S) ==
    /\ requests < MaxRequests
    /\ requests' = requests + 1
    /\ Enqueue(S)
    /\ UNCHANGED <<btcVars, ckbVars, obs, btcTxs, anomalies, pc, job, faults>>

\* POST /v1/rgbpp/refresh, synchronous, or the refresh command.
RequestNow(c) ==
    /\ pc[c] = "idle"
    /\ requests < MaxRequests
    /\ requests' = requests + 1
    /\ \E S \in SUBSET Outpoints \ {{}} : BeginRefresh(c, EmptyJob, S)
    /\ UNCHANGED <<btcVars, ckbVars, queueVars, obs, btcTxs, anomalies, faults>>

\* reconcile_address: the address's unspent outpoints, or what a lagging source
\* lists ...
RequestAddress(c) ==
    LET utxos == {o \in Addressable : ~ IsSpent(OutpointStatus(o))} IN
    /\ pc[c] = "idle"
    /\ requests < MaxRequests
    /\ requests' = requests + 1
    /\ \E listed \in SUBSET Addressable :
          /\ listed = utxos \/ faults < MaxFaults
          /\ faults' = IF listed = utxos THEN faults ELSE faults + 1
          /\ job' = [job EXCEPT ![c] = [EmptyJob EXCEPT !.want = listed]]
    /\ Goto(c, "label")
    /\ UNCHANGED <<btcVars, ckbVars, queueVars, obs, btcTxs, anomalies>>

\* ... are labelled ...
LabelAddress(c) ==
    /\ pc[c] = "label"
    /\ obs' = Labelled(job[c].want)
    /\ Goto(c, "diff")
    /\ UNCHANGED <<btcVars, ckbVars, queueVars, btcTxs, anomalies, job, bounds>>

\* Mutant: what is missing from the list is taken for spent.
DiffAddressTrusting(c) ==
    LET disappeared == {o \in live \cap DOMAIN obs : obs[o].address} \ job[c].want IN
    /\ pc[c] = "diff"
    /\ obs' = [o \in DOMAIN obs |->
                  IF o \in disappeared
                  THEN [obs[o] EXCEPT !.is = Answer("spent_unconfirmed", NoTx, 0)]
                  ELSE obs[o]]
    /\ Goto(c, "idle")
    /\ job' = [job EXCEPT ![c] = EmptyJob]
    /\ UNCHANGED <<btcVars, ckbVars, queueVars, btcTxs, anomalies, bounds>>

\* ... and what disappeared or contradicts a recorded spend is refreshed.
DiffAddress(c) ==
    LET listed       == job[c].want
        disappeared  == {o \in live \cap DOMAIN obs : obs[o].address} \ listed
        contradicted == {o \in listed \cap DOMAIN obs : IsSpent(obs[o].is)}
    IN  /\ pc[c] = "diff"
        /\ BeginRefresh(c, EmptyJob, disappeared \cup contradicted)
        /\ UNCHANGED <<btcVars, ckbVars, queueVars, obs, btcTxs, anomalies, bounds>>

\* resolve_transition: an indexed transition is answered from the tables; for
\* another one the transaction is fetched ...
RequestTransition(c) ==
    /\ pc[c] = "idle"
    /\ requests < MaxRequests
    /\ requests' = requests + 1
    /\ \E x \in Txids \ transitions : job' = [job EXCEPT ![c].spender = x]
    /\ Goto(c, "fetch")
    /\ UNCHANGED <<btcVars, ckbVars, queueVars, obs, btcTxs, anomalies, faults>>

\* ... and the outpoints it spends are refreshed; the look-ups that follow write
\* nothing.
FetchTransition(c) ==
    LET x == job[c].spender IN
    /\ pc[c] = "fetch"
    /\ RefreshBtcTx(x)
    /\ BeginRefresh(c, EmptyJob, IF seen[x] = Absent THEN {} ELSE Spends[x])
    /\ UNCHANGED <<btcVars, ckbVars, queueVars, anomalies, bounds>>

CallerStep(c) ==
    \/ RequestNow(c)
    \/ RequestAddress(c) \/ LabelAddress(c) \/ DiffAddress(c)
    \/ RequestTransition(c) \/ FetchTransition(c)

RefreshStep(p) == Overflow(p) \/ Observe(p) \/ Record(p) \/ Follow(p) \/ Resolve(p)

\* A remote call or a statement fails: the pass or the request ends, and what
\* it had claimed stays claimed.
Abort(p) ==
    /\ pc[p] # "idle"
    /\ faults < MaxFaults
    /\ faults' = faults + 1
    /\ Goto(p, "idle")
    /\ job' = [job EXCEPT ![p] = EmptyJob]
    /\ UNCHANGED <<btcVars, ckbVars, queueVars, obs, btcTxs, anomalies, requests>>

-----------------------------------------------------------------------------
(* Time and the CKB side *)

BackoffEnds(o) ==
    /\ o \in DOMAIN queue \ InLine
    /\ line' = Append(line, o)
    /\ UNCHANGED <<queue, btcVars, ckbVars, obs, btcTxs, anomalies, pc, job, bounds>>

\* The observation outlives observation_ttl_secs: is_fresh turns false.
GoesStale(o) ==
    /\ o \in DOMAIN obs /\ obs[o].fresh
    /\ obs' = [obs EXCEPT ![o].fresh = FALSE]
    /\ UNCHANGED <<btcVars, ckbVars, queueVars, btcTxs, anomalies, pc, job, bounds>>

\* The CKB transition of a confirmed commitment passes the lag ...
CkbSettles(x) ==
    /\ x \in Commits /\ seen[x] > Mempool
    /\ x \notin backlog \cup transitions
    /\ backlog' = backlog \cup {x}
    /\ UNCHANGED <<btcVars, live, moved, transitions, target, queueVars, obs, btcTxs, anomalies, pc, job, bounds>>

\* CKB blocks are counted by their transitions: the checkpoint stands at the
\* indexed ones, and the chain has this many that are past the lag.
Settled == Cardinality(backlog) + Cardinality(transitions)

\* record_chain_progress at the start of a round: how far both the node and the
\* rich indexer are.  A rich indexer that trails the node (a fault here) gives
\* a lower target; below start_block it is recorded as 0.
RecordProgress(t) ==
    /\ t = Settled \/ faults < MaxFaults
    /\ target' = t
    /\ faults' = IF t = Settled THEN faults ELSE faults + 1
    /\ UNCHANGED <<btcVars, live, moved, backlog, transitions, queueVars, obs, btcTxs,
                   anomalies, pc, job, requests>>

\* ... and is indexed by apply_batch, in a round whose target is past it.
IndexTransition(x) ==
    /\ x \in backlog
    /\ Cardinality(transitions) < target
    /\ backlog' = backlog \ {x}
    /\ transitions' = transitions \cup {x}
    /\ live' = (live \ Spends[x]) \cup Creates[x]
    /\ moved' = moved \cup (live \cap Spends[x])
    /\ UNCHANGED <<target, btcVars, queueVars, obs, btcTxs, anomalies, pc, job, bounds>>

Passing ==
    \/ BtcNext /\ UNCHANGED <<ckbVars, queueVars, obs, btcTxs, anomalies, pc, job, bounds>>
    \/ \E o \in Outpoints : BackoffEnds(o) \/ GoesStale(o)
    \/ \E x \in Txids : CkbSettles(x) \/ IndexTransition(x)
    \/ \E t \in 0 .. Settled : RecordProgress(t)
=============================================================================
