------------------------------ MODULE Source ------------------------------
(***************************************************************************)
(* Asking a Bitcoin data source about many outpoints (crates/btc): the     *)
(* grouping of observe_many, the two backends behind BtcDataSource, and    *)
(* the throttle every request passes.                                      *)
(*                                                                         *)
(* A group is one funding transaction with the outputs asked about.        *)
(* Esplora names the spender of an output.  Blockbook only flags it spent, *)
(* and the spender is searched in the history of the owning address, which *)
(* is paged newest first and changes meanwhile: new transactions join it   *)
(* at the front, and unconfirmed ones may be dropped from anywhere.        *)
(***************************************************************************)
EXTENDS Integers, Sequences, FiniteSets, SequencesExt

CONSTANTS
    Groups,           \* funding transactions, numbered
    Vouts,            \* Vouts[g]: the outputs asked about
    Outs,             \* Outs[g]: the outputs g has
    Unlisted,         \* funding transactions the source does not know
    Addresses,        \* numbered, in the order of their strings
    OwnerOf,          \* OwnerOf[g][v]: the owning address, or NoAddress
    NoAddress,
    Spenders,         \* transactions of the histories
    Olders,           \* histories to start from, newest first, all confirmed
    SpentOutput,      \* SpentOutput[x]: the <<g, v>> x spends
    Touched,          \* Touched[x]: addresses whose history x joins
    Backends,         \* data sources to choose from
    Concurrency,      \* groups observed at once
    MaxInFlight,      \* btc.max_concurrency
    MinInterval,      \* btc.min_request_interval_ms, in ticks
    PageSize,         \* transactions on one page of an address history
    MaxAddressPages,  \* MAX_ADDRESS_PAGES
    MaxDrops,         \* bound on transactions the mempool drops
    MaxFaults         \* bound on failed requests

\* A transaction that spends an output is in the history of its owner.
ASSUME SourceAssumption ==
    /\ Groups \subseteq Nat /\ IsFiniteSet(Groups)
    /\ Addresses \subseteq Nat /\ Unlisted \subseteq Groups
    /\ Outs \in [Groups -> SUBSET Nat] /\ Vouts \in [Groups -> SUBSET Nat]
    /\ \A g \in Groups : \A v \in Outs[g] : OwnerOf[g][v] \in Addresses \cup {NoAddress}
    /\ Olders \subseteq Seq(Spenders)
    /\ SpentOutput \in [Spenders -> Groups \X Nat]
    /\ Touched \in [Spenders -> SUBSET Addresses]
    /\ \A x \in Spenders, g \in Groups : \A v \in Outs[g] :
          SpentOutput[x] = <<g, v>> => OwnerOf[g][v] \in Touched[x] \cup {NoAddress}
    /\ Backends \subseteq {"esplora", "blockbook"}
    /\ Concurrency \in Nat \ {0} /\ MaxInFlight \in Nat /\ MinInterval \in Nat
    /\ PageSize \in Nat \ {0} /\ MaxAddressPages \in Nat \ {0}
    /\ MaxDrops \in Nat /\ MaxFaults \in Nat

VARIABLES
    backend,   \* the configured source
    seen,      \* transactions known to the source, newest first
    mined,     \* the confirmed ones
    dropped,   \* those the mempool has dropped
    permits,   \* free permits of the semaphore
    last,      \* ticks since last_start, at most MinInterval (none: MinInterval)
    wake,      \* ticks the holder of the last_start lock still sleeps
    gap,       \* ticks since acquire last let a request start, likewise
    pc,        \* pc[g]: where the task observing g is
    job,       \* job[g]: what its current request is for
    answers,   \* answers[g]: what observe_many returns for g so far
    early,     \* early[g]: transactions there ever since the task of g started
    faults

throttle == <<permits, last, wake>>
chainVars == <<seen, mined, dropped>>
vars == <<backend, chainVars, throttle, gap, pc, job, answers, early, faults>>

PCs == {"queued", "permit", "lock", "sleep", "flight", "done"}

Spent(status, x) == [status |-> status, spender |-> {x}]
Unspent  == [status |-> "unspent", spender |-> {}]
Unknown  == [status |-> "unknown", spender |-> {}]
Failed   == [status |-> "error", spender |-> {}]

Statuses == [status : {"spent_confirmed", "spent_unconfirmed", "unspent", "unknown", "error"},
             spender : SUBSET Spenders]

Depth(x) == IF x \in mined THEN "spent_confirmed" ELSE "spent_unconfirmed"

SeenSpenders(g, v) == {x \in Range(seen) : SpentOutput[x] = <<g, v>>}

\* What a request is for: the outputs of one answer, the step it is at, the
\* outputs the transaction flags as spent, the addresses still to walk, the
\* page to read and the spenders found so far, each with its status when read.
NewJob(scope) ==
    [scope |-> scope, step |-> "tx", spent |-> {}, walk |-> {}, page |-> 1, found |-> <<>>]

Least(S) == CHOOSE n \in S : \A m \in S : n <= m
-----------------------------------------------------------------------------
Init ==
    /\ backend \in Backends
    /\ seen \in Olders /\ mined = Range(seen) /\ dropped = {}
    /\ permits = IF MaxInFlight > 1 THEN MaxInFlight ELSE 1
    /\ last = MinInterval /\ wake = 0 /\ gap = MinInterval
    /\ pc = [g \in Groups |-> "queued"]
    /\ job = [g \in Groups |-> NewJob({})]
    /\ answers = [g \in Groups |-> <<>>]
    /\ early = [g \in Groups |-> {}]
    /\ faults = 0

\* Bitcoin goes on meanwhile.
Broadcast(x) ==
    /\ x \notin Range(seen)
    /\ SeenSpenders(SpentOutput[x][1], SpentOutput[x][2]) = {}
    /\ seen' = <<x>> \o seen
    /\ UNCHANGED <<backend, mined, dropped, throttle, gap, pc, job, answers, early, faults>>

MineBtc ==
    /\ mined # Range(seen)
    /\ mined' = Range(seen)
    /\ UNCHANGED <<backend, seen, dropped, throttle, gap, pc, job, answers, early, faults>>

\* The mempool drops a transaction: evicted, replaced or double-spent.
Drop(i) ==
    /\ seen[i] \notin mined \cup dropped
    /\ Cardinality(dropped) < MaxDrops
    /\ seen' = RemoveAt(seen, i)
    /\ dropped' = dropped \cup {seen[i]}
    /\ early' = [g \in Groups |-> early[g] \ {seen[i]}]
    /\ UNCHANGED <<backend, mined, throttle, gap, pc, job, answers, faults>>

Soon(n) == IF n < MinInterval THEN n + 1 ELSE MinInterval

Tick ==
    /\ last < MinInterval \/ wake > 0 \/ gap < MinInterval
    /\ last' = Soon(last)
    /\ gap' = Soon(gap)
    /\ wake' = IF wake > 0 THEN wake - 1 ELSE 0
    /\ UNCHANGED <<backend, chainVars, permits, pc, job, answers, early, faults>>
-----------------------------------------------------------------------------
Busy == {g \in Groups : pc[g] \notin {"queued", "done"}}

\* buffer_unordered takes up the next group.
StartGroup(g) ==
    /\ pc[g] = "queued"
    /\ Cardinality(Busy) < Concurrency
    /\ pc' = [pc EXCEPT ![g] = "permit"]
    /\ job' = [job EXCEPT ![g] = NewJob(Vouts[g])]
    /\ early' = [early EXCEPT ![g] = Range(seen)]
    /\ UNCHANGED <<backend, chainVars, throttle, gap, answers, faults>>

\* Mutant: nobody waits for a permit.
TakePermitUnchecked(g) ==
    /\ pc[g] = "permit"
    /\ permits' = permits - 1
    /\ pc' = [pc EXCEPT ![g] = "lock"]
    /\ UNCHANGED <<backend, chainVars, last, wake, gap, job, answers, early, faults>>

\* Throttle::acquire: a permit first, then the turn to start.
TakePermit(g) ==
    /\ pc[g] = "permit"
    /\ permits > 0
    /\ permits' = permits - 1
    /\ pc' = [pc EXCEPT ![g] = IF MinInterval = 0 THEN "flight" ELSE "lock"]
    /\ gap' = IF MinInterval = 0 THEN 0 ELSE gap
    /\ UNCHANGED <<backend, chainVars, last, wake, job, answers, early, faults>>

\* Mutant: the lock on last_start is not held through the sleep.
LockLastStartFree(g) ==
    /\ pc[g] = "lock"
    /\ wake' = MinInterval - last
    /\ pc' = [pc EXCEPT ![g] = "sleep"]
    /\ UNCHANGED <<backend, chainVars, permits, last, gap, job, answers, early, faults>>

\* The lock on last_start is held through the sleep.
LockLastStart(g) ==
    /\ pc[g] = "lock"
    /\ \A k \in Groups : pc[k] # "sleep"
    /\ wake' = MinInterval - last
    /\ pc' = [pc EXCEPT ![g] = "sleep"]
    /\ UNCHANGED <<backend, chainVars, permits, last, gap, job, answers, early, faults>>

\* Mutant: the permit is dropped as soon as it is granted.
StartRequestBare(g) ==
    /\ pc[g] = "sleep"
    /\ wake = 0
    /\ last' = 0 /\ gap' = 0
    /\ permits' = permits + 1
    /\ pc' = [pc EXCEPT ![g] = "flight"]
    /\ UNCHANGED <<backend, chainVars, wake, job, answers, early, faults>>

\* acquire records the start and returns the permit; the caller sends its
\* request.  It is in flight from here on.
StartRequest(g) ==
    /\ pc[g] = "sleep"
    /\ wake = 0
    /\ last' = 0 /\ gap' = 0
    /\ pc' = [pc EXCEPT ![g] = "flight"]
    /\ UNCHANGED <<backend, chainVars, permits, wake, job, answers, early, faults>>
-----------------------------------------------------------------------------
\* The answer of the request in flight is dropped with its permit; the task
\* goes on with its next request, or is done.
Proceed(g, j, told) ==
    LET left == Vouts[g] \ DOMAIN told IN
    /\ permits' = permits + 1
    /\ answers' = [answers EXCEPT ![g] = told]
    /\ job' = [job EXCEPT ![g] = IF j.scope # {} THEN j
                                 ELSE NewJob(IF left = {} THEN {} ELSE {Least(left)})]
    /\ pc' = [pc EXCEPT ![g] = IF left = {} THEN "done" ELSE "permit"]
    /\ UNCHANGED <<backend, chainVars, last, wake, gap, early>>

NoJob == NewJob({})

\* What is known, brought up to date.
Merge(new, old) ==
    [k \in DOMAIN new \cup DOMAIN old |-> IF k \in DOMAIN new THEN new[k] ELSE old[k]]

\* The answers of g with those of a request: one per output of its scope.
Tell(g, said) == Merge(said, answers[g])

\* Mutant: an unresolved spender is reported as no spender.
StatusOfUnspent(g, spent, found, v) ==
    LET by == {x \in DOMAIN found : SpentOutput[x] = <<g, v>>} IN
    IF v \in spent /\ by # {}
    THEN LET x == CHOOSE x \in by : TRUE IN Spent(found[x], x)
    ELSE IF v \in Outs[g] THEN Unspent ELSE Unknown

\* Blockbook: a flagged output is spent by what was found, or unknown.
StatusOf(g, spent, found, v) ==
    LET by == {x \in DOMAIN found : SpentOutput[x] = <<g, v>>} IN
    IF v \in spent
    THEN IF by = {} THEN Unknown
         ELSE LET x == CHOOSE x \in by : TRUE IN Spent(found[x], x)
    ELSE IF v \in Outs[g] THEN Unspent ELSE Unknown

\* Esplora: outspend and outspends report the spender themselves.
EsploraStatus(g, v) ==
    IF v \notin Outs[g] THEN Unknown
    ELSE IF SeenSpenders(g, v) = {} THEN Unspent
         ELSE LET x == CHOOSE x \in SeenSpenders(g, v) : TRUE IN Spent(Depth(x), x)

IsBatch(g) == Cardinality(job[g].scope) > 1

\* outspends or outspend, in one request.
EsploraAnswer(g) ==
    /\ backend = "esplora"
    /\ pc[g] = "flight"
    /\ g \notin Unlisted
    /\ Proceed(g, NoJob, Tell(g, [v \in job[g].scope |-> EsploraStatus(g, v)]))
    /\ UNCHANGED faults

\* Mutant: a single lookup is tried again.
NotFoundRetries(g) ==
    /\ pc[g] = "flight"
    /\ g \in Unlisted
    /\ job[g].step = "tx"
    /\ Proceed(g, NoJob, answers[g])
    /\ UNCHANGED faults

\* 404: the batched lookup falls back to single ones, a single one is unknown.
NotFound(g) ==
    /\ pc[g] = "flight"
    /\ g \in Unlisted
    /\ job[g].step = "tx"
    /\ Proceed(g, NoJob, IF IsBatch(g) THEN answers[g]
                         ELSE Tell(g, [v \in job[g].scope |-> Unknown]))
    /\ UNCHANGED faults

\* The outputs resolve_spenders looks for: the one asked about, or every spent
\* output of the transaction.
FlaggedSpent(g) ==
    {v \in Outs[g] : SeenSpenders(g, v) # {} /\ (IsBatch(g) \/ v \in job[g].scope)}

\* Blockbook, first request: the transaction with its spent flags.
BlockbookTx(g) ==
    LET spent == FlaggedSpent(g)
        walk  == {OwnerOf[g][v] : v \in spent} \ {NoAddress}
    IN
    /\ backend = "blockbook"
    /\ pc[g] = "flight"
    /\ job[g].step = "tx"
    /\ g \notin Unlisted
    /\ IF walk = {}
       THEN Proceed(g, NoJob, Tell(g, [v \in job[g].scope |-> StatusOf(g, spent, <<>>, v)]))
       ELSE Proceed(g, [job[g] EXCEPT !.step = "page", !.spent = spent, !.walk = walk],
                    answers[g])
    /\ UNCHANGED faults

\* The history of an address, and the place of x in it, newest first.
History(a) == {x \in Range(seen) : a \in Touched[x]}

Position(a, x) ==
    Cardinality({y \in History(a) :
                    \E i, k \in DOMAIN seen : i <= k /\ seen[i] = y /\ seen[k] = x})

TotalPages(a) == (Cardinality(History(a)) + PageSize - 1) \div PageSize

OnPage(a, p) == {x \in History(a) : (Position(a, x) - 1) \div PageSize = p - 1}

\* Mutant: the last page is not read.
LastPageShort(a, p) == p + 1 >= TotalPages(a) \/ p >= MaxAddressPages

LastPage(a, p) == p >= TotalPages(a) \/ p >= MaxAddressPages

\* The walk of one address is over: the next one, or the answer.
EndWalk(g, a, found) ==
    LET walk == job[g].walk \ {a} IN
    IF walk = {}
    THEN Proceed(g, NoJob,
                 Tell(g, [v \in job[g].scope |-> StatusOf(g, job[g].spent, found, v)]))
    ELSE Proceed(g, [job[g] EXCEPT !.walk = walk, !.page = 1, !.found = found], answers[g])

\* Blockbook, following requests: a page of an address history.
BlockbookPage(g) ==
    LET a     == Least(job[g].walk)
        hits  == {x \in OnPage(a, job[g].page) : SpentOutput[x][1] = g}
        found == Merge([x \in hits |-> Depth(x)], job[g].found)
    IN
    /\ backend = "blockbook"
    /\ pc[g] = "flight"
    /\ job[g].step = "page"
    /\ IF LastPage(a, job[g].page)
       THEN EndWalk(g, a, found)
       ELSE Proceed(g, [job[g] EXCEPT !.page = @ + 1, !.found = found], answers[g])
    /\ UNCHANGED faults

\* A request fails (429, another status, transport, undecodable body): the
\* batched lookup falls back, the single one is an error, and a page (also one
\* that is not found) ends the walk of its address.
RequestFails(g) ==
    /\ pc[g] = "flight"
    /\ faults < MaxFaults
    /\ faults' = faults + 1
    /\ IF job[g].step = "page" THEN EndWalk(g, Least(job[g].walk), job[g].found)
       ELSE IF IsBatch(g) THEN Proceed(g, NoJob, answers[g])
            ELSE Proceed(g, NoJob, Tell(g, [v \in job[g].scope |-> Failed]))
-----------------------------------------------------------------------------
Answered(g) == EsploraAnswer(g) \/ NotFound(g) \/ BlockbookTx(g) \/ BlockbookPage(g)

Task(g) ==
    \/ StartGroup(g) \/ TakePermit(g) \/ LockLastStart(g) \/ StartRequest(g)
    \/ Answered(g) \/ RequestFails(g)

Finished == \A g \in Groups : pc[g] = "done"

\* observe_many has returned.
Returned == Finished /\ UNCHANGED vars

Next ==
    \/ \E x \in Spenders : Broadcast(x)
    \/ \E i \in DOMAIN seen : Drop(i)
    \/ MineBtc
    \/ Tick
    \/ \E g \in Groups : Task(g)
    \/ Returned

Spec == Init /\ [][Next]_vars

\* A request has a timeout, so it is answered or fails; the clock runs.
Fairness == WF_vars(Tick) /\ \A g \in Groups : WF_vars(Task(g))

FairSpec == Spec /\ Fairness
-----------------------------------------------------------------------------
\* The type invariant of the throttle, the tasks and their answers.
TypeOK ==
    /\ backend \in Backends /\ mined \subseteq Spenders
    /\ Range(seen) \subseteq Spenders /\ dropped \subseteq Spenders
    /\ permits \in Nat /\ last \in 0 .. MinInterval
    /\ wake \in 0 .. MinInterval /\ gap \in 0 .. MinInterval
    /\ pc \in [Groups -> PCs]
    /\ \A g \in Groups :
          /\ answers[g] \in [DOMAIN answers[g] -> Statuses]
          /\ DOMAIN answers[g] \subseteq Vouts[g]
          /\ early[g] \subseteq Spenders
    /\ faults \in 0 .. MaxFaults

\* throttle.rs: never more requests in flight, from the moment acquire lets
\* them start, than max_concurrency allows, whatever failed before and however
\* the tasks interleave.
InFlightBounded ==
    Cardinality({g \in Groups : pc[g] = "flight"}) <=
        (IF MaxInFlight = 0 THEN 1 ELSE MaxInFlight)

\* throttle.rs: acquire lets two requests start at least min_interval apart,
\* also when the second one waited for the lock while the first one slept.
StartsSpaced ==
    [][\A g \in Groups : pc[g] # "flight" /\ pc'[g] = "flight" => gap >= MinInterval]_vars

\* blockbook.rs, outpoint_status: "claiming Unspent here would silently
\* resurrect a cell that has already moved".  An output whose spender was there
\* when its task started, and is there still, is never reported unspent, and a
\* reported spender was known to the source and spends it.
NoResurrection ==
    \A g \in Groups : \A v \in DOMAIN answers[g] :
        /\ answers[g][v].status = "unspent" =>
              \A x \in early[g] : SpentOutput[x] # <<g, v>>
        /\ \A x \in answers[g][v].spender :
              x \in Range(seen) \cup dropped /\ SpentOutput[x] = <<g, v>>

\* blockbook.rs, resolve_spenders: a spender is found even though the history
\* grows while it is walked.  An output of a listed transaction is unknown only
\* after a failed request, without an address, past the page cap, or when a
\* transaction was dropped from the history of its owner.
UnknownExplained ==
    \A g \in Groups \ Unlisted : \A v \in DOMAIN answers[g] \cap Outs[g] :
        answers[g][v].status = "unknown" =>
            \/ faults > 0
            \/ OwnerOf[g][v] = NoAddress
            \/ Cardinality(History(OwnerOf[g][v])) > PageSize * MaxAddressPages
            \/ \E x \in dropped : OwnerOf[g][v] \in Touched[x]

\* source.rs, observe_many: every outpoint asked about is answered, whichever
\* requests failed; no task waits for a permit for ever.
AllAnswered == <>[](\A g \in Groups : DOMAIN answers[g] = Vouts[g])
=============================================================================
