------------------------------ MODULE Workers ------------------------------
(***************************************************************************)
(* The process: bootstrap, the worker loops sharing one index, and         *)
(* cooperative shutdown (node/main.rs, engine.rs, shutdown.rs).  Verifier  *)
(* and backfill run step by step; a scan round is one commit, which        *)
(* Scanner has in detail.  The queue worker, the sweeper and the heartbeat *)
(* loop in the same way over rounds that touch nothing here, and are left  *)
(* out (Reconcile and Sweep have the rounds of the first two).             *)
(***************************************************************************)
EXTENDS Verify, Backfill

CONSTANT Flags  \* what the configuration enables

ASSUME WorkersAssumption ==
    Flags \subseteq {"reconcile", "address_backfill", "commitments"}

VARIABLES
    main,       \* where run() is
    loop,       \* loop[w]: where the loop of worker w is
    triggered   \* the value of the shutdown channel

processVars == <<main, loop, triggered>>
vars == <<ledgerVars, pass, walk, processVars>>

Names == {"scanner", "backfill", "verifier"}

\* spawn_workers.
Enabled ==
    {"scanner"}
    \cup {w \in {"backfill"} : {"reconcile", "address_backfill"} \subseteq Flags}
    \cup {w \in {"verifier"} : "commitments" \in Flags}

Off == [w \in Names |-> "off"]

Init ==
    /\ LedgerInit
    /\ pass = NoPass /\ walk = NoWalk
    /\ main = "bootstrap"
    /\ loop = Off
    /\ triggered = FALSE
-----------------------------------------------------------------------------
\* The scanner first needs its stream, the others begin with a round.
Spawned(w) ==
    CASE w \notin Enabled  -> "off"
      [] w = "scanner"     -> "init"
      [] OTHER             -> "round"

Bootstrap ==
    /\ main = "bootstrap"
    /\ main' = "running"
    /\ loop' = [w \in Names |-> Spawned(w)]
    /\ pass' = IF "verifier" \in Enabled THEN NewPass ELSE NoPass
    /\ walk' = IF "backfill" \in Enabled THEN [NoWalk EXCEPT !.pc = "read"] ELSE NoWalk
    /\ UNCHANGED <<ledgerVars, triggered>>

\* Bootstrap fails fast.
BootstrapFails ==
    /\ main = "bootstrap"
    /\ Fault
    /\ main' = "down"
    /\ UNCHANGED <<indexed, known, status, anomalies, cached, labels, pass, walk,
                   loop, triggered>>

\* run() of the scanner: without its stream it returns for good.
InitStream ==
    /\ loop["scanner"] = "init"
    /\ \/ loop' = [loop EXCEPT !["scanner"] = "round"] /\ UNCHANGED faults
       \/ loop' = [loop EXCEPT !["scanner"] = "stopped"] /\ Fault
    /\ UNCHANGED <<indexed, known, status, anomalies, cached, labels, pass, walk,
                   main, triggered>>

\* Mutant: a backlog is worked off before the signal is looked at.
AfterRoundBacklog(backlog) == IF backlog THEN "round" ELSE "sleep"

\* A backlog keeps the scanner from sleeping, unless it is to stop.
AfterRound(backlog) == IF backlog /\ ~triggered THEN "round" ELSE "sleep"

\* A scan round commits some whole blocks, is idle, or fails.
ScanRound ==
    LET last == Cardinality(Transitions) IN
    /\ loop["scanner"] = "round"
    /\ \/ /\ \E n \in (indexed + 1) .. last :
                /\ \A t \in Transitions : t > n => BlockOf[t] # BlockOf[n]
                /\ indexed' = n
                /\ loop' = [loop EXCEPT !["scanner"] = AfterRound(n < last)]
          /\ UNCHANGED faults
       \/ /\ \/ indexed = last /\ UNCHANGED faults
             \/ indexed < last /\ Fault
          /\ loop' = [loop EXCEPT !["scanner"] = "sleep"]
          /\ UNCHANGED indexed
    /\ UNCHANGED <<known, status, anomalies, cached, labels, pass, walk,
                   main, triggered>>

VerifierStep ==
    /\ loop["verifier"] = "round"
    /\ VerifyStep
    /\ loop' = IF pass'.pc = "idle" THEN [loop EXCEPT !["verifier"] = "sleep"] ELSE loop
    /\ UNCHANGED <<walk, main, triggered>>

BackfillerStep ==
    /\ loop["backfill"] = "round"
    /\ BackfillStep
    /\ loop' = IF walk'.pc = "idle" THEN [loop EXCEPT !["backfill"] = "sleep"] ELSE loop
    /\ UNCHANGED <<pass, main, triggered>>

\* Shutdown::sleep, the timer wins: another round, unless the signal is there.
Timer(w) ==
    /\ loop[w] = "sleep"
    /\ loop' = [loop EXCEPT ![w] = IF triggered THEN "stopped" ELSE "round"]
    /\ pass' = IF w = "verifier" /\ ~triggered THEN NewPass ELSE pass
    /\ IF w = "backfill" /\ ~triggered THEN BeginWalk ELSE UNCHANGED walk
    /\ UNCHANGED <<ledgerVars, main, triggered>>

\* Shutdown::sleep, the signal wins.
Changed(w) ==
    /\ loop[w] = "sleep"
    /\ triggered
    /\ loop' = [loop EXCEPT ![w] = "stopped"]
    /\ UNCHANGED <<ledgerVars, pass, walk, main, triggered>>

\* SIGTERM or Ctrl-C.
Signal ==
    /\ main = "running"
    /\ main' = "draining"
    /\ triggered' = TRUE
    /\ UNCHANGED <<ledgerVars, pass, walk, loop>>

\* run() has awaited every worker (and the server, whose draining is left out).
Joined ==
    /\ main = "draining"
    /\ \A w \in Names : loop[w] \in {"off", "stopped"}
    /\ main' = "ended"
    /\ UNCHANGED <<ledgerVars, pass, walk, loop, triggered>>

\* The process dies; what is not in the database is gone.
Crash ==
    /\ main \in {"running", "draining"}
    /\ Fault
    /\ main' = IF main = "draining" THEN "ended" ELSE "down"
    /\ loop' = Off /\ triggered' = FALSE
    /\ pass' = NoPass /\ walk' = NoWalk
    /\ UNCHANGED <<indexed, known, status, anomalies, cached, labels>>

\* A supervisor starts it again.
Restart ==
    /\ main = "down"
    /\ main' = "bootstrap"
    /\ UNCHANGED <<ledgerVars, pass, walk, loop, triggered>>

Ended == main = "ended" /\ UNCHANGED vars
-----------------------------------------------------------------------------
Sleeper(w) == Timer(w) \/ Changed(w)

Next ==
    \/ \E x \in Txids : Appear(x) /\ UNCHANGED <<pass, walk, processVars>>
    \/ Bootstrap \/ BootstrapFails
    \/ InitStream \/ ScanRound \/ VerifierStep \/ BackfillerStep
    \/ \E w \in Names : Sleeper(w)
    \/ Signal \/ Joined
    \/ Crash \/ Restart
    \/ Ended

Spec == Init /\ [][Next]_vars

\* Tasks are scheduled, timers fire, requests time out, and the process is
\* started again.  Signals, crashes and new transactions need not happen.
Fairness ==
    /\ WF_vars(Bootstrap) /\ WF_vars(Restart) /\ WF_vars(Joined)
    /\ WF_vars(InitStream) /\ WF_vars(ScanRound)
    /\ WF_vars(VerifierStep) /\ WF_vars(BackfillerStep)
    /\ \A w \in Names : WF_vars(Sleeper(w))

FairSpec == Spec /\ Fairness
-----------------------------------------------------------------------------
\* The type invariant of the tables, the passes and the process.
TypeOK ==
    /\ indexed \in 0 .. Cardinality(Transitions)
    /\ known \subseteq Txids /\ cached \subseteq known
    /\ labels \subseteq Bound
    /\ status \in [Transitions -> Statuses]
    /\ anomalies \subseteq {"commitment_mismatch", "unknown_btc_tx"} \X Transitions
    /\ faults \in 0 .. MaxFaults
    /\ pass.batch \subseteq 1 .. indexed
    /\ walk.cursor \in Txids \cup {0} /\ walk.todo \subseteq Txids
    /\ loop \in [Names -> {"off", "init", "round", "sleep", "stopped"}]
    /\ main \in {"down", "bootstrap", "running", "draining", "ended"}
    /\ triggered \in BOOLEAN

\* What verification promises, see Verdicts.
Promise == INSTANCE Verdicts

\* verify.rs and docs/commitments.md: a verdict says what the chains say.  Only
\* indexed transitions with a transaction have one, the payload that counts
\* decides it, and the transaction it rests on is cached.
VerdictsRight ==
    \A t \in Transitions :
        status[t] # "unchecked" =>
            /\ t <= indexed /\ TxidOf[t] # NoTxid
            /\ Promise!Justified(t, status[t])
            /\ status[t] \in {"match", "mismatch", "missing"} => TxidOf[t] \in cached

\* docs/commitments.md: a mismatch is "recorded as a commitment_mismatch
\* anomaly".  No failure or crash between the two writes leaves the verdict
\* without the finding, after which nobody would look again.
MismatchRecorded ==
    \A t \in Transitions :
        status[t] = "mismatch" => <<"commitment_mismatch", t>> \in anomalies

\* The unknown transactions whose finding is missing and no longer under way.
LostFindings ==
    {t \in Transitions : /\ status[t] = "btc_unknown"
                         /\ <<"unknown_btc_tx", t>> \notin anomalies
                         /\ ~ (pass.pc = "report" /\ Item = t)}

\* verify.rs:98-112: for an unknown transaction the status is written first, so
\* that a failure or crash before the second write loses the finding.  Each
\* loses one at most, and without one none is lost, however many transitions
\* are in the batch.
LossesBounded == Cardinality(LostFindings) <= faults

\* verify.rs: through late answers, failures, crashes and repeated passes a
\* transition is judged once, justly, and a finding is made known in time and
\* never taken back: the writes of the verifier are steps of Verdicts.
ImplementsVerdicts == Promise!Spec

\* shutdown.rs: once the signal is given no sleeping worker begins another
\* round, and the round a scanner is in is its last.
DrainBounded ==
    [][triggered =>
          /\ \A w \in Names : loop[w] = "sleep" => loop'[w] # "round"
          /\ indexed' # indexed => loop'["scanner"] = "sleep"]_vars

\* main.rs: after the signal every worker stops and the process ends,
\* whichever rounds were under way and whatever failed before.
ShutdownCompletes == triggered ~> main = "ended"

Stopped == triggered \/ main = "ended"

\* verify.rs:98: an error ends the pass and its transition may head the next one.
\* A transition is checked nevertheless, through failures that pass and through
\* crashes, unless the transaction of one in an earlier block, or in its own,
\* fails for ever: the query does not say which of a block comes first.
EveryTransitionChecked ==
    \A t \in Transitions :
        /\ TxidOf[t] # NoTxid
        /\ \A u \in Transitions \ Issuances :
              BlockOf[u] <= BlockOf[t] => TxidOf[u] \notin Broken
        => (t <= indexed ~> status[t] # "unchecked" \/ Stopped)

\* address_backfill.rs:64: a binding is labelled in the end even when its
\* transaction was unknown or failing when the walk passed it, or was indexed
\* behind the cursor, and although others are never resolved.
EveryBindingLabelled ==
    \A b \in Addressed :
        FundedBy[b] \notin Broken =>
            (BoundBy[b] <= indexed /\ FundedBy[b] \in known ~> b \in labels \/ Stopped)
=============================================================================
