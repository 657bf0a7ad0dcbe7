--------------------------- MODULE WorkersProofs ---------------------------
(***************************************************************************)
(* Machine-checked proofs about Workers, for every batch of transitions,   *)
(* every batch size and any number of faults and crashes.                  *)
(***************************************************************************)
EXTENDS Workers, TLAPS, FiniteSetTheorems, NaturalsInduction, WellFoundedInduction

-----------------------------------------------------------------------------
(* A mismatch and its finding *)

PassInv == pass = [pc |-> pass.pc, batch |-> pass.batch, item |-> pass.item]

StatusInv == status \in [Transitions -> Statuses]

\* A pass about to store a mismatch has recorded the finding.
SettleInv == pass.pc = "settle" => <<"commitment_mismatch", Item>> \in anomalies

FindingInv == PassInv /\ StatusInv /\ SettleInv /\ MismatchRecorded

\* A verdict is a status.
LEMMA VerdictType ==
    ASSUME NEW e, NEW o
    PROVE  Verdict(e, o) \in Statuses
BY DEF Verdict, Statuses

\* A step that stores no verdict keeps every finding.
LEMMA KeepsFindings ==
    ASSUME FindingInv, status' = status, anomalies \subseteq anomalies'
    PROVE  StatusInv' /\ MismatchRecorded'
BY DEF FindingInv, StatusInv, MismatchRecorded

\* A stored verdict other than a mismatch needs no finding, a mismatch has it.
LEMMA StoresVerdict ==
    ASSUME FindingInv, NEW t, NEW r \in Statuses, SetResult(t, r), anomalies' = anomalies,
           r = "mismatch" => <<"commitment_mismatch", t>> \in anomalies
    PROVE  StatusInv' /\ MismatchRecorded'
<1>1. status \in [Transitions -> Statuses] /\ status' = [status EXCEPT ![t] = r]
  BY DEF FindingInv, StatusInv, SetResult
<1>2. StatusInv'
  BY <1>1 DEF StatusInv
<1>3. ASSUME NEW u \in Transitions, status'[u] = "mismatch"
      PROVE  <<"commitment_mismatch", u>> \in anomalies'
  <2>1. CASE u = t
    BY <1>1, <1>3, <2>1
  <2>2. CASE u # t
    BY <1>1, <1>3, <2>2 DEF FindingInv, MismatchRecorded
  <2> QED BY <2>1, <2>2
<1> QED BY <1>2, <1>3 DEF MismatchRecorded

\* Where a pass goes.
LEMMA PassMoves ==
    /\ \A batch : GoOn(batch) => PassInv' /\ pass'.pc # "settle"
    /\ \A pc : PassInv /\ GoTo(pc) => /\ PassInv' /\ pass'.pc = pc
                                     /\ pass'.batch = pass.batch /\ pass'.item = pass.item
    /\ pass' \in {NoPass, NewPass} => PassInv' /\ pass'.pc # "settle"
<1>1. ASSUME NEW batch, GoOn(batch) PROVE PassInv' /\ pass'.pc # "settle"
  <2>1. CASE pass' = NoPass
    BY <2>1 DEF NoPass, PassInv
  <2>2. ASSUME NEW t, pass' = [pc |-> "fetch", batch |-> batch, item |-> t]
        PROVE  PassInv' /\ pass'.pc # "settle"
    BY <2>2 DEF PassInv
  <2> QED BY <1>1, <2>1, <2>2 DEF GoOn
<1>2. ASSUME NEW pc, PassInv, GoTo(pc)
      PROVE  PassInv' /\ pass'.pc = pc /\ pass'.batch = pass.batch /\ pass'.item = pass.item
  <2>1. /\ pass = [pc |-> pass.pc, batch |-> pass.batch, item |-> pass.item]
        /\ pass' = [pass EXCEPT !.pc = pc]
    BY <1>2 DEF PassInv, GoTo
  <2>2. pass' = [pc |-> pc, batch |-> pass.batch, item |-> pass.item]
    BY <2>1
  <2> QED BY <2>2 DEF PassInv
<1>3. ASSUME pass' \in {NoPass, NewPass} PROVE PassInv' /\ pass'.pc # "settle"
  BY <1>3 DEF NoPass, NewPass, PassInv
<1> QED BY <1>1, <1>2, <1>3

\* Every step of the verifier.
LEMMA VerifierKeeps ==
    ASSUME FindingInv, VerifyStep
    PROVE  FindingInv'
<1>1. PassInv
  BY DEF FindingInv
<1>2. ASSUME PassInv', pass'.pc # "settle", StatusInv', MismatchRecorded' PROVE FindingInv'
  BY <1>2 DEF FindingInv, SettleInv
<1>3. CASE ReadBatch
  <2>1. (\E batch : GoOn(batch)) /\ status' = status /\ anomalies' = anomalies
    BY <1>3 DEF ReadBatch, ledgerVars
  <2> QED BY <1>2, <2>1, PassMoves, KeepsFindings
<1>4. CASE SkipIssuance
  <2>1. /\ SetResult(Item, "not_applicable") /\ anomalies' = anomalies
        /\ GoOn(pass.batch \ {Item})
    BY <1>4 DEF SkipIssuance
  <2>2. StatusInv' /\ MismatchRecorded'
    BY <2>1, StoresVerdict DEF Statuses
  <2> QED BY <1>2, <2>1, <2>2, PassMoves
<1>5. CASE FetchNone
  <2>1. GoTo("unknown") /\ status' = status /\ anomalies' = anomalies
    BY <1>5 DEF FetchNone, ledgerVars
  <2> QED BY <1>1, <1>2, <2>1, PassMoves, KeepsFindings
<1>6. CASE FetchTx
  <2>1. GoTo("cache") /\ status' = status /\ anomalies' = anomalies
    BY <1>6 DEF FetchTx
  <2> QED BY <1>1, <1>2, <2>1, PassMoves, KeepsFindings
<1>7. CASE CacheTx
  <2>1. GoTo("judge") /\ status' = status /\ anomalies' = anomalies
    BY <1>7 DEF CacheTx
  <2> QED BY <1>1, <1>2, <2>1, PassMoves, KeepsFindings
<1>8. CASE RecordMismatch
  <2>1. /\ GoTo("settle") /\ status' = status
        /\ anomalies' = anomalies \cup {<<"commitment_mismatch", Item>>}
    BY <1>8 DEF RecordMismatch
  <2>2. PassInv' /\ pass'.item = pass.item
    BY <1>1, <2>1, PassMoves
  <2>3. SettleInv'
    BY <2>1, <2>2 DEF SettleInv, Item
  <2>4. StatusInv' /\ MismatchRecorded'
    BY <2>1, KeepsFindings
  <2> QED BY <2>2, <2>3, <2>4 DEF FindingInv
<1>9. CASE Settle
  <2> DEFINE verdict == Verdict(Expected[Item], FindCommitment(TxidOf[Item]))
  <2>1. /\ SetResult(Item, verdict) /\ anomalies' = anomalies /\ GoOn(pass.batch \ {Item})
        /\ \/ verdict # "mismatch"
           \/ pass.pc = "settle"
    BY <1>9 DEF Settle
  <2>2. verdict \in Statuses
    BY VerdictType
  <2> HIDE DEF verdict
  <2>3. verdict = "mismatch" => <<"commitment_mismatch", Item>> \in anomalies
    BY <2>1 DEF FindingInv, SettleInv
  <2>4. StatusInv' /\ MismatchRecorded'
    BY <2>1, <2>2, <2>3, StoresVerdict
  <2> QED BY <1>2, <2>1, <2>4, PassMoves
<1>10. CASE SetUnknown
  <2>1. SetResult(Item, "btc_unknown") /\ anomalies' = anomalies /\ GoTo("report")
    BY <1>10 DEF SetUnknown
  <2>2. StatusInv' /\ MismatchRecorded'
    BY <2>1, StoresVerdict DEF Statuses
  <2> QED BY <1>1, <1>2, <2>1, <2>2, PassMoves
<1>11. CASE RecordUnknown
  <2>1. /\ GoOn(pass.batch \ {Item}) /\ status' = status
        /\ anomalies \subseteq anomalies'
    BY <1>11 DEF RecordUnknown
  <2> QED BY <1>2, <2>1, PassMoves, KeepsFindings
<1>12. CASE AbortPass
  <2>1. pass' = NoPass /\ status' = status /\ anomalies' = anomalies
    BY <1>12 DEF AbortPass
  <2> QED BY <1>2, <2>1, PassMoves, KeepsFindings
<1> QED
  BY <1>3, <1>4, <1>5, <1>6, <1>7, <1>8, <1>9, <1>10, <1>11, <1>12 DEF VerifyStep

\* A step that writes no verdict and leaves the pass alone, or begins or drops it.
LEMMA OthersKeep ==
    ASSUME FindingInv, status' = status, anomalies' = anomalies,
           pass' = pass \/ pass' \in {NoPass, NewPass}
    PROVE  FindingInv'
<1>1. StatusInv' /\ MismatchRecorded'
  BY KeepsFindings
<1>2. CASE pass' = pass
  BY <1>1, <1>2 DEF FindingInv, PassInv, SettleInv, Item
<1>3. CASE pass' \in {NoPass, NewPass}
  BY <1>1, <1>3, PassMoves DEF FindingInv, SettleInv
<1> QED BY <1>2, <1>3

LEMMA FindingInit == Init => FindingInv
BY DEF Init, LedgerInit, FindingInv, PassInv, StatusInv, Statuses, SettleInv,
       MismatchRecorded, NoPass

LEMMA FindingNext ==
    ASSUME FindingInv, [Next]_vars
    PROVE  FindingInv'
<1>1. CASE VerifierStep
  BY <1>1, VerifierKeeps DEF VerifierStep
<1>2. CASE BackfillerStep
  BY <1>2, OthersKeep DEF BackfillerStep, BackfillStep, ReadPage, FetchFunding, LabelFunding,
                         SkipFunding, PageFails, ledgerVars
<1>3. CASE Bootstrap \/ BootstrapFails \/ InitStream \/ ScanRound
  BY <1>3, OthersKeep DEF Bootstrap, BootstrapFails, InitStream, ScanRound, ledgerVars
<1>4. CASE \E w \in Names : Sleeper(w)
  BY <1>4, OthersKeep DEF Sleeper, Timer, Changed, ledgerVars
<1>5. CASE Signal \/ Joined \/ Crash \/ Restart
  BY <1>5, OthersKeep DEF Signal, Joined, Crash, Restart, ledgerVars
<1>6. CASE Ended \/ UNCHANGED vars
  BY <1>6, OthersKeep DEF Ended, vars, ledgerVars
<1>7. CASE \E x \in Txids : Appear(x) /\ UNCHANGED <<pass, walk, processVars>>
  BY <1>7, OthersKeep DEF Appear
<1> QED BY <1>1, <1>2, <1>3, <1>4, <1>5, <1>6, <1>7 DEF Next

\* verify.rs: in every reachable state a stored mismatch has its
\* commitment_mismatch anomaly, whatever failed or crashed between the writes.
THEOREM MismatchesRecorded == Spec => []MismatchRecorded
<1>1. FindingInv => MismatchRecorded
  BY DEF FindingInv
<1> QED BY <1>1, FindingInit, FindingNext, PTL DEF Spec

-----------------------------------------------------------------------------
(* The drain *)

LoopInv ==
    /\ loop \in [Names -> {"off", "init", "round", "sleep", "stopped"}]
    /\ triggered \in BOOLEAN
    /\ triggered => main \in {"draining", "ended"}

\* The rounds leave the index to the scanner.
LEMMA RoundsKeepIndex == VerifyStep \/ BackfillStep => indexed' = indexed
BY DEF VerifyStep, ReadBatch, SkipIssuance, FetchNone, FetchTx, CacheTx, RecordMismatch,
       Settle, SetUnknown, RecordUnknown, AbortPass, BackfillStep, ReadPage, FetchFunding,
       LabelFunding, SkipFunding, PageFails, ledgerVars

LEMMA LoopInit == Init => LoopInv
BY DEF Init, LoopInv, Off, Names

LEMMA LoopNext ==
    ASSUME LoopInv, [Next]_vars
    PROVE  LoopInv'
<1> USE DEF LoopInv
<1>1. CASE Bootstrap
  <2>1. \A w \in Names : Spawned(w) \in {"off", "init", "round"}
    BY DEF Spawned
  <2> QED BY <1>1, <2>1 DEF Bootstrap
<1>2. CASE BootstrapFails \/ InitStream
  BY <1>2 DEF BootstrapFails, InitStream, Names
<1>3. CASE ScanRound
  BY <1>3 DEF ScanRound, AfterRound, Names
<1>4. CASE VerifierStep \/ BackfillerStep
  BY <1>4 DEF VerifierStep, BackfillerStep, Names
<1>5. CASE \E w \in Names : Sleeper(w)
  BY <1>5 DEF Sleeper, Timer, Changed
<1>6. CASE Signal \/ Joined \/ Restart
  <2>1. loop' = loop /\ triggered' \in BOOLEAN
    BY <1>6 DEF Signal, Joined, Restart
  <2>2. ASSUME triggered' PROVE main' \in {"draining", "ended"}
    <3>1. CASE Signal \/ Joined
      BY <3>1 DEF Signal, Joined
    <3>2. CASE Restart
      <4>1. triggered /\ main = "down"
        BY <2>2, <3>2 DEF Restart
      <4> QED BY <4>1
    <3> QED BY <1>6, <3>1, <3>2
  <2> QED BY <2>1, <2>2
<1>7. CASE Crash
  BY <1>7 DEF Crash, Off
<1>8. CASE Ended \/ UNCHANGED vars
  BY <1>8 DEF Ended, vars, processVars
<1>9. CASE \E x \in Txids : Appear(x) /\ UNCHANGED <<pass, walk, processVars>>
  BY <1>9 DEF processVars
<1> QED BY <1>1, <1>2, <1>3, <1>4, <1>5, <1>6, <1>7, <1>8, <1>9 DEF Next

\* What a step does once the signal is given.
LEMMA DrainStep ==
    ASSUME LoopInv, [Next]_vars, triggered
    PROVE  /\ \A w \in Names : loop[w] = "sleep" => loop'[w] # "round"
           /\ indexed' # indexed => loop'["scanner"] = "sleep"
<1> USE DEF LoopInv
<1>1. ASSUME loop' = loop, indexed' = indexed
      PROVE  /\ \A w \in Names : loop[w] = "sleep" => loop'[w] # "round"
             /\ indexed' # indexed => loop'["scanner"] = "sleep"
  BY <1>1
<1>2. CASE Bootstrap \/ BootstrapFails
  BY <1>2 DEF Bootstrap, BootstrapFails
<1>3. CASE InitStream
  BY <1>3 DEF InitStream, Names
<1>4. CASE ScanRound
  <2>1. \A b : AfterRound(b) = "sleep"
    BY DEF AfterRound
  <2>2. loop' = [loop EXCEPT !["scanner"] = "sleep"]
    BY <1>4, <2>1 DEF ScanRound
  <2> QED BY <2>2 DEF Names
<1>5. CASE VerifierStep
  <2>1. indexed' = indexed
    BY <1>5, RoundsKeepIndex DEF VerifierStep
  <2> QED BY <1>5, <2>1 DEF VerifierStep, Names
<1>6. CASE BackfillerStep
  <2>1. indexed' = indexed
    BY <1>6, RoundsKeepIndex DEF BackfillerStep
  <2> QED BY <1>6, <2>1 DEF BackfillerStep, Names
<1>7. CASE \E w \in Names : Sleeper(w)
  BY <1>7 DEF Sleeper, Timer, Changed, ledgerVars
<1>8. CASE Signal \/ Joined \/ Restart
  BY <1>1, <1>8 DEF Signal, Joined, Restart, ledgerVars
<1>9. CASE Crash
  BY <1>9 DEF Crash, Off
<1>10. CASE Ended \/ UNCHANGED vars
  BY <1>1, <1>10 DEF Ended, vars, processVars, ledgerVars
<1>11. CASE \E x \in Txids : Appear(x) /\ UNCHANGED <<pass, walk, processVars>>
  BY <1>1, <1>11 DEF Appear, processVars
<1> QED
  BY <1>2, <1>3, <1>4, <1>5, <1>6, <1>7, <1>8, <1>9, <1>10, <1>11 DEF Next

\* shutdown.rs: after the signal no sleeping worker begins another round and
\* the scan round under way is the last one, whatever the loops were doing.
THEOREM DrainIsBounded == Spec => DrainBounded
<1>1. LoopInv /\ [Next]_vars =>
          [triggered =>
              /\ \A w \in Names : loop[w] = "sleep" => loop'[w] # "round"
              /\ indexed' # indexed => loop'["scanner"] = "sleep"]_vars
  BY DrainStep
<1> QED BY <1>1, LoopInit, LoopNext, PTL DEF Spec, DrainBounded

-----------------------------------------------------------------------------
(* First and last *)

LEMMA FirstIn ==
    ASSUME NEW T \in SUBSET Nat, T # {}
    PROVE  Min(T) \in T /\ \A m \in T : Min(T) <= m
<1>1. \E n \in T : \A m \in T : ~(<<m, n>> \in OpToRel(<, Nat))
  BY NatLessThanWellFounded, WFMin
<1>2. PICK n \in T : \A m \in T : ~(<<m, n>> \in OpToRel(<, Nat))
  BY <1>1
<1>3. OpToRel(<, Nat) = {q \in Nat \X Nat : q[1] < q[2]}
  BY DEF OpToRel
<1>4. ASSUME NEW m \in T, m < n PROVE FALSE
  <2>1. <<m, n>> \in {q \in Nat \X Nat : q[1] < q[2]}
    BY <1>4
  <2> QED BY <1>2, <1>3, <2>1, Zenon
<1>5. \A m \in T : n <= m
  BY <1>4
<1> QED BY <1>5 DEF Min

LEMMA LastIn ==
    ASSUME NEW T \in SUBSET Nat, IsFiniteSet(T), T # {}
    PROVE  Max(T) \in T
<1> DEFINE Above(i) == {k \in T : k > i}
           C == {Above(i) : i \in T}
<1>1. \A i \in T : Above(i) \in SUBSET T /\ IsFiniteSet(Above(i))
  BY FS_Subset
<1>2. C \in SUBSET FiniteSubsetsOf(T) /\ C # {}
  BY <1>1 DEF FiniteSubsetsOf
<1>3. \E a \in C : \A b \in C : ~(<<b, a>> \in StrictSubsetOrdering(T))
  <2> HIDE DEF C
  <2> QED BY <1>2, FS_StrictSubsetOrderingWellFounded, WFMin
<1>4. PICK i \in T : \A b \in C : ~(<<b, Above(i)>> \in StrictSubsetOrdering(T))
  BY <1>3
<1>5. ASSUME NEW k \in T, k > i PROVE FALSE
  <2>1. \A m \in Above(k) : m \in Above(i)
    BY <1>5
  <2>2. k \in Above(i) /\ k \notin Above(k)
    BY <1>5
  <2>3. Above(k) \in C /\ Above(k) \in SUBSET T /\ Above(i) \in SUBSET T
    OBVIOUS
  <2> HIDE DEF Above, C
  <2>4. <<Above(k), Above(i)>> \in StrictSubsetOrdering(T)
    BY <2>1, <2>2, <2>3 DEF StrictSubsetOrdering
  <2> QED BY <1>4, <2>3, <2>4
<1>6. \A k \in T : i >= k
  BY <1>5
<1> QED BY <1>6 DEF Max

-----------------------------------------------------------------------------
(* Types and verdicts *)

TablesInv ==
    /\ indexed \in 0 .. Cardinality(Transitions)
    /\ known \subseteq Txids /\ cached \subseteq known
    /\ labels \subseteq Bound
    /\ status \in [Transitions -> Statuses]
    /\ anomalies \subseteq {"commitment_mismatch", "unknown_btc_tx"} \X Transitions
    /\ faults \in 0 .. MaxFaults

PassLabels == {"idle", "read", "fetch", "cache", "judge", "settle", "unknown", "report"}

\* The batch holds indexed transitions with a Bitcoin transaction, and from the
\* answer of the source on the one under way is no issuance and its transaction
\* known, and then cached.
BatchInv ==
    /\ pass \in [pc : PassLabels, batch : SUBSET (1 .. indexed), item : Nat]
    /\ \A t \in pass.batch : TxidOf[t] # NoTxid
    /\ pass.pc \notin {"idle", "read"} => Item \in pass.batch
    /\ pass.pc \notin {"idle", "read", "fetch"} => Item \notin Issuances
    /\ pass.pc \in {"cache", "judge", "settle"} => TxidOf[Item] \in known
    /\ pass.pc \in {"judge", "settle"} => TxidOf[Item] \in cached

WalkInv ==
    /\ walk \in [pc : {"idle", "read", "fetch", "label"}, todo : SUBSET Txids,
                 cursor : Txids \cup {0}, next : Txids \cup {0}]
    /\ walk.pc \in {"fetch", "label"} => walk.todo # {}

MainInv == main \in {"down", "bootstrap", "running", "draining", "ended"}

WorkInv == TablesInv /\ BatchInv /\ WalkInv /\ MainInv /\ VerdictsRight

\* What the proofs need of the constants.
LEMMA Given ==
    /\ \A t \in Transitions : t \in Nat /\ TxidOf[t] \in Txids \cup {NoTxid}
    /\ Cardinality(Transitions) \in Nat
    /\ \A t : t \in 1 .. Cardinality(Transitions) <=> t \in Transitions
    /\ Txids \subseteq Nat /\ IsFiniteSet(Txids) /\ NoTxid \notin Txids /\ 0 \notin Txids
    /\ \A b \in Bindings : FundedBy[b] \in Txids /\ BoundBy[b] \in Nat
    /\ Addressed \subseteq Bindings /\ Early \subseteq Txids /\ MaxFaults \in Nat
<1>1. Transitions = 1 .. Cardinality(Transitions) /\ IsFiniteSet(Transitions)
  BY LedgerAssumption
<1>2. PICK n \in Nat : n = Cardinality(Transitions)
  BY <1>1, FS_CardinalityType
<1>3. \A t : t \in 1 .. n <=> t \in Transitions
  BY <1>1, <1>2
<1>4. /\ \A t \in Transitions : TxidOf[t] \in Txids \cup {NoTxid}
      /\ \A b \in Bindings : FundedBy[b] \in Txids /\ BoundBy[b] \in Transitions
      /\ Addressed \subseteq Bindings /\ Early \subseteq Txids /\ MaxFaults \in Nat
      /\ Txids \subseteq Nat /\ IsFiniteSet(Txids) /\ NoTxid \notin Txids /\ 0 \notin Txids
  BY LedgerAssumption
<1> QED BY <1>2, <1>3, <1>4

\* A verdict of find_commitment and the comparison is one Verdicts allows.
LEMMA VerdictJustified ==
    ASSUME NEW t \in Transitions, TxidOf[t] \in Txids, t \notin Issuances,
           NEW r, r = Verdict(Expected[t], FindCommitment(TxidOf[t]))
    PROVE  r = "unchecked" \/ (r \in {"match", "mismatch", "missing"} /\ Promise!Justified(t, r))
<1> DEFINE f == Payloads[TxidOf[t]]
           D == DOMAIN f
           T == {i \in D : f[i].tagged}
           E == IF T = {} THEN D ELSE T
           first == Min(E)
           observed == FindCommitment(TxidOf[t])
<1>1. D \in SUBSET Nat /\ \A i \in D : f[i].value # NoCommitment
  BY LedgerAssumption
<1>2. observed = IF D = {} THEN NoCommitment ELSE f[first].value
  BY DEF FindCommitment
<1>3. D # {} => first \in E /\ \A k \in E : first <= k
  <2>1. E \in SUBSET Nat /\ (D # {} => E # {})
    BY <1>1
  <2> HIDE DEF E
  <2> QED BY <2>1, FirstIn
<1>4. D # {} => first \in D /\ Promise!Decides(t, first)
  <2> SUFFICES ASSUME D # {} PROVE first \in D /\ Promise!Decides(t, first)
    OBVIOUS
  <2>1. first \in E /\ \A k \in E : first <= k
    BY <1>3
  <2> HIDE DEF first
  <2>2. CASE T = {}
    <3>1. first \in D /\ ~ f[first].tagged /\ \A k \in D : ~ f[k].tagged /\ first <= k
      BY <2>1, <2>2
    <3> QED BY <3>1 DEF Promise!Decides, Promise!Published
  <2>3. CASE T # {}
    <3>1. first \in D /\ f[first].tagged /\ \A k \in D : f[k].tagged => first <= k
      BY <2>1, <2>3
    <3> QED BY <3>1 DEF Promise!Decides, Promise!Published
  <2> QED BY <2>2, <2>3
<1> HIDE DEF first, E, T, observed
<1>5. CASE D = {}
  <2>1. r = "missing"
    BY <1>2, <1>5 DEF Verdict, observed
  <2>2. Promise!Justified(t, "missing")
    BY <1>5 DEF Promise!Justified, Promise!Published
  <2> QED BY <2>1, <2>2
<1>6. CASE D # {}
  <2>1. observed = f[first].value /\ observed # NoCommitment /\ first \in D
        /\ Promise!Decides(t, first)
    BY <1>1, <1>2, <1>4, <1>6
  <2>2. CASE observed = Expected[t]
    <3>1. r = "match"
      BY <2>1, <2>2 DEF Verdict, observed
    <3>2. Promise!Justified(t, "match")
      BY <2>1, <2>2 DEF Promise!Justified, Promise!Published
    <3> QED BY <3>1, <3>2
  <2>3. CASE observed # Expected[t]
    <3>1. r \in {"unchecked", "mismatch"}
      BY <2>1, <2>3 DEF Verdict, observed
    <3>2. Promise!Justified(t, "mismatch")
      BY <2>1, <2>3 DEF Promise!Justified, Promise!Published
    <3> QED BY <3>1, <3>2
  <2> QED BY <2>2, <2>3
<1> QED BY <1>5, <1>6

\* The property, transition by transition.
RightAt(t, s) ==
    s # "unchecked" =>
        /\ t <= indexed /\ TxidOf[t] # NoTxid
        /\ Promise!Justified(t, s)
        /\ s \in {"match", "mismatch", "missing"} => TxidOf[t] \in cached

LEMMA RightSplit == VerdictsRight <=> \A t \in Transitions : RightAt(t, status[t])
BY DEF VerdictsRight, RightAt

LEMMA RightSplitNext == (\A t \in Transitions : RightAt(t, status[t]))' => VerdictsRight'
BY RightSplit, PTL

LEMMA VerdictsStay ==
    ASSUME WorkInv, status' = status, indexed' \in Nat, indexed <= indexed',
           cached \subseteq cached'
    PROVE  VerdictsRight'
<1>1. \A t \in Transitions : RightAt(t, status[t])
  BY RightSplit DEF WorkInv
<1>2. indexed \in Nat
  BY DEF WorkInv, TablesInv
<1>3. ASSUME NEW t \in Transitions PROVE RightAt(t, status[t])'
  <2>1. RightAt(t, status[t])
    BY <1>1
  <2>2. t \in Nat
    BY Given
  <2>3. status[t] # "unchecked" => t <= indexed'
    BY <1>2, <2>1, <2>2 DEF RightAt
  <2> QED BY <2>1, <2>3 DEF RightAt
<1>4. (\A t \in Transitions : RightAt(t, status[t]))'
  BY <1>3
<1> QED BY <1>4, RightSplitNext

LEMMA VerdictStored ==
    ASSUME WorkInv, NEW i \in Transitions, NEW r \in Statuses, SetResult(i, r),
           RightAt(i, r), UNCHANGED <<indexed, cached>>
    PROVE  VerdictsRight' /\ status' \in [Transitions -> Statuses]
<1>1. \A t \in Transitions : RightAt(t, status[t])
  BY RightSplit DEF WorkInv
<1>2. status \in [Transitions -> Statuses] /\ status' = [status EXCEPT ![i] = r]
  BY DEF WorkInv, TablesInv, SetResult
<1>3. ASSUME NEW t \in Transitions PROVE RightAt(t, status[t])'
  <2>1. PICK s \in Statuses : s = status'[t] /\ RightAt(t, s)
    <3>1. CASE t = i
      BY <1>2, <3>1
    <3>2. CASE t # i
      BY <1>1, <1>2, <3>2
    <3> QED BY <3>1, <3>2
  <2> QED BY <2>1 DEF RightAt
<1>4. (\A t \in Transitions : RightAt(t, status[t]))'
  BY <1>3
<1>5. VerdictsRight'
  BY <1>4, RightSplitNext
<1> QED BY <1>2, <1>5

\* The transition under way.
LEMMA ItemIn ==
    ASSUME WorkInv, pass.pc \notin {"idle", "read"}
    PROVE  /\ Item \in pass.batch /\ Item \in Transitions /\ Item <= indexed
           /\ TxidOf[Item] \in Txids
<1>1. pass.batch \in SUBSET (1 .. indexed) /\ Item \in pass.batch /\ indexed \in Nat
  BY DEF WorkInv, BatchInv, TablesInv
<1>2. Item \in 1 .. indexed
  BY <1>1
<1>3. Item \in 1 .. Cardinality(Transitions)
  BY <1>2, Given DEF WorkInv, TablesInv
<1>4. Item \in Transitions
  BY <1>3, Given
<1>5. TxidOf[Item] # NoTxid
  BY <1>1 DEF WorkInv, BatchInv
<1> QED BY <1>1, <1>2, <1>4, <1>5, Given

\* A pass that the others' steps leave alone.
LEMMA BatchStays ==
    ASSUME WorkInv, pass' = pass, indexed' \in Nat, indexed <= indexed',
           known \subseteq known', cached \subseteq cached'
    PROVE  BatchInv'
<1>1. indexed \in Nat /\ BatchInv
  BY DEF WorkInv, TablesInv
<1>2. 1 .. indexed \subseteq 1 .. indexed'
  BY <1>1
<1>3. pass' \in [pc : PassLabels, batch : SUBSET (1 .. indexed'), item : Nat]
  BY <1>1, <1>2 DEF BatchInv
<1> QED BY <1>1, <1>3 DEF BatchInv, Item

LEMMA PassBegins ==
    ASSUME pass' \in {NoPass, NewPass}
    PROVE  BatchInv'
BY DEF BatchInv, NoPass, NewPass, PassLabels

LEMMA PassGoesOn ==
    ASSUME WorkInv, NEW batch \in SUBSET (1 .. indexed), \A t \in batch : TxidOf[t] # NoTxid,
           GoOn(batch), indexed' = indexed
    PROVE  BatchInv'
<1>1. CASE pass' = NoPass
  BY <1>1, PassBegins
<1>2. ASSUME NEW t \in Front(batch), pass' = [pc |-> "fetch", batch |-> batch, item |-> t]
      PROVE  BatchInv'
  <2>1. t \in batch /\ indexed \in Nat
    BY DEF Front, WorkInv, TablesInv
  <2>2. t \in Nat
    BY <2>1
  <2> QED BY <1>2, <2>1, <2>2 DEF BatchInv, PassLabels, Item
<1> QED BY <1>1, <1>2 DEF GoOn

LEMMA PassGoesTo ==
    ASSUME WorkInv, pass.pc \notin {"idle", "read"}, UNCHANGED <<indexed, known>>,
           NEW l \in PassLabels \ {"idle", "read"}, GoTo(l),
           l # "fetch" => Item \notin Issuances,
           l \in {"cache", "judge", "settle"} => TxidOf[Item] \in known,
           l \in {"judge", "settle"} => TxidOf[Item] \in cached'
    PROVE  BatchInv'
<1>1. pass \in [pc : PassLabels, batch : SUBSET (1 .. indexed), item : Nat]
      /\ Item \in pass.batch /\ \A t \in pass.batch : TxidOf[t] # NoTxid
  BY DEF WorkInv, BatchInv
<1>2. pass' = [pass EXCEPT !.pc = l]
  BY DEF GoTo
<1>3. pass' \in [pc : PassLabels, batch : SUBSET (1 .. indexed), item : Nat]
      /\ pass'.batch = pass.batch /\ pass'.item = pass.item /\ pass'.pc = l
  BY <1>1, <1>2
<1>4. Item' = Item
  BY <1>3 DEF Item
<1> QED BY <1>1, <1>3, <1>4 DEF BatchInv

\* The rows a step of the verifier leaves alone, and the rest.
LEMMA WorkKept ==
    ASSUME WorkInv, UNCHANGED <<indexed, known, walk, main>>, BatchInv', VerdictsRight',
           cached \subseteq cached', cached' \subseteq known, labels' \subseteq Bound,
           status' \in [Transitions -> Statuses],
           anomalies' \subseteq {"commitment_mismatch", "unknown_btc_tx"} \X Transitions,
           faults' \in 0 .. MaxFaults
    PROVE  WorkInv'
<1>1. TablesInv'
  BY DEF WorkInv, TablesInv, Bound
<1>2. WalkInv' /\ MainInv'
  BY DEF WorkInv, WalkInv, MainInv
<1> QED BY <1>1, <1>2 DEF WorkInv

LEMMA FaultType ==
    ASSUME WorkInv, Fault \/ faults' = faults
    PROVE  faults' \in 0 .. MaxFaults
BY Given DEF WorkInv, TablesInv, Fault

LEMMA VerifyKeeps ==
    ASSUME WorkInv, VerifyStep, UNCHANGED <<walk, main>>
    PROVE  WorkInv'
<1>1. /\ indexed \in Nat /\ cached \subseteq known /\ labels \subseteq Bound
      /\ status \in [Transitions -> Statuses]
      /\ anomalies \subseteq {"commitment_mismatch", "unknown_btc_tx"} \X Transitions
      /\ faults \in 0 .. MaxFaults
  BY DEF WorkInv, TablesInv
<1> DEFINE rest == pass.batch \ {Item}
<1>2. rest \in SUBSET (1 .. indexed) /\ \A t \in rest : TxidOf[t] # NoTxid
  BY DEF WorkInv, BatchInv
<1> HIDE DEF rest
<1>3. CASE ReadBatch
  <2>1. PICK batch \in SUBSET Unchecked : GoOn(batch) /\ UNCHANGED ledgerVars
    BY <1>3 DEF ReadBatch
  <2>2. batch \in SUBSET (1 .. indexed) /\ \A t \in batch : TxidOf[t] # NoTxid
    BY DEF Unchecked
  <2>3. BatchInv' /\ VerdictsRight'
    BY <1>1, <2>1, <2>2, PassGoesOn, VerdictsStay DEF ledgerVars
  <2> QED BY <1>1, <2>1, <2>3, WorkKept DEF ledgerVars
<1>4. CASE SkipIssuance
  <2>1. /\ SetResult(Item, "not_applicable") /\ GoOn(rest) /\ Item \in Issuances
        /\ pass.pc = "fetch" /\ UNCHANGED <<indexed, known, anomalies, cached, labels, faults>>
    BY <1>4 DEF SkipIssuance, rest
  <2>2. Item \in Transitions /\ Item <= indexed /\ TxidOf[Item] \in Txids
    BY <2>1, ItemIn
  <2>3. RightAt(Item, "not_applicable") /\ "not_applicable" \in Statuses
    BY <2>1, <2>2, Given DEF RightAt, Promise!Justified, Statuses
  <2>4. VerdictsRight' /\ status' \in [Transitions -> Statuses]
    BY <2>1, <2>2, <2>3, VerdictStored
  <2>5. BatchInv'
    BY <1>2, <2>1, PassGoesOn
  <2> QED BY <1>1, <2>1, <2>4, <2>5, WorkKept
<1>5. CASE FetchNone
  <2>1. pass.pc = "fetch" /\ Item \notin Issuances /\ GoTo("unknown") /\ UNCHANGED ledgerVars
    BY <1>5 DEF FetchNone
  <2>2. BatchInv'
    BY <2>1, PassGoesTo DEF PassLabels, ledgerVars
  <2>3. VerdictsRight'
    BY <1>1, <2>1, VerdictsStay DEF ledgerVars
  <2> QED BY <1>1, <2>1, <2>2, <2>3, WorkKept DEF ledgerVars
<1>6. CASE FetchTx
  <2>1. /\ pass.pc = "fetch" /\ Item \notin Issuances /\ GoTo("cache")
        /\ TxidOf[Item] \in known
        /\ UNCHANGED <<indexed, known, status, anomalies, cached>>
    BY <1>6 DEF FetchTx
  <2>2. BatchInv'
    BY <2>1, PassGoesTo DEF PassLabels
  <2>3. VerdictsRight'
    BY <1>1, <2>1, VerdictsStay
  <2>4. labels' \subseteq Bound
    BY <1>1, <1>6 DEF FetchTx, Labelled
  <2>5. faults' \in 0 .. MaxFaults
    BY <1>6, FaultType DEF FetchTx
  <2> QED BY <1>1, <2>1, <2>2, <2>3, <2>4, <2>5, WorkKept
<1>7. CASE CacheTx
  <2>1. /\ pass.pc = "cache" /\ GoTo("judge") /\ cached' = cached \cup {TxidOf[Item]}
        /\ UNCHANGED <<indexed, known, status, anomalies, labels, faults>>
    BY <1>7 DEF CacheTx
  <2>2. Item \notin Issuances /\ TxidOf[Item] \in known
    BY <2>1 DEF WorkInv, BatchInv
  <2>3. BatchInv'
    BY <2>1, <2>2, PassGoesTo DEF PassLabels
  <2>4. VerdictsRight'
    BY <1>1, <2>1, VerdictsStay
  <2> QED BY <1>1, <2>1, <2>2, <2>3, <2>4, WorkKept
<1>8. CASE RecordMismatch
  <2>1. /\ pass.pc = "judge" /\ GoTo("settle")
        /\ anomalies' = anomalies \cup {<<"commitment_mismatch", Item>>}
        /\ UNCHANGED <<indexed, known, status, cached, labels, faults>>
    BY <1>8 DEF RecordMismatch
  <2>2. Item \notin Issuances /\ TxidOf[Item] \in known /\ TxidOf[Item] \in cached
    BY <2>1 DEF WorkInv, BatchInv
  <2>3. BatchInv'
    BY <2>1, <2>2, PassGoesTo DEF PassLabels
  <2>4. VerdictsRight'
    BY <1>1, <2>1, VerdictsStay
  <2>5. Item \in Transitions
    BY <2>1, ItemIn
  <2>6. anomalies' \subseteq {"commitment_mismatch", "unknown_btc_tx"} \X Transitions
    BY <1>1, <2>1, <2>5
  <2> QED BY <1>1, <2>1, <2>3, <2>4, <2>6, WorkKept
<1>9. CASE Settle
  <2> DEFINE verdict == Verdict(Expected[Item], FindCommitment(TxidOf[Item]))
  <2>1. /\ pass.pc \in {"judge", "settle"} /\ SetResult(Item, verdict) /\ GoOn(rest)
        /\ UNCHANGED <<indexed, known, anomalies, cached, labels, faults>>
    BY <1>9 DEF Settle, rest
  <2>2. Item \notin Issuances /\ TxidOf[Item] \in cached
    BY <2>1 DEF WorkInv, BatchInv
  <2>3. Item \in Transitions /\ Item <= indexed /\ TxidOf[Item] \in Txids
    BY <2>1, ItemIn
  <2>4. verdict = "unchecked" \/ Promise!Justified(Item, verdict)
    BY <2>2, <2>3, VerdictJustified
  <2>5. verdict \in Statuses \ {"not_applicable"}
    BY DEF Verdict, Statuses
  <2> HIDE DEF verdict
  <2>6. RightAt(Item, verdict)
    BY <2>2, <2>3, <2>4, <2>5, Given DEF RightAt
  <2>7. VerdictsRight' /\ status' \in [Transitions -> Statuses]
    BY <2>1, <2>3, <2>5, <2>6, VerdictStored
  <2>8. BatchInv'
    BY <1>2, <2>1, PassGoesOn
  <2> QED BY <1>1, <2>1, <2>7, <2>8, WorkKept
<1>10. CASE SetUnknown
  <2>1. /\ pass.pc = "unknown" /\ SetResult(Item, "btc_unknown") /\ GoTo("report")
        /\ UNCHANGED <<indexed, known, anomalies, cached, labels, faults>>
    BY <1>10 DEF SetUnknown
  <2>2. Item \notin Issuances
    BY <2>1 DEF WorkInv, BatchInv
  <2>3. Item \in Transitions /\ Item <= indexed /\ TxidOf[Item] \in Txids
    BY <2>1, ItemIn
  <2>4. RightAt(Item, "btc_unknown") /\ "btc_unknown" \in Statuses
    BY <2>2, <2>3, Given DEF RightAt, Promise!Justified, Statuses
  <2>5. VerdictsRight' /\ status' \in [Transitions -> Statuses]
    BY <2>1, <2>3, <2>4, VerdictStored
  <2>6. BatchInv'
    BY <2>1, <2>2, PassGoesTo DEF PassLabels
  <2> QED BY <1>1, <2>1, <2>5, <2>6, WorkKept
<1>11. CASE RecordUnknown
  <2>1. /\ pass.pc = "report" /\ GoOn(rest)
        /\ anomalies' = anomalies \cup {<<"unknown_btc_tx", Item>>}
        /\ UNCHANGED <<indexed, known, status, cached, labels, faults>>
    BY <1>11 DEF RecordUnknown, rest
  <2>2. Item \in Transitions
    BY <2>1, ItemIn
  <2>3. anomalies' \subseteq {"commitment_mismatch", "unknown_btc_tx"} \X Transitions
    BY <1>1, <2>1, <2>2
  <2>4. BatchInv' /\ VerdictsRight'
    BY <1>1, <1>2, <2>1, PassGoesOn, VerdictsStay
  <2> QED BY <1>1, <2>1, <2>3, <2>4, WorkKept
<1>12. CASE AbortPass
  <2>1. pass' = NoPass /\ UNCHANGED <<indexed, known, status, anomalies, cached, labels>>
    BY <1>12 DEF AbortPass
  <2>2. BatchInv' /\ VerdictsRight'
    BY <1>1, <2>1, PassBegins, VerdictsStay
  <2>3. faults' \in 0 .. MaxFaults
    BY <1>12, FaultType DEF AbortPass
  <2> QED BY <1>1, <2>1, <2>2, <2>3, WorkKept
<1> QED
  BY <1>3, <1>4, <1>5, <1>6, <1>7, <1>8, <1>9, <1>10, <1>11, <1>12 DEF VerifyStep

\* The walk of the backfill.
LEMMA WalkGoesOn ==
    ASSUME WorkInv, NEW todo \in SUBSET Txids, NEW next \in Txids \cup {0}, WalkOn(todo, next)
    PROVE  WalkInv'
<1>1. CASE todo = {}
  <2>1. walk' = [pc |-> "idle", todo |-> {}, cursor |-> next, next |-> 0]
    BY <1>1 DEF WalkOn, NoWalk
  <2> QED BY <2>1 DEF WalkInv
<1>2. CASE todo # {}
  <2>1. walk' = [walk EXCEPT !.pc = "fetch", !.todo = todo, !.next = next]
    BY <1>2 DEF WalkOn
  <2>2. walk \in [pc : {"idle", "read", "fetch", "label"}, todo : SUBSET Txids,
                  cursor : Txids \cup {0}, next : Txids \cup {0}]
    BY DEF WorkInv, WalkInv
  <2>3. walk' \in [pc : {"idle", "read", "fetch", "label"}, todo : SUBSET Txids,
                   cursor : Txids \cup {0}, next : Txids \cup {0}]
        /\ walk'.todo = todo
    BY <2>1, <2>2
  <2> QED BY <1>2, <2>3 DEF WalkInv
<1> QED BY <1>1, <1>2

LEMMA WalkMoves ==
    ASSUME WorkInv, NEW l \in {"idle", "read", "fetch", "label"},
           walk' = [walk EXCEPT !.pc = l], l \in {"fetch", "label"} => walk.todo # {}
    PROVE  WalkInv'
<1>1. walk \in [pc : {"idle", "read", "fetch", "label"}, todo : SUBSET Txids,
                cursor : Txids \cup {0}, next : Txids \cup {0}]
  BY DEF WorkInv, WalkInv
<1>2. walk' \in [pc : {"idle", "read", "fetch", "label"}, todo : SUBSET Txids,
                 cursor : Txids \cup {0}, next : Txids \cup {0}]
      /\ walk'.todo = walk.todo /\ walk'.pc = l
  BY <1>1
<1> QED BY <1>2 DEF WalkInv

LEMMA PageCursor ==
    ASSUME NEW page \in SUBSET Txids
    PROVE  NextCursor(page) \in Txids \cup {0}
<1>1. page \in SUBSET Nat /\ IsFiniteSet(page)
  BY Given, FS_Subset
<1>2. CASE Cardinality(page) < BackfillBatch
  BY <1>2 DEF NextCursor
<1>3. CASE ~ (Cardinality(page) < BackfillBatch)
  <2>1. page # {}
    BY <1>3, FS_EmptySet, BackfillAssumption
  <2>2. Max(page) \in page
    BY <1>1, <2>1, LastIn
  <2>3. NextCursor(page) = Max(page)
    BY <1>3 DEF NextCursor
  <2> QED BY <2>2, <2>3
<1> QED BY <1>2, <1>3

LEMMA BackfillKeeps ==
    ASSUME WorkInv, BackfillStep, UNCHANGED <<pass, main>>
    PROVE  WorkInv'
<1>1. /\ indexed \in Nat /\ cached \subseteq known /\ labels \subseteq Bound
      /\ walk \in [pc : {"idle", "read", "fetch", "label"}, todo : SUBSET Txids,
                   cursor : Txids \cup {0}, next : Txids \cup {0}]
  BY DEF WorkInv, TablesInv, WalkInv
<1> DEFINE rest == walk.todo \ {Funding}
<1>2. rest \in SUBSET Txids /\ walk.next \in Txids \cup {0} /\ walk.todo \in SUBSET Txids
  BY <1>1
<1> HIDE DEF rest
<1>3. /\ UNCHANGED <<indexed, known, status, anomalies>>
      /\ Fault \/ faults' = faults
  BY DEF BackfillStep, ReadPage, FetchFunding, LabelFunding, SkipFunding, PageFails, ledgerVars
<1>4. ASSUME WalkInv', cached \subseteq cached', cached' \subseteq known, labels' \subseteq Bound
      PROVE  WorkInv'
  <2>1. faults' \in 0 .. MaxFaults
    BY <1>3, FaultType
  <2>2. TablesInv'
    BY <1>3, <1>4, <2>1 DEF WorkInv, TablesInv, Bound
  <2>3. BatchInv' /\ VerdictsRight'
    BY <1>1, <1>3, <1>4, BatchStays, VerdictsStay
  <2> QED BY <1>4, <2>2, <2>3 DEF WorkInv, MainInv
<1>5. CASE ReadPage
  <2> DEFINE page == MissingAfter(walk.cursor)
  <2>1. WalkOn(page, NextCursor(page)) /\ UNCHANGED <<cached, labels>>
    BY <1>5 DEF ReadPage, ledgerVars
  <2>2. page \in SUBSET Txids
    BY Given DEF MissingAfter, Bound
  <2> HIDE DEF page
  <2>3. NextCursor(page) \in Txids \cup {0}
    BY <2>2, PageCursor
  <2>4. WalkInv'
    BY <2>1, <2>2, <2>3, WalkGoesOn
  <2> QED BY <1>1, <1>4, <2>1, <2>4
<1>6. CASE FetchFunding
  <2>1. CASE Funding \in known
    <3>1. /\ walk.pc = "fetch" /\ walk' = [walk EXCEPT !.pc = "label"]
          /\ cached' = cached \cup {Funding} /\ labels' = labels
      BY <1>6, <2>1 DEF FetchFunding
    <3>2. walk.todo # {}
      BY <3>1 DEF WorkInv, WalkInv
    <3>3. WalkInv'
      BY <3>1, <3>2, WalkMoves
    <3> QED BY <1>1, <1>4, <2>1, <3>1, <3>3
  <2>2. CASE Funding \notin known
    <3>1. WalkOn(rest, walk.next) /\ UNCHANGED <<cached, labels>>
      BY <1>6, <2>2 DEF FetchFunding, rest
    <3>2. WalkInv'
      BY <1>2, <3>1, WalkGoesOn
    <3> QED BY <1>1, <1>4, <3>1, <3>2
  <2> QED BY <2>1, <2>2
<1>7. CASE LabelFunding
  <2>1. WalkOn(rest, walk.next) /\ cached' = cached /\ labels' = labels \cup Labelled(Funding)
    BY <1>7 DEF LabelFunding, rest
  <2>2. WalkInv'
    BY <1>2, <2>1, WalkGoesOn
  <2>3. labels' \subseteq Bound
    BY <1>1, <2>1 DEF Labelled
  <2> QED BY <1>1, <1>4, <2>1, <2>2, <2>3
<1>8. CASE SkipFunding
  <2>1. WalkOn(rest, walk.next) /\ UNCHANGED <<cached, labels>>
    BY <1>8 DEF SkipFunding, rest
  <2>2. WalkInv'
    BY <1>2, <2>1, WalkGoesOn
  <2> QED BY <1>1, <1>4, <2>1, <2>2
<1>9. CASE PageFails
  <2>1. walk' = [walk EXCEPT !.pc = "idle"] /\ UNCHANGED <<cached, labels>>
    BY <1>9 DEF PageFails
  <2>2. WalkInv'
    BY <2>1, WalkMoves
  <2> QED BY <1>1, <1>4, <2>1, <2>2
<1> QED BY <1>5, <1>6, <1>7, <1>8, <1>9 DEF BackfillStep

\* Steps that touch no table, and begin, drop or keep the two passes.
LEMMA ProcessKeeps ==
    ASSUME WorkInv, UNCHANGED <<indexed, known, status, anomalies, cached, labels>>,
           Fault \/ faults' = faults,
           pass' = pass \/ pass' \in {NoPass, NewPass},
           walk' = walk \/ walk' = NoWalk \/ walk' = [NoWalk EXCEPT !.pc = "read"] \/ BeginWalk,
           main' \in {"down", "bootstrap", "running", "draining", "ended"}
    PROVE  WorkInv'
<1>1. indexed \in Nat
  BY DEF WorkInv, TablesInv
<1>2. VerdictsRight' /\ BatchInv'
  BY <1>1, VerdictsStay, BatchStays, PassBegins
<1>3. WalkInv'
  <2>1. CASE walk' = walk
    BY <2>1 DEF WorkInv, WalkInv
  <2>2. CASE walk' = NoWalk \/ walk' = [NoWalk EXCEPT !.pc = "read"]
    BY <2>2 DEF NoWalk, WalkInv
  <2>3. CASE BeginWalk
    BY <2>3, WalkMoves DEF BeginWalk
  <2> QED BY <2>1, <2>2, <2>3
<1>4. faults' \in 0 .. MaxFaults
  BY FaultType
<1>5. TablesInv' /\ MainInv'
  BY <1>4 DEF WorkInv, TablesInv, MainInv, Bound
<1> QED BY <1>2, <1>3, <1>5 DEF WorkInv

LEMMA WorkInit == Init => WorkInv
<1> SUFFICES ASSUME Init PROVE WorkInv
  OBVIOUS
<1>1. TablesInv
  BY Given DEF Init, LedgerInit, TablesInv, Statuses
<1>2. BatchInv
  BY DEF Init, NoPass, BatchInv, PassLabels
<1>3. WalkInv /\ MainInv
  BY DEF Init, NoWalk, WalkInv, MainInv
<1>4. \A t \in Transitions : RightAt(t, status[t])
  BY DEF Init, LedgerInit, RightAt
<1> QED BY <1>1, <1>2, <1>3, <1>4, RightSplit DEF WorkInv

LEMMA WorkNext == WorkInv /\ [Next]_vars => WorkInv'
<1> SUFFICES ASSUME WorkInv, [Next]_vars PROVE WorkInv'
  OBVIOUS
<1>1. indexed \in Nat /\ main \in {"down", "bootstrap", "running", "draining", "ended"}
  BY DEF WorkInv, TablesInv, MainInv
<1>2. CASE \E x \in Txids : Appear(x) /\ UNCHANGED <<pass, walk, processVars>>
  <2>1. PICK x \in Txids : Appear(x) /\ UNCHANGED <<pass, walk, processVars>>
    BY <1>2
  <2>2. /\ known' = known \cup {x} /\ UNCHANGED <<pass, walk, main>>
        /\ UNCHANGED <<indexed, status, anomalies, cached, labels, faults>>
    BY <2>1 DEF Appear, processVars
  <2>3. VerdictsRight' /\ BatchInv'
    BY <1>1, <2>2, VerdictsStay, BatchStays
  <2>4. TablesInv' /\ WalkInv' /\ MainInv'
    BY <2>2 DEF WorkInv, TablesInv, WalkInv, MainInv, Bound
  <2> QED BY <2>3, <2>4 DEF WorkInv
<1>3. CASE ScanRound
  <2>1. UNCHANGED <<known, status, anomalies, cached, labels, pass, walk, main>>
    BY <1>3 DEF ScanRound
  <2>2. /\ indexed' \in 0 .. Cardinality(Transitions) /\ indexed <= indexed'
        /\ Fault \/ faults' = faults
    <3>1. indexed \in 0 .. Cardinality(Transitions) /\ Cardinality(Transitions) \in Nat
      BY Given DEF WorkInv, TablesInv
    <3>2. indexed' = indexed \/ indexed' \in (indexed + 1) .. Cardinality(Transitions)
      BY <1>3 DEF ScanRound
    <3>3. Fault \/ faults' = faults
      BY <1>3 DEF ScanRound
    <3> QED BY <3>1, <3>2, <3>3
  <2>3. VerdictsRight' /\ BatchInv'
    BY <2>1, <2>2, VerdictsStay, BatchStays
  <2>4. faults' \in 0 .. MaxFaults
    BY <2>2, FaultType
  <2>5. Bound \subseteq Bound'
    BY <1>1, <2>2, Given DEF Bound
  <2>6. TablesInv' /\ WalkInv' /\ MainInv'
    BY <2>1, <2>2, <2>4, <2>5 DEF WorkInv, TablesInv, WalkInv, MainInv
  <2> QED BY <2>3, <2>6 DEF WorkInv
<1>4. CASE VerifierStep
  BY <1>4, VerifyKeeps DEF VerifierStep
<1>5. CASE BackfillerStep
  BY <1>5, BackfillKeeps DEF BackfillerStep
<1>6. CASE Bootstrap \/ BootstrapFails \/ InitStream
  BY <1>1, <1>6, ProcessKeeps DEF Bootstrap, BootstrapFails, InitStream, ledgerVars
<1>7. CASE \E w \in Names : Sleeper(w)
  BY <1>1, <1>7, ProcessKeeps DEF Sleeper, Timer, Changed, ledgerVars
<1>8. CASE Signal \/ Joined \/ Crash \/ Restart
  BY <1>1, <1>8, ProcessKeeps DEF Signal, Joined, Crash, Restart, ledgerVars
<1>9. CASE Ended \/ UNCHANGED vars
  BY <1>1, <1>9, ProcessKeeps DEF Ended, vars, ledgerVars, processVars
<1> QED BY <1>2, <1>3, <1>4, <1>5, <1>6, <1>7, <1>8, <1>9 DEF Next

LEMMA WorkAlways == Spec => []WorkInv
BY WorkInit, WorkNext, PTL DEF Spec

\* The types of the tables, the passes and the process (verify.rs,
\* address_backfill.rs, main.rs): among them that only transactions the source
\* returned are cached and only bound outputs are labelled.
THEOREM TypeCorrect == Spec => []TypeOK
<1>1. WorkInv /\ LoopInv => TypeOK
  BY DEF WorkInv, TablesInv, BatchInv, WalkInv, MainInv, LoopInv, TypeOK
<1> QED BY <1>1, WorkAlways, LoopInit, LoopNext, PTL DEF Spec

\* verify.rs: in every reachable state every stored verdict agrees with the
\* payloads of the transaction, through every failure, crash and late answer.
THEOREM VerdictsAreRight == Spec => []VerdictsRight
<1>1. WorkInv => VerdictsRight
  BY DEF WorkInv
<1> QED BY <1>1, WorkAlways, PTL

-----------------------------------------------------------------------------
(* Verdicts is implemented *)

\* What is left of a batch has not been judged, but for the transition whose
\* finding is under way.
JudgeInv ==
    /\ \A t \in pass.batch : status[t] = "unchecked" \/ (pass.pc = "report" /\ t = Item)
    /\ pass.pc = "report" => status[Item] = "btc_unknown"

\* The next transition of the batch: only the last one may have been judged.
LEMMA JudgeLeft ==
    ASSUME JudgeInv, GoOn(pass.batch \ {Item}), \A t : t # Item => status'[t] = status[t]
    PROVE  JudgeInv'
<1>1. /\ pass'.pc \in {"idle", "fetch"}
      /\ \A t \in pass'.batch : t \in pass.batch /\ t # Item
  BY DEF GoOn, NoPass, Front
<1>2. \A t \in pass'.batch : status'[t] = "unchecked"
  BY <1>1 DEF JudgeInv
<1> QED BY <1>1, <1>2 DEF JudgeInv

\* A step that judges nothing, within a transition or with no pass.
LEMMA JudgeSame ==
    ASSUME JudgeInv, status' = status, pass'.batch = pass.batch, pass'.item = pass.item,
           pass'.pc = pass.pc \/ "report" \notin {pass.pc, pass'.pc}
    PROVE  JudgeInv'
<1>1. Item' = Item
  BY DEF Item
<1> QED BY <1>1 DEF JudgeInv

LEMMA JudgeBegins ==
    ASSUME pass' \in {NoPass, NewPass}
    PROVE  JudgeInv'
BY DEF JudgeInv, NoPass, NewPass

LEMMA JudgeVerify ==
    ASSUME WorkInv, FindingInv, JudgeInv, VerifyStep
    PROVE  JudgeInv'
<1>1. PassInv /\ status \in [Transitions -> Statuses]
  BY DEF FindingInv, StatusInv
<1>2. CASE ReadBatch
  <2>1. PICK batch \in SUBSET Unchecked : GoOn(batch) /\ status' = status
    BY <1>2 DEF ReadBatch, ledgerVars
  <2>2. \A t \in batch : status[t] = "unchecked"
    BY DEF Unchecked
  <2>3. pass'.pc \in {"idle", "fetch"} /\ \A t \in pass'.batch : t \in batch
    BY <2>1 DEF GoOn, NoPass
  <2> QED BY <2>1, <2>2, <2>3 DEF JudgeInv
<1>3. CASE SkipIssuance
  <2>1. GoOn(pass.batch \ {Item}) /\ status' = [status EXCEPT ![Item] = "not_applicable"]
    BY <1>3 DEF SkipIssuance, SetResult
  <2>2. \A t : t # Item => status'[t] = status[t]
    BY <1>1, <2>1
  <2> QED BY <2>1, <2>2, JudgeLeft
<1>4. CASE FetchNone \/ FetchTx \/ CacheTx \/ RecordMismatch
  <2>1. PICK l \in {"unknown", "cache", "judge", "settle"} : GoTo(l)
    BY <1>4 DEF FetchNone, FetchTx, CacheTx, RecordMismatch
  <2>2. status' = status /\ pass.pc # "report"
    BY <1>4 DEF FetchNone, FetchTx, CacheTx, RecordMismatch, ledgerVars
  <2>3. pass'.pc = l /\ pass'.batch = pass.batch /\ pass'.item = pass.item
    BY <1>1, <2>1, PassMoves
  <2> QED BY <2>2, <2>3, JudgeSame
<1>5. CASE Settle
  <2>1. PICK r : GoOn(pass.batch \ {Item}) /\ status' = [status EXCEPT ![Item] = r]
    BY <1>5 DEF Settle, SetResult
  <2>2. \A t : t # Item => status'[t] = status[t]
    BY <1>1, <2>1
  <2> QED BY <2>1, <2>2, JudgeLeft
<1>6. CASE SetUnknown
  <2>1. /\ pass.pc = "unknown" /\ status' = [status EXCEPT ![Item] = "btc_unknown"]
        /\ GoTo("report")
    BY <1>6 DEF SetUnknown, SetResult
  <2>2. pass'.pc = "report" /\ pass'.batch = pass.batch /\ pass'.item = pass.item
    BY <1>1, <2>1, PassMoves
  <2>3. Item' = Item
    BY <2>2 DEF Item
  <2>4. Item \in Transitions
    BY <2>1, ItemIn
  <2>5. status'[Item] = "btc_unknown" /\ \A t : t # Item => status'[t] = status[t]
    BY <1>1, <2>1, <2>4
  <2>6. \A t \in pass.batch : status[t] = "unchecked"
    BY <2>1 DEF JudgeInv
  <2> QED BY <2>2, <2>3, <2>5, <2>6 DEF JudgeInv
<1>7. CASE RecordUnknown
  BY <1>7, JudgeLeft DEF RecordUnknown
<1>8. CASE AbortPass
  BY <1>8, JudgeBegins DEF AbortPass
<1> QED BY <1>2, <1>3, <1>4, <1>5, <1>6, <1>7, <1>8 DEF VerifyStep

\* The steps of the others.
OtherStep ==
    /\ UNCHANGED <<status, anomalies>>
    /\ \/ pass' = pass
       \/ pass' \in {NoPass, NewPass}

LEMMA OthersStep ==
    ASSUME [Next]_vars
    PROVE  VerifierStep \/ OtherStep
<1> USE DEF OtherStep
<1>1. CASE BackfillerStep
  BY <1>1 DEF BackfillerStep, BackfillStep, ReadPage, FetchFunding, LabelFunding,
              SkipFunding, PageFails, ledgerVars
<1>2. CASE Bootstrap \/ BootstrapFails \/ InitStream \/ ScanRound
  BY <1>2 DEF Bootstrap, BootstrapFails, InitStream, ScanRound, ledgerVars
<1>3. CASE \E w \in Names : Sleeper(w)
  BY <1>3 DEF Sleeper, Timer, Changed, ledgerVars
<1>4. CASE Signal \/ Joined \/ Crash \/ Restart
  BY <1>4 DEF Signal, Joined, Crash, Restart, ledgerVars
<1>5. CASE Ended \/ UNCHANGED vars
  BY <1>5 DEF Ended, vars, ledgerVars
<1>6. CASE \E x \in Txids : Appear(x) /\ UNCHANGED <<pass, walk, processVars>>
  BY <1>6 DEF Appear
<1> QED BY <1>1, <1>2, <1>3, <1>4, <1>5, <1>6 DEF Next

LEMMA JudgeNext == WorkInv /\ FindingInv /\ JudgeInv /\ [Next]_vars => JudgeInv'
<1> SUFFICES ASSUME WorkInv, FindingInv, JudgeInv, [Next]_vars PROVE JudgeInv'
  OBVIOUS
<1>1. CASE VerifierStep
  BY <1>1, JudgeVerify DEF VerifierStep
<1>2. CASE OtherStep
  BY <1>2, JudgeSame, JudgeBegins DEF OtherStep
<1> QED BY <1>1, <1>2, OthersStep

LEMMA JudgeAlways == Spec => [](WorkInv /\ FindingInv /\ JudgeInv)
<1>1. Init => JudgeInv
  BY DEF Init, NoPass, JudgeInv
<1>2. FindingInv /\ [Next]_vars => FindingInv'
  BY FindingNext
<1> QED BY <1>1, <1>2, WorkInit, WorkNext, FindingInit, JudgeNext, PTL DEF Spec

\* Every write of the verifier is a step of Verdicts.
LEMMA VerifyImplements ==
    ASSUME WorkInv, FindingInv, JudgeInv, VerifyStep
    PROVE  Promise!Next \/ UNCHANGED Promise!vars
<1>1. /\ status \in [Transitions -> Statuses]
      /\ \A t \in pass.batch : status[t] = "unchecked" \/ (pass.pc = "report" /\ t = Item)
  BY DEF FindingInv, StatusInv, JudgeInv
<1>2. pass.pc \notin {"idle", "read"} =>
          /\ Item \in pass.batch /\ Item \in Transitions
          /\ TxidOf[Item] \in Txids /\ TxidOf[Item] # NoTxid
  BY ItemIn, Given
<1>3. ASSUME NEW r \in {"match", "mismatch", "missing", "btc_unknown", "not_applicable"},
             pass.pc \notin {"idle", "read", "report"}, SetResult(Item, r),
             anomalies' = anomalies, Promise!Justified(Item, r),
             r = "mismatch" => <<"commitment_mismatch", Item>> \in anomalies
      PROVE  Promise!Next
  <2>1. status[Item] = "unchecked"
    BY <1>1, <1>2, <1>3
  <2>2. status' = [status EXCEPT ![Item] = r]
    BY <1>3 DEF SetResult
  <2>3. Promise!Judge(Item, r)
    BY <1>2, <1>3, <2>1, <2>2 DEF Promise!Judge
  <2> QED BY <1>2, <1>3, <2>3 DEF Promise!Next
<1>4. CASE ReadBatch \/ FetchNone \/ FetchTx \/ CacheTx \/ AbortPass
  BY <1>4 DEF ReadBatch, FetchNone, FetchTx, CacheTx, AbortPass, ledgerVars, Promise!vars
<1>5. CASE SkipIssuance
  <2>1. /\ pass.pc = "fetch" /\ Item \in Issuances /\ SetResult(Item, "not_applicable")
        /\ anomalies' = anomalies
    BY <1>5 DEF SkipIssuance
  <2>2. Promise!Justified(Item, "not_applicable")
    BY <2>1 DEF Promise!Justified
  <2> QED BY <1>3, <2>1, <2>2
<1>6. CASE RecordMismatch
  <2> DEFINE r == Verdict(Expected[Item], FindCommitment(TxidOf[Item]))
  <2>1. /\ pass.pc = "judge" /\ r = "mismatch" /\ status' = status
        /\ anomalies' = anomalies \cup {<<"commitment_mismatch", Item>>}
    BY <1>6 DEF RecordMismatch
  <2>2. Item \notin Issuances
    BY <2>1 DEF WorkInv, BatchInv
  <2>3. Promise!Justified(Item, "mismatch")
    BY <1>2, <2>1, <2>2, VerdictJustified
  <2>4. status[Item] = "unchecked"
    BY <1>1, <1>2, <2>1
  <2>5. Promise!ReportMismatch(Item)
    BY <2>1, <2>3, <2>4 DEF Promise!ReportMismatch
  <2> QED BY <1>2, <2>1, <2>5 DEF Promise!Next
<1>7. CASE Settle
  <2>1. PICK r : r = Verdict(Expected[Item], FindCommitment(TxidOf[Item]))
    OBVIOUS
  <2>2. /\ pass.pc \in {"judge", "settle"} /\ SetResult(Item, r) /\ anomalies' = anomalies
        /\ r = "mismatch" => pass.pc = "settle"
    BY <1>7, <2>1 DEF Settle
  <2>3. Item \notin Issuances
    BY <2>2 DEF WorkInv, BatchInv
  <2>4. r = "unchecked" \/ (r \in {"match", "mismatch", "missing"} /\ Promise!Justified(Item, r))
    BY <1>2, <2>1, <2>2, <2>3, VerdictJustified
  <2>5. r = "mismatch" => <<"commitment_mismatch", Item>> \in anomalies
    BY <2>2 DEF FindingInv, SettleInv
  <2>6. CASE r = "unchecked"
    <3>1. status[Item] = "unchecked" /\ status' = [status EXCEPT ![Item] = "unchecked"]
      BY <1>1, <1>2, <2>2, <2>6 DEF SetResult
    <3>2. status' = status
      BY <1>1, <3>1
    <3> QED BY <2>2, <3>2 DEF Promise!vars
  <2>7. CASE r # "unchecked"
    BY <1>3, <2>2, <2>4, <2>5, <2>7
  <2> QED BY <2>6, <2>7
<1>8. CASE SetUnknown
  <2>1. pass.pc = "unknown" /\ SetResult(Item, "btc_unknown") /\ anomalies' = anomalies
    BY <1>8 DEF SetUnknown
  <2>2. Item \notin Issuances
    BY <2>1 DEF WorkInv, BatchInv
  <2>3. Promise!Justified(Item, "btc_unknown")
    BY <2>2 DEF Promise!Justified
  <2> QED BY <1>3, <2>1, <2>3
<1>9. CASE RecordUnknown
  <2>1. /\ pass.pc = "report" /\ status' = status
        /\ anomalies' = anomalies \cup {<<"unknown_btc_tx", Item>>}
    BY <1>9 DEF RecordUnknown
  <2>2. status[Item] = "btc_unknown"
    BY <2>1 DEF JudgeInv
  <2>3. Promise!ReportUnknown(Item)
    BY <2>1, <2>2 DEF Promise!ReportUnknown
  <2> QED BY <1>2, <2>1, <2>3 DEF Promise!Next
<1> QED BY <1>4, <1>5, <1>6, <1>7, <1>8, <1>9 DEF VerifyStep

\* verify.rs: the verifier with its passes, requests, failures and restarts
\* implements Verdicts: a transition is judged once and justly, a mismatch is
\* known before it is the verdict, and no finding is unjustified or withdrawn.
THEOREM VerdictsImplemented == Spec => ImplementsVerdicts
<1>1. Init => Promise!Init
  BY DEF Init, LedgerInit, Promise!Init
<1>2. WorkInv /\ FindingInv /\ JudgeInv /\ [Next]_vars => [Promise!Next]_(Promise!vars)
  <2> SUFFICES ASSUME WorkInv, FindingInv, JudgeInv, [Next]_vars
               PROVE  Promise!Next \/ UNCHANGED Promise!vars
    OBVIOUS
  <2>1. CASE VerifierStep
    BY <2>1, VerifyImplements DEF VerifierStep
  <2>2. CASE OtherStep
    BY <2>2 DEF OtherStep, Promise!vars
  <2> QED BY <2>1, <2>2, OthersStep
<1> QED BY <1>1, <1>2, JudgeAlways, PTL DEF Spec, ImplementsVerdicts, Promise!Spec

-----------------------------------------------------------------------------
(* Findings that are lost *)

\* A pass is under way only in a round of the verifier, and a round only in a
\* running process: nothing but a failure or a crash drops a pass.
ActiveInv ==
    /\ pass.pc # "idle" => loop["verifier"] = "round"
    /\ main \notin {"running", "draining"} => \A w \in Names : loop[w] \in {"off", "stopped"}

LEMMA ActiveNext == LoopInv /\ ActiveInv /\ [Next]_vars => ActiveInv'
<1> SUFFICES ASSUME LoopInv, ActiveInv, [Next]_vars PROVE ActiveInv'
  OBVIOUS
<1>1. loop \in [Names -> {"off", "init", "round", "sleep", "stopped"}] /\ "verifier" \in Names
  BY DEF LoopInv, Names
<1>2. ASSUME NEW w \in Names, loop[w] \notin {"off", "stopped"}
      PROVE  main \in {"running", "draining"}
  BY <1>2 DEF ActiveInv
<1>3. CASE Bootstrap
  <2>1. /\ main' = "running" /\ loop' = [w \in Names |-> Spawned(w)]
        /\ pass' = IF "verifier" \in Enabled THEN NewPass ELSE NoPass
    BY <1>3 DEF Bootstrap
  <2>2. "verifier" \in Enabled => loop'["verifier"] = "round"
    BY <1>1, <2>1 DEF Spawned
  <2> QED BY <2>1, <2>2 DEF ActiveInv, NoPass
<1>4. CASE BootstrapFails
  BY <1>4 DEF BootstrapFails, ActiveInv
<1>5. CASE InitStream \/ ScanRound
  <2>1. PICK l : loop' = [loop EXCEPT !["scanner"] = l]
    BY <1>5 DEF InitStream, ScanRound
  <2>2. loop["scanner"] \in {"init", "round"} /\ pass' = pass /\ main' = main
    BY <1>5 DEF InitStream, ScanRound
  <2>3. main \in {"running", "draining"} /\ loop'["verifier"] = loop["verifier"]
    BY <1>1, <1>2, <2>1, <2>2 DEF Names
  <2> QED BY <2>2, <2>3 DEF ActiveInv
<1>6. CASE VerifierStep
  <2>1. /\ loop["verifier"] = "round" /\ main' = main
        /\ loop' = IF pass'.pc = "idle" THEN [loop EXCEPT !["verifier"] = "sleep"] ELSE loop
    BY <1>6 DEF VerifierStep
  <2>2. main' \in {"running", "draining"}
    BY <1>1, <1>2, <2>1
  <2> QED BY <2>1, <2>2 DEF ActiveInv
<1>7. CASE BackfillerStep
  <2>1. /\ loop["backfill"] = "round" /\ main' = main /\ pass' = pass
        /\ loop' = IF walk'.pc = "idle" THEN [loop EXCEPT !["backfill"] = "sleep"] ELSE loop
    BY <1>7 DEF BackfillerStep
  <2>2. main' \in {"running", "draining"} /\ loop'["verifier"] = loop["verifier"]
    BY <1>1, <1>2, <2>1 DEF Names
  <2> QED BY <2>1, <2>2 DEF ActiveInv
<1>8. CASE \E w \in Names : Sleeper(w)
  <2>1. PICK w \in Names : Sleeper(w)
    BY <1>8
  <2>2. PICK l \in {"stopped", "round"} : loop' = [loop EXCEPT ![w] = l]
    BY <2>1 DEF Sleeper, Timer, Changed
  <2>3. loop[w] = "sleep" /\ main' = main
    BY <2>1 DEF Sleeper, Timer, Changed
  <2>4. main' \in {"running", "draining"}
    BY <1>2, <2>3
  <2>5. CASE w = "verifier"
    <3>1. pass.pc = "idle"
      BY <2>3, <2>5 DEF ActiveInv
    <3>2. pass' = pass \/ (pass' = NewPass /\ loop' = [loop EXCEPT ![w] = "round"])
      BY <2>1 DEF Sleeper, Timer, Changed
    <3> QED BY <1>1, <2>4, <2>5, <3>1, <3>2 DEF ActiveInv
  <2>6. CASE w # "verifier"
    <3>1. pass' = pass /\ loop'["verifier"] = loop["verifier"]
      BY <1>1, <2>1, <2>2, <2>6 DEF Sleeper, Timer, Changed
    <3> QED BY <2>4, <3>1 DEF ActiveInv
  <2> QED BY <2>5, <2>6
<1>9. CASE Signal \/ Joined \/ Restart
  BY <1>9 DEF Signal, Joined, Restart, ActiveInv
<1>10. CASE Crash
  BY <1>10 DEF Crash, Off, NoPass, ActiveInv
<1>11. CASE Ended \/ UNCHANGED vars
  BY <1>11 DEF Ended, vars, processVars, ActiveInv
<1>12. CASE \E x \in Txids : Appear(x) /\ UNCHANGED <<pass, walk, processVars>>
  BY <1>12 DEF processVars, ActiveInv
<1> QED
  BY <1>3, <1>4, <1>5, <1>6, <1>7, <1>8, <1>9, <1>10, <1>11, <1>12 DEF Next

\* The bound, when a step loses nothing, and when a failure loses one.
LEMMA LossBound ==
    ASSUME LossesBounded, faults \in Nat, faults' \in Nat, NEW i,
           \/ LostFindings' \subseteq LostFindings /\ faults <= faults'
           \/ LostFindings' \subseteq LostFindings \cup {i} /\ faults' = faults + 1
    PROVE  LossesBounded'
<1>1. IsFiniteSet(Transitions)
  BY LedgerAssumption
<1>2. LostFindings \subseteq Transitions
  BY DEF LostFindings
<1>3. IsFiniteSet(LostFindings)
  BY <1>1, <1>2, FS_Subset
<1>4. PICK L : L = LostFindings'
  OBVIOUS
<1>5. LostFindings \subseteq LostFindings \cup {i}
  OBVIOUS
<1>6. /\ IsFiniteSet(LostFindings \cup {i}) /\ Cardinality(LostFindings) \in Nat
      /\ Cardinality(LostFindings \cup {i}) <= Cardinality(LostFindings) + 1
      /\ Cardinality(LostFindings \cup {i}) \in Nat
  BY <1>3, FS_AddElement, FS_CardinalityType
<1>7. CASE L \subseteq LostFindings /\ faults <= faults'
  <2>1. IsFiniteSet(L) /\ Cardinality(L) <= Cardinality(LostFindings)
    BY <1>3, <1>7, FS_Subset
  <2>2. Cardinality(L) \in Nat
    BY <2>1, FS_CardinalityType
  <2>3. Cardinality(L) <= faults'
    BY <1>6, <1>7, <2>1, <2>2 DEF LossesBounded
  <2> QED BY <1>4, <2>3 DEF LossesBounded
<1>8. CASE L \subseteq LostFindings \cup {i} /\ faults' = faults + 1
  <2>1. IsFiniteSet(L) /\ Cardinality(L) <= Cardinality(LostFindings \cup {i})
    BY <1>6, <1>8, FS_Subset
  <2>2. Cardinality(L) \in Nat
    BY <2>1, FS_CardinalityType
  <2>3. Cardinality(L) <= faults'
    BY <1>6, <1>8, <2>1, <2>2 DEF LossesBounded
  <2> QED BY <1>4, <2>3 DEF LossesBounded
<1> QED BY <1>4, <1>7, <1>8

\* The faults are counted.
LEMMA FaultsGrow ==
    ASSUME WorkInv, [Next]_vars
    PROVE  /\ faults \in Nat /\ faults' \in Nat
           /\ faults' = faults \/ faults' = faults + 1
<1>1. faults \in Nat
  BY Given DEF WorkInv, TablesInv
<1>2. Fault \/ faults' = faults
  <2>1. CASE VerifierStep
    BY <2>1 DEF VerifierStep, VerifyStep, ReadBatch, SkipIssuance, FetchNone, FetchTx, CacheTx,
                RecordMismatch, Settle, SetUnknown, RecordUnknown, AbortPass, ledgerVars
  <2>2. CASE BackfillerStep
    BY <2>2 DEF BackfillerStep, BackfillStep, ReadPage, FetchFunding, LabelFunding,
                SkipFunding, PageFails, ledgerVars
  <2>3. CASE Bootstrap \/ BootstrapFails \/ InitStream \/ ScanRound
    BY <2>3 DEF Bootstrap, BootstrapFails, InitStream, ScanRound, ledgerVars
  <2>4. CASE \E w \in Names : Sleeper(w)
    BY <2>4 DEF Sleeper, Timer, Changed, ledgerVars
  <2>5. CASE Signal \/ Joined \/ Crash \/ Restart
    BY <2>5 DEF Signal, Joined, Crash, Restart, ledgerVars
  <2>6. CASE Ended \/ UNCHANGED vars
    BY <2>6 DEF Ended, vars, ledgerVars
  <2>7. CASE \E x \in Txids : Appear(x) /\ UNCHANGED <<pass, walk, processVars>>
    BY <2>7 DEF Appear
  <2> QED BY <2>1, <2>2, <2>3, <2>4, <2>5, <2>6, <2>7 DEF Next
<1> QED BY <1>1, <1>2 DEF Fault

\* A step that turns no transition unknown, with no finding under way.
LEMMA LostKept ==
    ASSUME pass.pc # "report", anomalies \subseteq anomalies',
           \A t \in Transitions : status'[t] = "btc_unknown" => status[t] = "btc_unknown"
    PROVE  LostFindings' \subseteq LostFindings
BY DEF LostFindings

LEMMA LostVerify ==
    ASSUME WorkInv, FindingInv, JudgeInv, VerifyStep
    PROVE  \/ LostFindings' \subseteq LostFindings
           \/ LostFindings' \subseteq LostFindings \cup {Item} /\ faults' = faults + 1
<1>1. PassInv /\ status \in [Transitions -> Statuses]
  BY DEF FindingInv, StatusInv
<1>2. ASSUME NEW r, r # "btc_unknown", status' = [status EXCEPT ![Item] = r]
      PROVE  \A t \in Transitions : status'[t] = "btc_unknown" => status[t] = "btc_unknown"
  BY <1>1, <1>2
<1>3. CASE ReadBatch \/ FetchNone \/ FetchTx \/ CacheTx \/ RecordMismatch
  <2>1. status' = status /\ anomalies \subseteq anomalies' /\ pass.pc # "report"
    BY <1>3 DEF ReadBatch, FetchNone, FetchTx, CacheTx, RecordMismatch, ledgerVars
  <2> QED BY <2>1, LostKept
<1>4. CASE SkipIssuance
  <2>1. /\ pass.pc # "report" /\ anomalies' = anomalies
        /\ status' = [status EXCEPT ![Item] = "not_applicable"]
    BY <1>4 DEF SkipIssuance, SetResult
  <2> QED BY <1>2, <2>1, LostKept
<1>5. CASE Settle
  <2>1. PICK r : r = Verdict(Expected[Item], FindCommitment(TxidOf[Item]))
    OBVIOUS
  <2>2. pass.pc # "report" /\ anomalies' = anomalies /\ status' = [status EXCEPT ![Item] = r]
    BY <1>5, <2>1 DEF Settle, SetResult
  <2>3. r # "btc_unknown"
    BY <2>1 DEF Verdict
  <2> QED BY <1>2, <2>2, <2>3, LostKept
<1>6. CASE SetUnknown
  <2>1. /\ pass.pc = "unknown" /\ anomalies' = anomalies /\ GoTo("report")
        /\ status' = [status EXCEPT ![Item] = "btc_unknown"]
    BY <1>6 DEF SetUnknown, SetResult
  <2>2. pass'.pc = "report" /\ pass'.batch = pass.batch /\ pass'.item = pass.item
    BY <1>1, <2>1, PassMoves
  <2>3. Item' = Item
    BY <2>2 DEF Item
  <2>4. ASSUME NEW t \in LostFindings' PROVE t \in LostFindings
    <3>1. /\ t \in Transitions /\ status'[t] = "btc_unknown" /\ t # Item
          /\ <<"unknown_btc_tx", t>> \notin anomalies
      BY <2>1, <2>2, <2>3, <2>4 DEF LostFindings
    <3>2. status[t] = "btc_unknown"
      BY <1>1, <2>1, <3>1
    <3> QED BY <2>1, <3>1, <3>2 DEF LostFindings
  <2> QED BY <2>4
<1>7. CASE RecordUnknown
  <2>1. /\ pass.pc = "report" /\ status' = status
        /\ anomalies' = anomalies \cup {<<"unknown_btc_tx", Item>>}
    BY <1>7 DEF RecordUnknown
  <2>2. ASSUME NEW t \in LostFindings' PROVE t \in LostFindings
    <3>1. /\ t \in Transitions /\ status[t] = "btc_unknown"
          /\ <<"unknown_btc_tx", t>> \notin anomalies'
      BY <2>1, <2>2 DEF LostFindings
    <3>2. t # Item /\ <<"unknown_btc_tx", t>> \notin anomalies
      BY <2>1, <3>1
    <3> QED BY <3>1, <3>2 DEF LostFindings
  <2> QED BY <2>2
<1>8. CASE AbortPass
  <2>1. UNCHANGED <<status, anomalies>>
    BY <1>8 DEF AbortPass
  <2>2. CASE pass.pc # "report"
    BY <2>1, <2>2, LostKept
  <2>3. CASE pass.pc = "report"
    <3>1. faults' = faults + 1
      BY <1>8, <2>3 DEF AbortPass, Fault
    <3>2. LostFindings' \subseteq LostFindings \cup {Item}
      BY <2>1 DEF LostFindings
    <3> QED BY <3>1, <3>2
  <2> QED BY <2>2, <2>3
<1> QED BY <1>3, <1>4, <1>5, <1>6, <1>7, <1>8 DEF VerifyStep

\* The steps of the others: one drops a pass only where none is under way, or
\* in a crash.
LEMMA LostOther ==
    ASSUME ActiveInv, [Next]_vars, OtherStep, ~VerifierStep
    PROVE  \/ LostFindings' \subseteq LostFindings
           \/ LostFindings' \subseteq LostFindings \cup {Item} /\ faults' = faults + 1
<1>1. UNCHANGED <<status, anomalies>>
  BY DEF OtherStep
<1>2. CASE pass' = pass
  <2>1. Item' = Item
    BY <1>2 DEF Item
  <2>2. LostFindings' = LostFindings
    BY <1>1, <1>2, <2>1 DEF LostFindings
  <2> QED BY <2>2
<1>3. CASE pass.pc = "idle"
  BY <1>1, <1>3, LostKept
<1>4. CASE Crash
  <2>1. faults' = faults + 1
    BY <1>4 DEF Crash, Fault
  <2>2. LostFindings' \subseteq LostFindings \cup {Item}
    BY <1>1 DEF LostFindings
  <2> QED BY <2>1, <2>2
<1>5. ASSUME pass.pc # "idle", pass' # pass PROVE Crash
  <2>1. loop["verifier"] = "round" /\ main \in {"running", "draining"}
    BY <1>5 DEF ActiveInv, Names
  <2>2. ~Bootstrap
    BY <2>1 DEF Bootstrap
  <2>3. ~(\E w \in Names : Sleeper(w))
    BY <1>5, <2>1 DEF Sleeper, Timer, Changed
  <2>4. ~(BootstrapFails \/ InitStream \/ ScanRound \/ BackfillerStep \/ Signal \/ Joined
           \/ Restart \/ Ended \/ UNCHANGED vars)
    BY <1>5 DEF BootstrapFails, InitStream, ScanRound, BackfillerStep, Signal, Joined,
                Restart, Ended, vars
  <2>5. ~(\E x \in Txids : Appear(x) /\ UNCHANGED <<pass, walk, processVars>>)
    BY <1>5
  <2> QED BY <2>2, <2>3, <2>4, <2>5 DEF Next
<1> QED BY <1>2, <1>3, <1>4, <1>5

\* verify.rs:98-112: the findings of unknown transactions that are missing are
\* never more than the failures and crashes there were.
THEOREM LossesAreBounded == Spec => []LossesBounded
<1>1. Init => LossesBounded /\ ActiveInv
  <2> SUFFICES ASSUME Init PROVE LossesBounded /\ ActiveInv
    OBVIOUS
  <2>1. LostFindings = {} /\ faults = 0
    BY DEF Init, LedgerInit, LostFindings
  <2>2. LossesBounded
    BY <2>1, FS_EmptySet DEF LossesBounded
  <2> QED BY <2>2 DEF Init, NoPass, Off, ActiveInv
<1>2. WorkInv /\ FindingInv /\ JudgeInv /\ LoopInv /\ ActiveInv /\ LossesBounded /\ [Next]_vars
          => LossesBounded'
  <2> SUFFICES ASSUME WorkInv, FindingInv, JudgeInv, LoopInv, ActiveInv, LossesBounded,
                      [Next]_vars
               PROVE  LossesBounded'
    OBVIOUS
  <2>1. \/ LostFindings' \subseteq LostFindings
        \/ LostFindings' \subseteq LostFindings \cup {Item} /\ faults' = faults + 1
    <3>1. CASE VerifierStep
      BY <3>1, LostVerify DEF VerifierStep
    <3>2. CASE ~VerifierStep
      BY <3>2, OthersStep, LostOther
    <3> QED BY <3>1, <3>2
  <2>2. /\ faults \in Nat /\ faults' \in Nat
        /\ faults' = faults \/ faults' = faults + 1
    BY FaultsGrow
  <2>3. faults <= faults'
    BY <2>2
  <2> QED BY <2>1, <2>2, <2>3, LossBound
<1>3. LoopInv /\ [Next]_vars => LoopInv'
  BY LoopNext
<1> QED BY <1>1, <1>2, <1>3, LoopInit, ActiveNext, JudgeAlways, PTL DEF Spec
=============================================================================
