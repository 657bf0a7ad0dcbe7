--------------------------- MODULE ScannerSafety ---------------------------
(***************************************************************************)
(* Machine-checked proofs about Scanner, for every chain, every number of  *)
(* scanners and every configuration: types, and tables that are sound,     *)
(* complete up to the checkpoint, and permanent.                           *)
(***************************************************************************)
EXTENDS ScannerInv, TLAPS

-----------------------------------------------------------------------------
(* Type correctness *)

\* A block put together from a fork number and a body is a block.
LEMMA BlockType ==
    ASSUME NEW f \in Nat, NEW body \in Seq(Txs)
    PROVE  [fork |-> f, txs |-> body] \in Block
BY DEF Block

\* The chain and the rich indexer keep their types.
LEMMA ChainTypeStep ==
    ASSUME ChainTypeOK, ChainNext
    PROVE  ChainTypeOK'
<1> USE ChainAssumption DEF ChainTypeOK
<1>1. CASE \E body \in Bodies : Mine(body)
  <2>1. PICK body \in Bodies : Mine(body)
    BY <1>1
  <2>2. [fork |-> forks, txs |-> body] \in Block
    BY BlockType
  <2> QED BY <2>1, <2>2 DEF Mine, Heights
<1>2. CASE ReorgStep
  <2>1. PICK depth \in 1 .. MaxReorgDepth :
          \E bodies \in [tip - depth + 1 .. tip -> Bodies] : Reorg(depth, bodies)
    BY <1>2 DEF ReorgStep
  <2>2. PICK bodies \in [tip - depth + 1 .. tip -> Bodies] : Reorg(depth, bodies)
    BY <2>1
  <2>3. \A h \in tip - depth + 1 .. tip : [fork |-> forks + 1, txs |-> bodies[h]] \in Block
    <3> TAKE h \in tip - depth + 1 .. tip
    <3>1. bodies[h] \in Seq(Txs) /\ forks + 1 \in Nat
      OBVIOUS
    <3> QED BY <3>1, BlockType
  <2>4. chain' \in [Heights -> Block]
    BY <2>2, <2>3 DEF Reorg
  <2> QED BY <2>2, <2>4 DEF Reorg
<1>3. CASE IndexerAdvance
  BY <1>3 DEF IndexerAdvance, Heights
<1>4. CASE IndexerRollback
  BY <1>4 DEF IndexerRollback
<1> QED BY <1>1, <1>2, <1>3, <1>4 DEF ChainNext

\* Typing of the tables alone.
TablesTypeOK ==
    /\ checkpoint \in Int /\ cpFork \in Int
    /\ progress \in [tip : Int, target : Int]
    /\ lastError \in {"none", "refused", "transport"}
    /\ DOMAIN created \subseteq Cells
    /\ \A c \in DOMAIN created : created[c] \in Place
    /\ DOMAIN consumed \subseteq DOMAIN created
    /\ DOMAIN transitions \subseteq Txs
    /\ DOMAIN blocks \subseteq Nat

\* Typing of the locals of one scanner.
LocalsTypeOK(s) ==
    /\ JobTypeOK(job[s])
    /\ pc[s] = "check" => job[s].tip - ReorgLag \in Nat
    /\ pc[s] = "process" => HitBlocks(job[s].hits) \subseteq DOMAIN job[s].headers

\* Ending a round keeps the locals well-typed.
LEMMA EmptyJobType == JobTypeOK(EmptyJob)
BY DEF JobTypeOK, EmptyJob, NoRows, NULL

\* What a lock search returns.
LEMMA SearchType ==
    ASSUME ChainTypeOK, NEW lock \in LockKinds, NEW lo \in Nat, NEW hi \in Int
    PROVE  Search(lock, lo, hi) \subseteq Hit
<1> SUFFICES ASSUME NEW m \in Search(lock, lo, hi)
             PROVE  m \in Hit
  OBVIOUS
<1>1. PICK h \in {k \in lo .. hi : k <= idxTip} :
        m \in {[block |-> h, index |-> i, tx |-> idx[h].txs[i], lock |-> lock] :
                i \in {k \in DOMAIN idx[h].txs : Touches(idx[h].txs[k], lock)}}
  BY DEF Search
<1>2. h \in Heights /\ h \in Nat
  BY ChainAssumption DEF ChainTypeOK, Heights
<1>3. idx[h].txs \in Seq(Txs)
  BY <1>2 DEF ChainTypeOK, Block
<1>4. PICK i \in DOMAIN idx[h].txs :
        m = [block |-> h, index |-> i, tx |-> idx[h].txs[i], lock |-> lock]
  BY <1>1
<1>5. i \in Nat /\ idx[h].txs[i] \in Txs
  BY <1>3
<1> QED BY <1>2, <1>4, <1>5 DEF Hit


\* Where backfill_input anchors a row.
LEMMA BackfillRowType ==
    ASSUME ChainTypeOK, NEW c \in Cells
    PROVE  BackfillRow(c) \in Place
<1>1. CASE OnNodeChain(c)
  <2> DEFINE h == CHOOSE h \in 0 .. tip : \E i \in DOMAIN chain[h].txs :
                      CreatedOnChainAt(c, h, i)
  <2>1. h \in 0 .. tip
    BY <1>1 DEF OnNodeChain
  <2>2. h \in Heights /\ h \in Nat
    BY <2>1, ChainAssumption DEF ChainTypeOK, Heights
  <2>3. chain[h].fork \in Nat
    BY <2>2 DEF ChainTypeOK, Block
  <2> QED BY <1>1, <2>2, <2>3 DEF BackfillRow, Place, UnknownTxIndex
<1>2. CASE ~ OnNodeChain(c)
  BY <1>2 DEF BackfillRow, Place, UnknownTxIndex, NULL
<1> QED BY <1>1, <1>2

\* process_transaction keeps the locals well-typed.
LEMMA ProcessType ==
    ASSUME TypeOK, NEW s \in Scanners, Process(s)
    PROVE  /\ JobTypeOK(job'[s])
           /\ HitBlocks(job'[s].hits) \subseteq DOMAIN job'[s].headers
<1> DEFINE j == job[s]
<1>0. /\ JobTypeOK(j) /\ DOMAIN job = Scanners
      /\ HitBlocks(j.hits) \subseteq DOMAIN j.headers
  BY DEF TypeOK, Process
<1>1. PICK m \in j.hits :
        \E gone \in SUBSET {c \in Gaps(j, FlaggedInputs(j.hits, m)) : ~ OnNodeChain(c)} :
            ProcessRecord(s, m, gone)
  BY DEF Process
<1>2. PICK gone \in SUBSET {c \in Gaps(j, FlaggedInputs(j.hits, m)) : ~ OnNodeChain(c)} :
          ProcessRecord(s, m, gone)
  BY <1>1
<1> DEFINE ins  == FlaggedInputs(j.hits, m)
           back == [c \in Gaps(j, ins) \ gone |-> BackfillRow(c)]
           cr   == Upsert(Upsert(j.created, back), NewCells(j, m))
           co   == Upsert(j.consumed, NewSpends(j, m, ins \ gone))
           tr   == Upsert(j.transitions, NewTransitions(j, m, ins \ gone))
<1>3. job'[s] = [j EXCEPT !.hits = @ \ SameRecord(j.hits, m),
                          !.created = cr, !.consumed = co, !.transitions = tr]
  BY <1>0, <1>2 DEF ProcessRecord
<1>4. m \in Hit /\ ins \subseteq Cells /\ ClassifyOutputs(m.tx) \subseteq Cells
  BY <1>0, BodyAssumption DEF JobTypeOK, FlaggedInputs, ClassifyOutputs, Hit
<1>5. RecordPlace(j, m) \in Place
  BY <1>0, <1>4 DEF JobTypeOK, RecordPlace, Place, Hit, HitBlocks
<1>6. DOMAIN cr \subseteq Cells /\ \A c \in DOMAIN cr : cr[c] \in Place
  <2>1. \A c \in DOMAIN back : c \in Cells /\ back[c] \in Place
    BY <1>4, BackfillRowType DEF TypeOK, Gaps
  <2>2. \A c \in DOMAIN NewCells(j, m) : c \in Cells /\ NewCells(j, m)[c] \in Place
    BY <1>4, <1>5 DEF NewCells
  <2>3. DOMAIN Upsert(j.created, back) \subseteq Cells
        /\ \A c \in DOMAIN Upsert(j.created, back) : Upsert(j.created, back)[c] \in Place
    BY <1>0, <2>1 DEF JobTypeOK, Upsert
  <2> QED BY <2>2, <2>3 DEF Upsert
<1>7. DOMAIN co \subseteq Cells
  BY <1>0, <1>4 DEF JobTypeOK, NewSpends, Upsert
<1>8. DOMAIN tr \subseteq Txs
  BY <1>0, <1>4 DEF JobTypeOK, NewTransitions, Hit, Upsert
<1> HIDE DEF cr, co, tr
<1>9. JobTypeOK(job'[s])
  BY <1>0, <1>3, <1>6, <1>7, <1>8 DEF JobTypeOK, EmptyJob
<1>10. HitBlocks(job'[s].hits) \subseteq HitBlocks(j.hits) /\ job'[s].headers = j.headers
  BY <1>0, <1>3 DEF JobTypeOK, EmptyJob, HitBlocks
<1> QED BY <1>0, <1>9, <1>10

\* A step of s that keeps its own locals, the tables and the fault count
\* well-typed, and leaves the rest alone, keeps everything well-typed.
LEMMA TypeFromParts ==
    ASSUME TypeOK, NEW s \in Scanners, UNCHANGED chainVars,
           TablesTypeOK', faults' \in 0 .. MaxFaults,
           DOMAIN job' = Scanners, pc' \in [Scanners -> PcLabels],
           \A r \in Scanners \ {s} : job'[r] = job[r] /\ pc'[r] = pc[r],
           LocalsTypeOK(s)'
    PROVE  TypeOK'
<1>1. ChainTypeOK'
  BY DEF TypeOK, ChainTypeOK, chainVars
<1>2. \A r \in Scanners : LocalsTypeOK(r)'
  <2> TAKE r \in Scanners
  <2>1. CASE r = s
    BY <2>1
  <2>2. CASE r # s
    BY <2>2 DEF TypeOK, LocalsTypeOK
  <2> QED BY <2>1, <2>2
<1> QED BY <1>1, <1>2 DEF TypeOK, TablesTypeOK, LocalsTypeOK

\* Leaving the database alone keeps the tables well-typed.
LEMMA TablesUnchangedType ==
    ASSUME TypeOK, UNCHANGED dbVars
    PROVE  TablesTypeOK'
BY DEF TypeOK, TablesTypeOK, dbVars, streamVars, factVars

\* Ending a round.
LEMMA EndRoundType ==
    ASSUME TypeOK, NEW s \in Scanners, EndRound(s)
    PROVE  /\ DOMAIN job' = Scanners /\ pc' \in [Scanners -> PcLabels]
           /\ \A r \in Scanners \ {s} : job'[r] = job[r] /\ pc'[r] = pc[r]
           /\ LocalsTypeOK(s)'
<1>1. job'[s] = EmptyJob /\ pc'[s] = "idle" /\ DOMAIN job' = Scanners
  BY DEF EndRound, Goto, TypeOK
<1>2. LocalsTypeOK(s)'
  BY <1>1, EmptyJobType DEF LocalsTypeOK
<1> QED BY <1>1, <1>2 DEF EndRound, Goto, TypeOK, PcLabels

\* Every step of a scanner keeps the types.
LEMMA StepType ==
    ASSUME TypeOK, NEW s \in Scanners,
           Step(s) \/ TransportError(s) \/ Crash(s)
    PROVE  TypeOK'
<1> DEFINE j == job[s]
<1>0. /\ JobTypeOK(j) /\ DOMAIN job = Scanners /\ pc \in [Scanners -> PcLabels]
      /\ TablesTypeOK /\ ChainTypeOK /\ faults \in 0 .. MaxFaults
  BY DEF TypeOK, TablesTypeOK
<1> USE ScannerAssumption
<1>1. CASE InitStream(s)
  <2>1. TablesTypeOK'
    BY <1>0, <1>1 DEF InitStream, TablesTypeOK, factVars, InitialCheckpoint
  <2>2. job'[s] = [j EXCEPT !.cp = checkpoint', !.cpFork = cpFork] /\ DOMAIN job' = Scanners
    BY <1>0, <1>1 DEF InitStream
  <2>3. LocalsTypeOK(s)'
    BY <1>0, <1>1, <2>1, <2>2 DEF InitStream, Goto, LocalsTypeOK, JobTypeOK, EmptyJob, TablesTypeOK
  <2> QED BY <1>0, <1>1, <2>1, <2>2, <2>3, TypeFromParts DEF InitStream, Goto, PcLabels
<1>2. CASE GetNodeTip(s)
  <2>1. TablesTypeOK'
    BY <1>2, TablesUnchangedType DEF GetNodeTip
  <2>2. job'[s] = [j EXCEPT !.tip = tip] /\ DOMAIN job' = Scanners
    BY <1>0, <1>2 DEF GetNodeTip
  <2>3. LocalsTypeOK(s)'
    BY <1>0, <1>2, <2>2, SMTT(30) DEF GetNodeTip, Goto, LocalsTypeOK, JobTypeOK, EmptyJob, ChainTypeOK, Heights
  <2> QED BY <1>0, <1>2, <2>1, <2>2, <2>3, TypeFromParts DEF GetNodeTip, Goto, PcLabels
<1>3. CASE GetIndexerTip(s)
  <2>1. TablesTypeOK'
    BY <1>3, TablesUnchangedType DEF GetIndexerTip
  <2>2. job'[s] = [j EXCEPT !.tip = SyncedTip(j.tip)] /\ DOMAIN job' = Scanners
    BY <1>0, <1>3 DEF GetIndexerTip
  <2>3. SyncedTip(j.tip) \in Int
    BY <1>0 DEF SyncedTip, JobTypeOK, ChainTypeOK
  <2>4. LocalsTypeOK(s)'
    BY <1>0, <1>3, <2>2, <2>3 DEF GetIndexerTip, Goto, LocalsTypeOK, JobTypeOK, EmptyJob
  <2> QED BY <1>0, <1>3, <2>1, <2>2, <2>4, TypeFromParts DEF GetIndexerTip, Goto, PcLabels
<1>4. CASE RecordProgress(s)
  <2>1. TablesTypeOK'
    BY <1>0, <1>4 DEF RecordProgress, TablesTypeOK, factVars, JobTypeOK
  <2>2. CASE EndRound(s)
    BY <1>0, <1>4, <2>1, <2>2, EndRoundType, TypeFromParts DEF RecordProgress
  <2>3. CASE HasSafeTarget(j.tip) /\ Goto(s, "check") /\ UNCHANGED job
    <3>1. LocalsTypeOK(s)'
      BY <1>0, <1>4, <2>3 DEF RecordProgress, Goto, LocalsTypeOK, JobTypeOK, HasSafeTarget,
                              EndRound
    <3> QED BY <1>0, <1>4, <2>1, <2>3, <3>1, TypeFromParts DEF RecordProgress, Goto, PcLabels
  <2> QED BY <1>4, <2>2, <2>3 DEF RecordProgress
<1>5. CASE CheckCheckpoint(s)
  <2>1. TablesTypeOK'
    BY <1>5, TablesUnchangedType DEF CheckCheckpoint
  <2>2. /\ job'[s] = [j EXCEPT !.from = RangeFrom(j.cp), !.to = RangeTo(j.cp, j.tip - ReorgLag)]
        /\ DOMAIN job' = Scanners
    BY <1>0, <1>5 DEF CheckCheckpoint
  <2>3. RangeFrom(j.cp) \in Nat /\ RangeTo(j.cp, j.tip - ReorgLag) \in Nat
    <3>1. j.tip - ReorgLag \in Nat
      BY <1>5 DEF CheckCheckpoint, TypeOK
    <3> QED BY <1>0, <3>1 DEF RangeFrom, RangeTo, JobTypeOK
  <2>4. LocalsTypeOK(s)'
    BY <1>0, <1>5, <2>2, <2>3 DEF CheckCheckpoint, Goto, LocalsTypeOK, JobTypeOK, EmptyJob
  <2> QED BY <1>0, <1>5, <2>1, <2>2, <2>4, TypeFromParts DEF CheckCheckpoint, Goto, PcLabels
<1>6. ASSUME NEW at \in PcLabels, NEW lock \in LockKinds, NEW next \in PcLabels \ {"check", "process"},
             Collect(s, at, lock, next)
      PROVE  TypeOK'
  <2>1. TablesTypeOK'
    BY <1>6, TablesUnchangedType DEF Collect
  <2>2. /\ job'[s] = [j EXCEPT !.hits = @ \cup Search(lock, j.from, j.to)]
        /\ DOMAIN job' = Scanners
    BY <1>0, <1>6 DEF Collect
  <2>3. Search(lock, j.from, j.to) \subseteq Hit
    BY <1>0, SearchType DEF JobTypeOK
  <2>4. LocalsTypeOK(s)'
    BY <1>0, <1>6, <2>2, <2>3 DEF Collect, Goto, LocalsTypeOK, JobTypeOK, EmptyJob
  <2> QED BY <1>0, <1>6, <2>1, <2>2, <2>4, TypeFromParts DEF Collect, Goto
<1>7. CASE FetchHeaders(s)
  <2> DEFINE hs == [h \in HitBlocks(j.hits) |-> chain[h].fork]
  <2>1. TablesTypeOK'
    BY <1>7, TablesUnchangedType DEF FetchHeaders
  <2>2. job'[s] = [j EXCEPT !.headers = hs] /\ DOMAIN job' = Scanners
    BY <1>0, <1>7 DEF FetchHeaders
  <2>3. \A h \in HitBlocks(j.hits) : h \in Nat /\ chain[h].fork \in Int
    <3> TAKE h \in HitBlocks(j.hits)
    <3>1. h \in Nat /\ h <= tip
      BY <1>0, <1>7 DEF FetchHeaders, HitBlocks, JobTypeOK, Hit
    <3>2. h \in Heights
      BY <1>0, <3>1, ChainAssumption DEF ChainTypeOK, Heights
    <3> QED BY <1>0, <3>1, <3>2 DEF ChainTypeOK, Block
  <2>4. DOMAIN hs = HitBlocks(j.hits) /\ \A h \in DOMAIN hs : h \in Nat /\ hs[h] \in Int
    BY <2>3
  <2> HIDE DEF hs
  <2>5. JobTypeOK(job'[s])
    BY <1>0, <2>2, <2>4 DEF JobTypeOK, EmptyJob
  <2>6. HitBlocks(job'[s].hits) \subseteq DOMAIN job'[s].headers
    BY <1>0, <2>2, <2>4 DEF JobTypeOK, EmptyJob
  <2> QED BY <1>0, <1>7, <2>1, <2>2, <2>5, <2>6, TypeFromParts
          DEF FetchHeaders, Goto, PcLabels, LocalsTypeOK
<1>8. CASE Process(s)
  <2>1. TablesTypeOK'
    BY <1>8, TablesUnchangedType DEF Process
  <2>2. LocalsTypeOK(s)'
    BY <1>8, ProcessType DEF LocalsTypeOK, Process
  <2>3. DOMAIN job' = Scanners /\ \A r \in Scanners \ {s} : job'[r] = job[r]
    BY <1>0, <1>8 DEF Process, ProcessRecord
  <2> QED BY <1>0, <1>8, <2>1, <2>2, <2>3, TypeFromParts DEF Process
<1>9. CASE CheckpointHeader(s)
  <2> DEFINE f == IF j.to \in DOMAIN j.headers THEN j.headers[j.to] ELSE chain[j.to].fork
  <2>1. TablesTypeOK'
    BY <1>9, TablesUnchangedType DEF CheckpointHeader
  <2>2. job'[s] = [j EXCEPT !.cpFork = f] /\ DOMAIN job' = Scanners
    BY <1>0, <1>9 DEF CheckpointHeader
  <2>3. f \in Int
    <3>1. CASE j.to \in DOMAIN j.headers
      BY <1>0, <3>1 DEF JobTypeOK
    <3>2. CASE j.to \notin DOMAIN j.headers
      <4>1. j.to \in Heights
        BY <1>0, <1>9, <3>2, ChainAssumption, SMTT(30) DEF CheckpointHeader, JobTypeOK, ChainTypeOK, Heights
      <4> QED BY <1>0, <3>2, <4>1 DEF ChainTypeOK, Block
    <3> QED BY <3>1, <3>2
  <2>4. LocalsTypeOK(s)'
    BY <1>0, <1>9, <2>2, <2>3 DEF CheckpointHeader, Goto, LocalsTypeOK, JobTypeOK, EmptyJob
  <2> QED BY <1>0, <1>9, <2>1, <2>2, <2>4, TypeFromParts DEF CheckpointHeader, Goto, PcLabels
<1>10. CASE ApplyBatch(s)
  <2>1. TablesTypeOK'
    BY <1>0, <1>10 DEF ApplyBatch, TablesTypeOK, JobTypeOK, Upsert, SpendsWithRow, BlockRows
  <2> QED BY <1>0, <1>10, <2>1, TypeFromParts DEF ApplyBatch, Goto, PcLabels, LocalsTypeOK
<1>11. CASE Prune(s)
  <2>1. TablesTypeOK'
    BY <1>0, <1>11 DEF Prune, TablesTypeOK, streamVars, factVars
  <2> QED BY <1>0, <1>11, <2>1, EndRoundType, TypeFromParts DEF Prune
<1>12. CASE RoundFails(s)
  <2>1. TablesTypeOK'
    BY <1>0, <1>12 DEF RoundFails, TablesTypeOK, factVars
  <2> QED BY <1>0, <1>12, <2>1, EndRoundType, TypeFromParts DEF RoundFails
<1>13. CASE TransportError(s)
  <2>1. TablesTypeOK'
    BY <1>0, <1>13 DEF TransportError, TablesTypeOK, factVars
  <2> QED BY <1>0, <1>13, <2>1, EndRoundType, TypeFromParts DEF TransportError
<1>14. CASE Crash(s)
  <2>1. TablesTypeOK'
    BY <1>14, TablesUnchangedType DEF Crash
  <2> QED BY <1>0, <1>14, <2>1, EndRoundType, TypeFromParts DEF Crash
<1> QED
  BY <1>1, <1>2, <1>3, <1>4, <1>5, <1>6, <1>7, <1>8, <1>9, <1>10, <1>11, <1>12, <1>13, <1>14
  DEF Step, CollectRgbpp, CollectBtcTime, PcLabels, LockKinds

\* The types hold in every reachable state.
THEOREM TypeCorrect == Spec => []TypeOK
<1>1. Init => TypeOK
  <2> SUFFICES ASSUME Init PROVE TypeOK
    OBVIOUS
  <2>1. [fork |-> 0, txs |-> Genesis] \in Block /\ Unmined \in Block
    <3>1. 0 \in Nat /\ <<>> \in Seq(Txs) /\ Genesis \in Seq(Txs)
      BY ChainAssumption
    <3> QED BY <3>1, BlockType DEF Unmined
  <2>2. ChainTypeOK
    BY <2>1, ChainAssumption DEF Init, ChainInit, ChainTypeOK, Heights
  <2>3. \A s \in Scanners : JobTypeOK(job[s]) /\ pc[s] = "idle"
    BY EmptyJobType DEF Init
  <2> QED BY <2>2, <2>3, ScannerAssumption DEF Init, TypeOK, NoRows, NULL, PcLabels
<1>2. TypeOK /\ [Next]_vars => TypeOK'
  <2> SUFFICES ASSUME TypeOK, [Next]_vars PROVE TypeOK'
    OBVIOUS
  <2>1. CASE World
    <3>1. ChainTypeOK'
      BY <2>1, ChainTypeStep DEF World, TypeOK
    <3> QED BY <2>1, <3>1 DEF World, TypeOK, dbVars, streamVars, factVars
  <2>2. CASE \E s \in Scanners : Step(s) \/ TransportError(s) \/ Crash(s)
    BY <2>2, StepType
  <2>3. CASE UNCHANGED vars
    BY <2>3 DEF vars, TypeOK, ChainTypeOK, chainVars, dbVars, streamVars, factVars
  <2> QED BY <2>1, <2>2, <2>3 DEF Next
<1> QED BY <1>1, <1>2, PTL DEF Spec

-----------------------------------------------------------------------------
(* What the rest assumes of the constants *)

USE ChainAssumption, ScannerAssumption

-----------------------------------------------------------------------------
(* Places on a valid chain *)

\* A transaction sits in one place only.
LEMMA SamePlace ==
    ASSUME ValidBranch(chain, tip), NEW t, NEW h1, NEW i1, NEW h2, NEW i2,
           PlacedAt(chain, tip, h1, i1, t), PlacedAt(chain, tip, h2, i2, t)
    PROVE  h1 = h2 /\ i1 = i2
BY DEF ValidBranch, PlacedAt

\* A cell is spent in one place only.
LEMMA SameSpender ==
    ASSUME ValidBranch(chain, tip), NEW t, NEW u, NEW h1, NEW i1, NEW h2, NEW i2,
           PlacedAt(chain, tip, h1, i1, t), PlacedAt(chain, tip, h2, i2, u),
           NEW c, c \in Inputs[t], c \in Inputs[u]
    PROVE  h1 = h2 /\ i1 = i2 /\ t = u
BY DEF ValidBranch, PlacedAt

\* A cell has one creating transaction.
LEMMA SameCreator ==
    ASSUME NEW t \in Txs, NEW u \in Txs, NEW c, c \in Outputs[t], c \in Outputs[u]
    PROVE  t = u
BY BodyAssumption

\* A transaction on the chain is a transaction.
LEMMA PlacedIsTx ==
    ASSUME ChainTypeOK, NEW h \in 0 .. tip, NEW i \in DOMAIN chain[h].txs
    PROVE  chain[h].txs[i] \in Txs /\ h \in Heights /\ i \in Nat
<1>1. h \in Heights
  BY DEF ChainTypeOK, Heights
<1>2. chain[h].txs \in Seq(Txs)
  BY <1>1 DEF ChainTypeOK, Block
<1> QED BY <1>1, <1>2

\* Two sound statements about where a cell was created agree.
LEMMA CreatedAgree ==
    ASSUME TypeOK, ValidBranch(chain, tip), NEW c, NEW p, NEW q,
           CreatedSound(c, p), CreatedSound(c, q)
    PROVE  p = q
<1>0. ChainTypeOK
  BY DEF TypeOK
<1>1. CASE /\ \E t \in Txs : c \in ClassifyOutputs(t) /\ CanonicalPlace(p, t)
           /\ \E t \in Txs : c \in ClassifyOutputs(t) /\ CanonicalPlace(q, t)
  <2>1. PICK t \in Txs : c \in Outputs[t] /\ CanonicalPlace(p, t)
    BY <1>1 DEF ClassifyOutputs
  <2>2. PICK u \in Txs : c \in Outputs[u] /\ CanonicalPlace(q, u)
    BY <1>1 DEF ClassifyOutputs
  <2>3. t = u
    BY <2>1, <2>2, SameCreator
  <2>4. p.block = q.block /\ p.index = q.index
    BY <2>1, <2>2, <2>3, SamePlace DEF CanonicalPlace
  <2> QED BY <2>4 DEF CreatedSound, Anchored
<1>2. ASSUME NEW x, NEW y, CanonicalPlace(x, y), y \in Txs, c \in Outputs[y],
             NEW z, BackfillPlace(z, c)
      PROVE  FALSE
  <2>1. PICK i \in DOMAIN chain[z.block].txs : c \in Outputs[chain[z.block].txs[i]]
    BY <1>2 DEF BackfillPlace
  <2>2. z.block \in 0 .. tip /\ z.block < StartBlock
    BY <1>0, <1>2 DEF BackfillPlace, FinalHeight, ChainTypeOK, Heights
  <2>3. chain[z.block].txs[i] = y
    BY <1>0, <1>2, <2>1, <2>2, PlacedIsTx, SameCreator
  <2>4. PlacedAt(chain, tip, z.block, i, y) /\ PlacedAt(chain, tip, x.block, x.index, y)
    BY <1>2, <2>1, <2>2, <2>3 DEF PlacedAt, CanonicalPlace
  <2> QED BY <1>2, <2>2, <2>4, SamePlace DEF CanonicalPlace
<1>3. CASE BackfillPlace(p, c) /\ BackfillPlace(q, c)
  <2>1. PICK i \in DOMAIN chain[p.block].txs : c \in Outputs[chain[p.block].txs[i]]
    BY <1>3 DEF BackfillPlace
  <2>2. PICK k \in DOMAIN chain[q.block].txs : c \in Outputs[chain[q.block].txs[k]]
    BY <1>3 DEF BackfillPlace
  <2>3. p.block \in 0 .. tip /\ q.block \in 0 .. tip
    BY <1>0, <1>3 DEF BackfillPlace, FinalHeight, ChainTypeOK, Heights
  <2>4. chain[p.block].txs[i] = chain[q.block].txs[k]
    BY <1>0, <2>1, <2>2, <2>3, PlacedIsTx, SameCreator
  <2>5. p.block = q.block
    BY <2>3, <2>4, SamePlace DEF PlacedAt
  <2> QED BY <1>3, <2>5 DEF CreatedSound, Anchored, BackfillPlace
<1> QED BY <1>1, <1>2, <1>3 DEF CreatedSound, ClassifyOutputs

\* Two sound statements about who spent a cell agree.
LEMMA ConsumedAgree ==
    ASSUME ValidBranch(chain, tip), NEW c, NEW r, NEW q,
           ConsumedSound(c, r), ConsumedSound(c, q)
    PROVE  r = q
<1>1. r.at.block = q.at.block /\ r.at.index = q.at.index /\ r.by = q.by
  BY SameSpender DEF ConsumedSound, CanonicalPlace
<1> QED BY <1>1 DEF ConsumedSound

\* Two sound transition rows of one transaction agree.
LEMMA TransitionAgree ==
    ASSUME ValidBranch(chain, tip), NEW t, NEW r, NEW q,
           TransitionSound(t, r), TransitionSound(t, q)
    PROVE  r = q
<1>1. r.at.block = q.at.block /\ r.at.index = q.at.index
  BY SamePlace DEF TransitionSound, CanonicalPlace
<1> QED BY <1>1 DEF TransitionSound

-----------------------------------------------------------------------------
(* The chain and the rich indexer *)

\* What is ReorgLag below the tip does not change any more.
Settled ==
    /\ tip' >= tip
    /\ \A h \in 0 .. FinalHeight : chain'[h] = chain[h]

\* A step of the chain or of the rich indexer keeps WorldInv, does not touch
\* settled blocks, and keeps the target of a running round settled.
LEMMA WorldStep ==
    ASSUME TypeOK, LagSuffices, WorldInv, ChainNext
    PROVE  /\ WorldInv'
           /\ Settled
           /\ \A j : j.tip \in Int /\ TargetSettled(j) => TargetSettled(j)'
<1>0. ChainTypeOK /\ tip \in Nat /\ tip <= MaxHeight /\ forks \in Nat /\ idxTip \in 0 .. tip
  BY DEF TypeOK, ChainTypeOK, Heights, WorldInv
<1>f. \A h \in 0 .. tip : chain[h].fork \in Nat /\ idx[h].fork \in Nat
  BY <1>0 DEF ChainTypeOK, Heights, Block
<1>1. CASE \E body \in Bodies : Mine(body)
  <2>1. PICK body \in Bodies : Mine(body)
    BY <1>1
  <2>2. \A h \in 0 .. tip : chain'[h] = chain[h]
    BY <1>0, <2>1 DEF Mine, ChainTypeOK, Heights
  <2>3. chain'[tip + 1].fork = forks
    BY <1>0, <2>1 DEF Mine, ChainTypeOK, Heights
  <2>4. tip' = tip + 1 /\ UNCHANGED <<forks, idx, idxTip>> /\ ValidBranch(chain, tip)'
    BY <2>1 DEF Mine
  <2>5. WorldInv'
    BY <1>0, <2>2, <2>3, <2>4 DEF WorldInv
  <2>6. Settled
    BY <1>0, <2>2, <2>4 DEF Settled, FinalHeight
  <2>7. \A j : j.tip \in Int /\ TargetSettled(j) => TargetSettled(j)'
    BY <1>0, <2>2, <2>4 DEF TargetSettled
  <2> QED BY <2>5, <2>6, <2>7
<1>2. CASE ReorgStep
  <2>1. PICK depth \in 1 .. MaxReorgDepth :
          \E bodies \in [tip - depth + 1 .. tip -> Bodies] : Reorg(depth, bodies)
    BY <1>2 DEF ReorgStep
  <2>2. PICK bodies \in [tip - depth + 1 .. tip -> Bodies] : Reorg(depth, bodies)
    BY <2>1
  <2>3. /\ depth \in Nat \ {0} /\ depth <= ReorgLag /\ depth <= tip
        /\ forks' = forks + 1
        /\ UNCHANGED <<tip, idx, idxTip>>
        /\ ValidBranch(chain, tip)'
    BY <2>2 DEF Reorg, LagSuffices
  <2>4. \A h \in 0 .. tip - depth : chain'[h] = chain[h]
    BY <1>0, <2>2, <2>3 DEF Reorg, Heights
  <2>5. \A h \in tip - depth + 1 .. tip : chain'[h].fork = forks + 1
    BY <1>0, <2>2, <2>3 DEF Reorg, Heights
  <2>6. WorldInv'
    <3>1. \A h \in 0 .. tip : chain'[h].fork <= forks'
      <4> TAKE h \in 0 .. tip
      <4>1. chain[h].fork <= forks /\ chain[h].fork \in Nat /\ forks \in Nat
        BY <1>0, <1>f DEF WorldInv
      <4>2. h \in 0 .. tip - depth \/ h \in tip - depth + 1 .. tip
        BY <1>0, <2>3
      <4>3. chain'[h].fork = chain[h].fork \/ chain'[h].fork = forks + 1
        BY <2>4, <2>5, <4>2
      <4> QED BY <2>3, <4>1, <4>3
    <3>2. \A h \in 0 .. idxTip' : idx'[h].fork <= forks'
      <4> SUFFICES ASSUME NEW h \in 0 .. idxTip PROVE idx[h].fork <= forks + 1
        BY <2>3
      <4>1. h \in 0 .. tip
        BY <1>0
      <4>2. idx[h].fork <= forks /\ idx[h].fork \in Nat /\ forks \in Nat
        BY <1>0, <1>f, <4>1 DEF WorldInv
      <4> QED BY <4>2
    <3>3. idx'[0] = chain'[0]
      BY <1>0, <2>3, <2>4 DEF WorldInv
    <3>4. ASSUME NEW h \in 0 .. idxTip, idx[h].fork = chain'[h].fork, NEW g \in 0 .. h
          PROVE  idx[g] = chain'[g]
      <4>1. h \in 0 .. tip - depth
        BY <1>0, <1>f, <2>3, <2>5, <3>4 DEF WorldInv
      <4>2. g \in 0 .. tip - depth /\ chain'[h] = chain[h] /\ chain'[g] = chain[g]
        BY <1>0, <2>3, <2>4, <4>1, SMTT(30)
      <4>3. idx[g] = chain[g]
        BY <3>4, <4>2 DEF WorldInv
      <4> QED BY <4>2, <4>3
    <3>5. \A h \in 0 .. idxTip - ReorgLag : idx[h] = chain'[h]
      BY <1>0, <2>3, <2>4 DEF WorldInv
    <3> QED BY <1>0, <2>3, <3>1, <3>2, <3>3, <3>4, <3>5 DEF WorldInv
  <2>7. Settled
    BY <1>0, <2>3, <2>4 DEF Settled, FinalHeight
  <2>8. \A j : j.tip \in Int /\ TargetSettled(j) => TargetSettled(j)'
    BY <1>0, <2>3, <2>4 DEF TargetSettled
  <2> QED BY <2>6, <2>7, <2>8
<1>3. CASE IndexerAdvance
  <2>1. /\ idxTip < tip /\ idx[idxTip] = chain[idxTip]
        /\ idxTip' = idxTip + 1
        /\ UNCHANGED <<chain, tip, forks>>
    BY <1>0, <1>3 DEF IndexerAdvance
  <2>2. \A h \in 0 .. idxTip : idx'[h] = chain[h] /\ idx[h] = chain[h]
    BY <1>0, <1>3, <2>1, SMTT(30) DEF IndexerAdvance, ChainTypeOK, Heights, WorldInv
  <2>3. idx'[idxTip + 1] = chain[idxTip + 1]
    BY <1>0, <1>3, <2>1 DEF IndexerAdvance, ChainTypeOK, Heights
  <2>4. \A h \in 0 .. idxTip + 1 : idx'[h] = chain[h]
    BY <1>0, <2>2, <2>3
  <2>5. WorldInv'
    BY <1>0, <2>1, <2>4 DEF WorldInv
  <2>6. Settled
    BY <1>0, <2>1 DEF Settled
  <2>7. \A j : j.tip \in Int /\ TargetSettled(j) => TargetSettled(j)'
    BY <1>0, <2>1, <2>4 DEF TargetSettled
  <2> QED BY <2>5, <2>6, <2>7
<1>4. CASE IndexerRollback
  <2>1. /\ idxTip > 0 /\ idx[idxTip] # chain[idxTip]
        /\ idxTip' = idxTip - 1
        /\ UNCHANGED <<chain, tip, forks, idx>>
    BY <1>4 DEF IndexerRollback
  <2>2. WorldInv'
    BY <1>0, <2>1 DEF WorldInv
  <2>3. Settled
    BY <1>0, <2>1 DEF Settled
  <2>4. \A j : j.tip \in Int /\ TargetSettled(j) => TargetSettled(j)'
    BY <1>0, <2>1 DEF TargetSettled
  <2> QED BY <2>2, <2>3, <2>4
<1> QED BY <1>1, <1>2, <1>3, <1>4 DEF ChainNext

-----------------------------------------------------------------------------
(* What a step of the chain leaves true of the tables and of a round *)

\* Settled places stay where they are.
LEMMA PlacesStable ==
    ASSUME ChainTypeOK, ChainTypeOK', Settled
    PROVE  /\ \A h \in 0 .. FinalHeight : \A i : PlaceAt(h, i)' = PlaceAt(h, i)
           /\ \A h \in 0 .. FinalHeight : \A i, t :
                 PlacedAt(chain, tip, h, i, t) => PlacedAt(chain, tip, h, i, t)'
           /\ \A p, t : CanonicalPlace(p, t) => CanonicalPlace(p, t)'
           /\ \A p, c : BackfillPlace(p, c) => BackfillPlace(p, c)'
           /\ FinalHeight' \in Int /\ FinalHeight \in Int /\ FinalHeight' >= FinalHeight
<1>0. FinalHeight \in Int /\ FinalHeight' \in Int /\ FinalHeight <= FinalHeight' /\ FinalHeight <= tip
  <2>1. tip \in Int /\ tip' \in Int
    BY DEF ChainTypeOK, Heights
  <2>2. tip <= tip' /\ ReorgLag \in Int
    BY <2>1 DEF Settled
  <2>3. \A a, b, c \in Int : a <= b => a - c <= b - c
    OBVIOUS
  <2>4. FinalHeight = tip - ReorgLag /\ FinalHeight' = tip' - ReorgLag
    BY DEF FinalHeight
  <2>5. FinalHeight \in Int /\ FinalHeight' \in Int /\ FinalHeight <= tip
    BY <2>1, <2>2, <2>4
  <2>6. tip - ReorgLag <= tip' - ReorgLag
    BY <2>1, <2>2, <2>3, Zenon
  <2> QED BY <2>4, <2>5, <2>6
<1>1. \A h \in 0 .. FinalHeight : \A i : PlaceAt(h, i)' = PlaceAt(h, i)
  BY DEF PlaceAt, Settled
<1>2. \A h \in 0 .. FinalHeight : \A i, t :
         PlacedAt(chain, tip, h, i, t) => PlacedAt(chain, tip, h, i, t)'
  <2> SUFFICES ASSUME NEW h \in 0 .. FinalHeight, NEW i, NEW t,
                      PlacedAt(chain, tip, h, i, t)
               PROVE  PlacedAt(chain, tip, h, i, t)'
    OBVIOUS
  <2>1. tip \in Int /\ tip' \in Int /\ tip' >= tip /\ chain'[h] = chain[h]
    BY DEF Settled, ChainTypeOK, Heights
  <2> QED BY <1>0, <2>1 DEF PlacedAt
<1>3. \A p, t : CanonicalPlace(p, t) => CanonicalPlace(p, t)'
  BY <1>0, <1>2 DEF CanonicalPlace, Settled
<1>4. \A p, c : BackfillPlace(p, c) => BackfillPlace(p, c)'
  BY <1>0 DEF BackfillPlace, Settled
<1> QED BY <1>0, <1>1, <1>2, <1>3, <1>4

\* Sound rows stay sound.
LEMMA RowsStable ==
    ASSUME ChainTypeOK, ChainTypeOK', Settled
    PROVE  /\ \A c, p : CreatedSound(c, p) => CreatedSound(c, p)'
           /\ \A c, r : ConsumedSound(c, r) => ConsumedSound(c, r)'
           /\ \A t, r : TransitionSound(t, r) => TransitionSound(t, r)'
<1>1. \A c, p : CreatedSound(c, p) => CreatedSound(c, p)'
  <2> SUFFICES ASSUME NEW c, NEW p, CreatedSound(c, p) PROVE CreatedSound(c, p)'
    OBVIOUS
  <2>1. p.block \in 0 .. FinalHeight
    BY DEF CreatedSound, CanonicalPlace, BackfillPlace
  <2>2. PlaceAt(p.block, p.index)' = PlaceAt(p.block, p.index)
    BY <2>1, PlacesStable
  <2> QED BY <2>2, PlacesStable DEF CreatedSound, Anchored
<1>2. \A c, r : ConsumedSound(c, r) => ConsumedSound(c, r)'
  <2> SUFFICES ASSUME NEW c, NEW r, ConsumedSound(c, r) PROVE ConsumedSound(c, r)'
    OBVIOUS
  <2>1. r.at.block \in 0 .. FinalHeight
    BY DEF ConsumedSound, CanonicalPlace
  <2>2. PlaceAt(r.at.block, r.at.index)' = PlaceAt(r.at.block, r.at.index)
    BY <2>1, PlacesStable
  <2> QED BY <2>2, PlacesStable DEF ConsumedSound
<1>3. \A t, r : TransitionSound(t, r) => TransitionSound(t, r)'
  <2> SUFFICES ASSUME NEW t, NEW r, TransitionSound(t, r) PROVE TransitionSound(t, r)'
    OBVIOUS
  <2>1. r.at.block \in 0 .. FinalHeight
    BY DEF TransitionSound, CanonicalPlace
  <2>2. PlaceAt(r.at.block, r.at.index)' = PlaceAt(r.at.block, r.at.index)
    BY <2>1, PlacesStable
  <2> QED BY <2>2, PlacesStable DEF TransitionSound
<1> QED BY <1>1, <1>2, <1>3

\* What is indexed stays indexed while settled blocks and rows stay.
LEMMA IndexedStable ==
    ASSUME ChainTypeOK, ChainTypeOK', Settled, RowsKept, NEW n \in Int, IndexedUpTo(n)
    PROVE  IndexedUpTo(n)'
<1>0. FinalHeight \in Int /\ FinalHeight' \in Int /\ FinalHeight <= FinalHeight'
  BY PlacesStable
<1>1. ASSUME NEW h \in StartBlock .. n, NEW i \in DOMAIN chain'[h].txs
      PROVE  TxIndexed(h, i)'
  <2>1. h \in 0 .. FinalHeight
    BY <1>0 DEF IndexedUpTo
  <2>2. chain'[h] = chain[h] /\ PlaceAt(h, i)' = PlaceAt(h, i)
    BY <2>1, PlacesStable DEF Settled
  <2>3. TxIndexed(h, i)
    BY <1>1, <2>2 DEF IndexedUpTo, BlockIndexed
  <2> QED BY <2>2, <2>3 DEF TxIndexed, RowsKept
<1> QED BY <1>0, <1>1 DEF IndexedUpTo, BlockIndexed

\* What is known of a running round stays true while settled blocks and rows
\* stay, its target included.
LEMMA JobStable ==
    ASSUME ChainTypeOK, ChainTypeOK', Settled, RowsKept,
           NEW l \in PcLabels, NEW j, JobTypeOK(j), JobInv(l, j),
           TargetSettled(j) => TargetSettled(j)'
    PROVE  JobInv(l, j)'
<1>0. /\ FinalHeight \in Int /\ FinalHeight' \in Int /\ FinalHeight <= FinalHeight'
      /\ tip \in Int /\ tip' \in Int /\ tip <= tip'
  BY PlacesStable DEF ChainTypeOK, Heights, Settled
<1>t. j.tip \in Int /\ j.from \in Nat /\ j.to \in Nat /\ j.cp \in Int
  BY DEF JobTypeOK
<1>1. l # "idle" => IndexedUpTo(j.cp)'
  BY <1>t, IndexedStable DEF JobInv
<1>2. l = "indexer_tip" => j.tip <= tip'
  BY <1>0, <1>t DEF JobInv
<1>3. l \in AfterTip => TargetSettled(j)'
  BY DEF JobInv
<1>4. l \in AfterCheck => RangeOK(j)'
  BY DEF JobInv, RangeOK
<1>5. ASSUME l \in AfterCheck
      PROVE  \A h \in j.from .. j.to : h \in 0 .. FinalHeight
  <2>1. RangeOK(j) /\ TargetSettled(j)
    BY <1>5 DEF JobInv, AfterCheck
  <2>2. j.to <= j.tip - ReorgLag /\ j.tip <= tip
    BY <2>1 DEF RangeOK, TargetSettled
  <2> QED BY <1>0, <1>t, <2>2, SMTT(30) DEF FinalHeight
<1>6. ASSUME l \in AfterCheck, NEW h \in j.from .. j.to
      PROVE  chain'[h] = chain[h] /\ \A i : PlaceAt(h, i)' = PlaceAt(h, i)
  BY <1>5, <1>6, PlacesStable DEF Settled
<1>7. l \in AfterCheck => HitsSound(j)'
  BY <1>5, PlacesStable DEF JobInv, HitsSound
<1>8. l \in PcLabels \ {"process", "apply", "prune"} => EmptyBatch(j)'
  BY DEF JobInv, EmptyBatch
<1>9. l \in (PcLabels \ AfterCheck) \cup {"collect_rgbpp"} => j.hits = {}
  BY DEF JobInv
<1>10. \A locks : l \in AfterCheck /\ AllFound(j, locks) => AllFound(j, locks)'
  BY <1>6 DEF AllFound, Found, HitFor
<1>11. /\ l = "collect_btc_time" => AllFound(j, {"rgbpp"})'
       /\ l = "headers" => AllFound(j, LockKinds)'
  BY <1>10 DEF JobInv, AfterCheck, AfterTip, PcLabels
<1>12. ASSUME l \in Processing PROVE HeadersOK(j)' /\ BatchSound(j)' /\ DoneOrPending(j)'
  <2>1. l \in AfterCheck /\ HeadersOK(j) /\ BatchSound(j) /\ DoneOrPending(j)
    BY <1>12 DEF JobInv, Processing, AfterCheck, AfterTip, PcLabels
  <2>2. HeadersOK(j)'
    BY <1>6, <2>1 DEF HeadersOK
  <2>3. BatchSound(j)'
    BY <2>1, RowsStable DEF BatchSound, RowsKept
  <2>4. ASSUME NEW h \in j.from .. j.to, NEW i \in DOMAIN chain'[h].txs
        PROVE  IF HasHit(j, h, i) THEN Found(j, h, i, LockKinds)' ELSE TxBatched(j, h, i)'
    <3>1. chain'[h] = chain[h] /\ PlaceAt(h, i)' = PlaceAt(h, i)
      BY <1>6, <2>1
    <3>2. IF HasHit(j, h, i) THEN Found(j, h, i, LockKinds) ELSE TxBatched(j, h, i)
      BY <2>1, <2>4, <3>1 DEF DoneOrPending
    <3>3. CASE HasHit(j, h, i)
      BY <3>1, <3>2, <3>3 DEF Found, HitFor
    <3>4. CASE ~ HasHit(j, h, i)
      BY <3>1, <3>2, <3>4 DEF TxBatched
    <3> QED BY <3>3, <3>4
  <2>5. DoneOrPending(j)'
    BY <2>4 DEF DoneOrPending, HasHit
  <2> QED BY <2>2, <2>3, <2>5
<1>13. /\ l = "apply" => j.hits = {}
       /\ l = "check" => j.cp < j.tip - ReorgLag
  BY DEF JobInv
<1> QED BY <1>1, <1>2, <1>3, <1>4, <1>7, <1>8, <1>9, <1>11, <1>12, <1>13 DEF JobInv

\* Sound tables stay sound while they and the settled blocks stay.
LEMMA TablesStable ==
    ASSUME ChainTypeOK, ChainTypeOK', Settled, UNCHANGED factVars, TablesSound
    PROVE  TablesSound'
BY RowsStable DEF TablesSound, factVars

-----------------------------------------------------------------------------
(* The steps of a round *)

\* Between rounds nothing is claimed.
LEMMA IdleInv == JobInv("idle", EmptyJob)
BY DEF JobInv, EmptyJob, EmptyBatch, AfterTip, AfterCheck, Processing, PcLabels

LEMMA EndRoundInv ==
    ASSUME TypeOK, NEW s \in Scanners, EndRound(s)
    PROVE  JobInv(pc'[s], job'[s])
<1>1. pc'[s] = "idle" /\ job'[s] = EmptyJob
  BY DEF EndRound, Goto, TypeOK
<1> QED BY <1>1, IdleInv

\* The checkpoint a round starts from.
LEMMA InitStreamInv ==
    ASSUME TypeOK, LagSuffices, StoreInv, NEW s \in Scanners,
           JobInv(pc[s], job[s]), InitStream(s)
    PROVE  /\ IndexedUpTo(checkpoint')
           /\ JobInv(pc'[s], job'[s])
<1>1. IndexedUpTo(checkpoint')
  <2>1. CASE checkpoint = NULL
    <3>1. checkpoint' = StartBlock - 1
      BY <2>1 DEF InitStream, InitialCheckpoint, LagSuffices
    <3> QED BY <3>1 DEF IndexedUpTo
  <2>2. CASE checkpoint # NULL
    BY <2>2 DEF InitStream, StoreInv
  <2> QED BY <2>1, <2>2
<1>2. /\ pc[s] = "idle" /\ pc'[s] = "node_tip"
      /\ job'[s] = [job[s] EXCEPT !.cp = checkpoint', !.cpFork = cpFork]
  BY DEF InitStream, Goto, TypeOK
<1>3. /\ job'[s].cp = checkpoint' /\ job'[s].hits = job[s].hits
      /\ job'[s].created = job[s].created /\ job'[s].consumed = job[s].consumed
      /\ job'[s].transitions = job[s].transitions
  BY <1>2 DEF TypeOK, JobTypeOK, EmptyJob
<1> QED BY <1>1, <1>2, <1>3 DEF JobInv, EmptyBatch, AfterTip, AfterCheck, Processing, PcLabels

\* The synced tip is one both endpoints have settled below.
LEMMA TipInv ==
    ASSUME TypeOK, WorldInv, NEW s \in Scanners, JobInv(pc[s], job[s]),
           GetNodeTip(s) \/ GetIndexerTip(s)
    PROVE  JobInv(pc'[s], job'[s])
<1>0. /\ JobTypeOK(job[s]) /\ DOMAIN job = Scanners /\ job[s].tip \in Int
      /\ tip \in Int /\ idxTip \in 0 .. tip
  BY DEF TypeOK, JobTypeOK, WorldInv, ChainTypeOK, Heights
<1>1. CASE GetNodeTip(s)
  <2>1. pc[s] = "node_tip" /\ pc'[s] = "indexer_tip" /\ job'[s] = [job[s] EXCEPT !.tip = tip]
    BY <1>0, <1>1 DEF GetNodeTip, Goto, TypeOK
  <2>2. /\ job'[s].cp = job[s].cp /\ job'[s].hits = job[s].hits /\ job'[s].tip = tip
        /\ job'[s].created = job[s].created /\ job'[s].consumed = job[s].consumed
        /\ job'[s].transitions = job[s].transitions
    BY <1>0, <2>1 DEF JobTypeOK, EmptyJob
  <2> QED BY <1>0, <2>1, <2>2 DEF JobInv, EmptyBatch, AfterTip, AfterCheck, Processing, PcLabels
<1>2. CASE GetIndexerTip(s)
  <2> DEFINE t == SyncedTip(job[s].tip)
  <2>1. pc[s] = "indexer_tip" /\ pc'[s] = "progress" /\ job'[s] = [job[s] EXCEPT !.tip = t]
    BY <1>0, <1>2 DEF GetIndexerTip, Goto, TypeOK
  <2>2. /\ job'[s].cp = job[s].cp /\ job'[s].hits = job[s].hits /\ job'[s].tip = t
        /\ job'[s].created = job[s].created /\ job'[s].consumed = job[s].consumed
        /\ job'[s].transitions = job[s].transitions
    BY <1>0, <2>1 DEF JobTypeOK, EmptyJob
  <2>3. t \in Int /\ t <= tip /\ t <= idxTip
    BY <1>0, <2>1 DEF SyncedTip, NULL, JobInv
  <2>4. TargetSettled(job'[s])
    BY <1>0, <2>2, <2>3 DEF TargetSettled, WorldInv
  <2> QED BY <2>1, <2>2, <2>4 DEF JobInv, EmptyBatch, AfterTip, AfterCheck, Processing, PcLabels
<1> QED BY <1>1, <1>2

\* A round goes on only when there is something to do.
LEMMA ProgressInv ==
    ASSUME TypeOK, NEW s \in Scanners, JobInv(pc[s], job[s]), RecordProgress(s)
    PROVE  JobInv(pc'[s], job'[s])
<1>1. CASE EndRound(s)
  BY <1>1, EndRoundInv
<1>2. CASE ~ EndRound(s)
  <2>1. /\ pc[s] = "progress" /\ pc'[s] = "check" /\ job'[s] = job[s]
        /\ job[s].cp < job[s].tip - ReorgLag
    BY <1>2 DEF RecordProgress, Goto, TypeOK, JobTypeOK
  <2> QED BY <2>1 DEF JobInv, EmptyBatch, AfterTip, AfterCheck, Processing, PcLabels
<1> QED BY <1>1, <1>2

\* The range starts right after the checkpoint and ends at or below the target.
LEMMA CheckInv ==
    ASSUME TypeOK, NEW s \in Scanners, JobInv(pc[s], job[s]), CheckCheckpoint(s)
    PROVE  JobInv(pc'[s], job'[s])
<1> DEFINE j == job[s]
           lo == RangeFrom(j.cp)
           hi == RangeTo(j.cp, j.tip - ReorgLag)
<1>0. JobTypeOK(j) /\ j.tip \in Int /\ j.cp \in Int
  BY DEF TypeOK, JobTypeOK
<1>1. pc[s] = "check" /\ pc'[s] = "collect_rgbpp" /\ job'[s] = [j EXCEPT !.from = lo, !.to = hi]
  BY DEF CheckCheckpoint, Goto, TypeOK
<1>2. /\ job'[s].cp = j.cp /\ job'[s].hits = j.hits /\ job'[s].tip = j.tip
      /\ job'[s].from = lo /\ job'[s].to = hi
      /\ job'[s].created = j.created /\ job'[s].consumed = j.consumed
      /\ job'[s].transitions = j.transitions
  BY <1>0, <1>1 DEF JobTypeOK, EmptyJob
<1>3. IndexedUpTo(j.cp) /\ j.cp < j.tip - ReorgLag /\ j.hits = {} /\ TargetSettled(j)
  BY <1>1 DEF JobInv, PcLabels, AfterTip, AfterCheck
<1>4. /\ lo \in Int /\ hi \in Int /\ lo >= StartBlock /\ lo - 1 <= j.cp
      /\ hi <= j.tip - ReorgLag /\ hi >= lo
  <2>1. j.cp >= StartBlock - 1 /\ j.tip - ReorgLag \in Int
    BY <1>0, <1>3 DEF IndexedUpTo
  <2>2. lo = j.cp + 1 /\ j.cp + 1 >= StartBlock
    BY <1>0, <2>1 DEF RangeFrom
  <2>3. \/ hi = j.tip - ReorgLag /\ j.tip - ReorgLag <= j.cp + 1 + BatchBlocks - 1
        \/ hi = j.cp + 1 + BatchBlocks - 1 /\ ~ j.tip - ReorgLag <= j.cp + 1 + BatchBlocks - 1
    BY <2>2 DEF RangeTo
  <2>4. ASSUME NEW cp \in Int, NEW target \in Int, cp < target, NEW b \in Nat \ {0},
               NEW x, \/ x = target /\ target <= cp + 1 + b - 1
                      \/ x = cp + 1 + b - 1 /\ ~ target <= cp + 1 + b - 1
        PROVE  x \in Int /\ x <= target /\ x >= cp + 1
    BY <2>4
  <2>5. hi \in Int /\ hi <= j.tip - ReorgLag /\ hi >= j.cp + 1
    BY <1>0, <1>3, <2>1, <2>3, <2>4
  <2> HIDE DEF lo, hi
  <2> QED BY <1>0, <2>2, <2>5
<1>5. RangeOK(job'[s]) /\ HitsSound(job'[s]) /\ TargetSettled(job'[s])
  BY <1>2, <1>3, <1>4 DEF RangeOK, HitsSound, TargetSettled
<1>6. EmptyBatch(job'[s])
  BY <1>1, <1>2 DEF JobInv, EmptyBatch, PcLabels
<1> QED BY <1>1, <1>2, <1>3, <1>5, <1>6 DEF JobInv, AfterTip, AfterCheck, Processing, PcLabels

\* A search over settled blocks returns what the canonical chain holds, all
\* of it.
LEMMA SearchExact ==
    ASSUME TypeOK, NEW j, JobTypeOK(j), TargetSettled(j), RangeOK(j), NEW lock
    PROVE  /\ \A m \in Search(lock, j.from, j.to) :
                 m.block \in j.from .. j.to /\ PlacedAt(chain, tip, m.block, m.index, m.tx)
           /\ \A h \in j.from .. j.to : \A i \in DOMAIN chain[h].txs :
                 Touches(chain[h].txs[i], lock) =>
                     HitFor(h, i, lock) \in Search(lock, j.from, j.to)
<1>0. j.tip \in Int /\ j.from \in Nat /\ j.to \in Nat /\ tip \in Int /\ idxTip \in Int
  BY DEF TypeOK, JobTypeOK, ChainTypeOK, Heights
<1>1. ASSUME NEW h \in j.from .. j.to
      PROVE  h \in 0 .. tip /\ h <= idxTip /\ idx[h] = chain[h]
  BY <1>0, SMTT(30) DEF TargetSettled, RangeOK
<1>2. ASSUME NEW m \in Search(lock, j.from, j.to)
      PROVE  m.block \in j.from .. j.to /\ PlacedAt(chain, tip, m.block, m.index, m.tx)
  <2>1. PICK h \in {k \in j.from .. j.to : k <= idxTip} :
          m \in {[block |-> h, index |-> i, tx |-> idx[h].txs[i], lock |-> lock] :
                  i \in {k \in DOMAIN idx[h].txs : Touches(idx[h].txs[k], lock)}}
    BY <1>2 DEF Search
  <2>2. PICK i \in DOMAIN idx[h].txs :
          m = [block |-> h, index |-> i, tx |-> idx[h].txs[i], lock |-> lock]
    BY <2>1
  <2>3. m.block = h /\ m.index = i /\ m.tx = idx[h].txs[i]
    BY <2>2
  <2> QED BY <1>1, <2>1, <2>2, <2>3 DEF PlacedAt
<1>3. ASSUME NEW h \in j.from .. j.to, NEW i \in DOMAIN chain[h].txs,
             Touches(chain[h].txs[i], lock)
      PROVE  HitFor(h, i, lock) \in Search(lock, j.from, j.to)
  <2>1. HitFor(h, i, lock) = [block |-> h, index |-> i, tx |-> idx[h].txs[i], lock |-> lock]
    BY <1>1 DEF HitFor
  <2>2. i \in {k \in DOMAIN idx[h].txs : Touches(idx[h].txs[k], lock)}
    BY <1>1, <1>3
  <2>3. h \in {k \in j.from .. j.to : k <= idxTip}
    BY <1>1
  <2> QED BY <2>1, <2>2, <2>3 DEF Search
<1> QED BY <1>2, <1>3

\* The searches find every transaction of the range.
LEMMA CollectInv ==
    ASSUME TypeOK, NEW s \in Scanners, JobInv(pc[s], job[s]),
           CollectRgbpp(s) \/ CollectBtcTime(s)
    PROVE  JobInv(pc'[s], job'[s])
<1> DEFINE j == job[s]
           Joined(lock) == j.hits \cup Search(lock, j.from, j.to)
<1>0. JobTypeOK(j) /\ DOMAIN job = Scanners
  BY DEF TypeOK
<1>1. ASSUME NEW lock, NEW at, NEW next, Collect(s, at, lock, next),
             at \in AfterCheck, TargetSettled(j), RangeOK(j), HitsSound(j)
      PROVE  /\ pc[s] = at /\ pc'[s] = next
             /\ job'[s].cp = j.cp /\ job'[s].tip = j.tip
             /\ job'[s].from = j.from /\ job'[s].to = j.to
             /\ job'[s].created = j.created /\ job'[s].consumed = j.consumed
             /\ job'[s].transitions = j.transitions
             /\ HitsSound(job'[s])
             /\ \A locks : AllFound(j, locks) => AllFound(job'[s], locks)
             /\ AllFound(job'[s], {lock})
  <2>1. pc[s] = at /\ pc'[s] = next /\ job'[s] = [j EXCEPT !.hits = Joined(lock)]
    BY <1>0, <1>1 DEF Collect, Goto, TypeOK
  <2>2. /\ job'[s].cp = j.cp /\ job'[s].tip = j.tip
        /\ job'[s].from = j.from /\ job'[s].to = j.to
        /\ job'[s].created = j.created /\ job'[s].consumed = j.consumed
        /\ job'[s].transitions = j.transitions
        /\ job'[s].hits = Joined(lock)
    BY <1>0, <2>1 DEF JobTypeOK, EmptyJob
  <2> DEFINE nj == job'[s]
             found == Search(lock, j.from, j.to)
  <2>3. /\ \A m \in found :
             m.block \in j.from .. j.to /\ PlacedAt(chain, tip, m.block, m.index, m.tx)
        /\ \A h \in j.from .. j.to : \A i \in DOMAIN chain[h].txs :
             Touches(chain[h].txs[i], lock) => HitFor(h, i, lock) \in found
    BY <1>0, <1>1, SearchExact
  <2>4. nj.hits = j.hits \cup found /\ nj.from = j.from /\ nj.to = j.to
    BY <2>2
  <2> HIDE DEF nj, found, j
  <2>5. HitsSound(nj)
    BY <1>1, <2>3, <2>4 DEF HitsSound
  <2>6. \A locks : AllFound(j, locks) => AllFound(nj, locks)
    BY <2>4 DEF AllFound, Found
  <2>7. AllFound(nj, {lock})
    BY <2>3, <2>4 DEF AllFound, Found
  <2> QED BY <2>1, <2>2, <2>5, <2>6, <2>7 DEF nj, j
<1>2. /\ pc[s] \in {"collect_rgbpp", "collect_btc_time"}
      /\ IndexedUpTo(j.cp) /\ TargetSettled(j) /\ RangeOK(j) /\ HitsSound(j) /\ EmptyBatch(j)
  BY DEF CollectRgbpp, CollectBtcTime, Collect, JobInv, PcLabels, AfterTip, AfterCheck
<1>3. pc[s] \in AfterCheck
  BY <1>2 DEF PcLabels, AfterTip, AfterCheck
<1>4. CASE CollectRgbpp(s)
  <2>1. /\ pc'[s] = "collect_btc_time"
        /\ job'[s].cp = j.cp /\ job'[s].tip = j.tip
        /\ job'[s].from = j.from /\ job'[s].to = j.to
        /\ job'[s].created = j.created /\ job'[s].consumed = j.consumed
        /\ job'[s].transitions = j.transitions
        /\ HitsSound(job'[s])
        /\ AllFound(job'[s], {"rgbpp"})
    BY <1>1, <1>2, <1>3, <1>4 DEF CollectRgbpp, Collect
  <2>2. IndexedUpTo(job'[s].cp) /\ TargetSettled(job'[s]) /\ RangeOK(job'[s]) /\ EmptyBatch(job'[s])
    BY <1>2, <2>1 DEF TargetSettled, RangeOK, EmptyBatch
  <2> QED BY <2>1, <2>2 DEF JobInv, AfterTip, AfterCheck, Processing, PcLabels
<1>5. CASE CollectBtcTime(s)
  <2>1. AllFound(j, {"rgbpp"})
    BY <1>5 DEF CollectBtcTime, Collect, JobInv
  <2>2. /\ pc'[s] = "headers"
        /\ job'[s].cp = j.cp /\ job'[s].tip = j.tip
        /\ job'[s].from = j.from /\ job'[s].to = j.to
        /\ job'[s].created = j.created /\ job'[s].consumed = j.consumed
        /\ job'[s].transitions = j.transitions
        /\ HitsSound(job'[s])
        /\ AllFound(job'[s], {"rgbpp"}) /\ AllFound(job'[s], {"btc_time"})
    BY <1>1, <1>2, <1>3, <1>5, <2>1 DEF CollectBtcTime, Collect
  <2>3. IndexedUpTo(job'[s].cp) /\ TargetSettled(job'[s]) /\ RangeOK(job'[s]) /\ EmptyBatch(job'[s])
    BY <1>2, <2>2 DEF TargetSettled, RangeOK, EmptyBatch
  <2>4. AllFound(job'[s], LockKinds)
    BY <2>2 DEF AllFound, Found, LockKinds
  <2> QED BY <2>2, <2>3, <2>4 DEF JobInv, AfterTip, AfterCheck, Processing, PcLabels
<1> QED BY <1>4, <1>5

\* A transaction no search has found has nothing to say.
LEMMA HeadersInv ==
    ASSUME TypeOK, NEW s \in Scanners, JobInv(pc[s], job[s]), FetchHeaders(s)
    PROVE  JobInv(pc'[s], job'[s])
<1> DEFINE j == job[s]
           nj == job'[s]
           headers == [h \in HitBlocks(j.hits) |-> chain[h].fork]
<1>0. JobTypeOK(j) /\ DOMAIN job = Scanners /\ ChainTypeOK
  BY DEF TypeOK
<1>1. pc[s] = "headers" /\ pc'[s] = "process" /\ nj = [j EXCEPT !.headers = headers]
  BY <1>0 DEF FetchHeaders, Goto, TypeOK
<1>2. /\ nj.cp = j.cp /\ nj.tip = j.tip /\ nj.from = j.from /\ nj.to = j.to
      /\ nj.hits = j.hits /\ nj.headers = headers
      /\ nj.created = j.created /\ nj.consumed = j.consumed
      /\ nj.transitions = j.transitions
  BY <1>0, <1>1 DEF JobTypeOK, EmptyJob
<1>3. /\ IndexedUpTo(j.cp) /\ TargetSettled(j) /\ RangeOK(j) /\ HitsSound(j)
      /\ EmptyBatch(j) /\ AllFound(j, LockKinds)
  BY <1>1 DEF JobInv, PcLabels, AfterTip, AfterCheck
<1> HIDE DEF j, nj
<1>4. HeadersOK(nj)
  <2>1. DOMAIN headers = HitBlocks(nj.hits) /\ \A h \in DOMAIN headers : headers[h] = chain[h].fork
    BY <1>2
  <2>2. \A h \in HitBlocks(nj.hits) : h \in nj.from .. nj.to
    BY <1>2, <1>3 DEF HitsSound, HitBlocks
  <2> QED BY <1>2, <2>1, <2>2 DEF HeadersOK
<1>5. BatchSound(nj)
  BY <1>2, <1>3 DEF BatchSound, EmptyBatch, NoRows
<1>6. ASSUME NEW h \in nj.from .. nj.to, NEW i \in DOMAIN chain[h].txs, ~ HasHit(nj, h, i)
      PROVE  TxBatched(nj, h, i)
  <2> DEFINE t == chain[h].txs[i]
  <2>1. \A lock \in LockKinds : ~ Touches(t, lock)
    <3> SUFFICES ASSUME NEW lock \in LockKinds, Touches(t, lock) PROVE FALSE
      OBVIOUS
    <3>1. HitFor(h, i, lock) \in nj.hits
      BY <1>2, <1>3 DEF AllFound, Found
    <3>2. HitFor(h, i, lock).block = h /\ HitFor(h, i, lock).index = i
      BY DEF HitFor
    <3> QED BY <1>6, <3>1, <3>2 DEF HasHit
  <2>2. t \in Txs
    <3>1. h \in 0 .. tip
      <4>1. j.to <= j.tip - ReorgLag /\ j.tip <= tip /\ h \in j.from .. j.to
        BY <1>2, <1>3 DEF TargetSettled, RangeOK
      <4>2. j.tip \in Int /\ j.from \in Nat /\ j.to \in Nat /\ tip \in Int
        BY <1>0 DEF JobTypeOK, ChainTypeOK, Heights
      <4> QED BY <4>1, <4>2
    <3> QED BY <1>0, <3>1, PlacedIsTx
  <2>3. \A c \in Inputs[t] \cup Outputs[t] : LockOf[c] \in LockKinds
    BY <2>2, BodyAssumption
  <2>4. Inputs[t] = {} /\ Outputs[t] = {}
    BY <2>1, <2>3 DEF Touches
  <2> QED BY <2>4 DEF TxBatched, ClassifyOutputs, Extractable
<1>7. DoneOrPending(nj)
  BY <1>2, <1>3, <1>6 DEF DoneOrPending, AllFound, Found
<1>8. IndexedUpTo(nj.cp) /\ TargetSettled(nj) /\ RangeOK(nj) /\ HitsSound(nj)
  BY <1>2, <1>3 DEF TargetSettled, RangeOK, HitsSound
<1> QED BY <1>1, <1>4, <1>5, <1>7, <1>8 DEF JobInv, AfterTip, AfterCheck, Processing, PcLabels, nj

LEMMA CheckpointHeaderInv ==
    ASSUME TypeOK, NEW s \in Scanners, JobInv(pc[s], job[s]), CheckpointHeader(s)
    PROVE  JobInv(pc'[s], job'[s])
<1> DEFINE j == job[s]
           nj == job'[s]
<1>0. JobTypeOK(j) /\ DOMAIN job = Scanners
  BY DEF TypeOK
<1>1. /\ pc[s] = "process" /\ pc'[s] = "apply" /\ j.hits = {}
      /\ \E f : nj = [j EXCEPT !.cpFork = f]
  BY <1>0 DEF CheckpointHeader, Goto, TypeOK
<1>2. /\ nj.cp = j.cp /\ nj.tip = j.tip /\ nj.from = j.from /\ nj.to = j.to
      /\ nj.hits = j.hits /\ nj.headers = j.headers
      /\ nj.created = j.created /\ nj.consumed = j.consumed
      /\ nj.transitions = j.transitions
  BY <1>0, <1>1 DEF JobTypeOK, EmptyJob
<1>3. /\ IndexedUpTo(j.cp) /\ TargetSettled(j) /\ RangeOK(j) /\ HitsSound(j)
      /\ HeadersOK(j) /\ BatchSound(j) /\ DoneOrPending(j)
  BY <1>1 DEF JobInv, PcLabels, AfterTip, AfterCheck, Processing
<1> HIDE DEF j, nj
<1>4. IndexedUpTo(nj.cp) /\ TargetSettled(nj) /\ RangeOK(nj) /\ HitsSound(nj) /\ HeadersOK(nj)
  BY <1>2, <1>3 DEF TargetSettled, RangeOK, HitsSound, HeadersOK
<1>5. BatchSound(nj)
  BY <1>2, <1>3 DEF BatchSound
<1>6. DoneOrPending(nj)
  BY <1>2, <1>3 DEF DoneOrPending, HasHit, Found, TxBatched
<1>7. nj.hits = {}
  BY <1>1, <1>2 DEF j
<1> QED BY <1>1, <1>4, <1>5, <1>6, <1>7 DEF JobInv, AfterTip, AfterCheck, Processing, PcLabels, nj

-----------------------------------------------------------------------------
(* process_transaction *)

\* What is known when the next record m of the round j is processed.
NextRecord(j, m) ==
    /\ JobTypeOK(j)
    /\ IndexedUpTo(j.cp) /\ TargetSettled(j) /\ RangeOK(j) /\ HitsSound(j)
    /\ HeadersOK(j) /\ BatchSound(j) /\ DoneOrPending(j)
    /\ m \in j.hits /\ IsNext(j.hits, m)

\* The record is a transaction of the settled chain, all of whose protocol
\* inputs are flagged, and the headers place it where it is.
LEMMA RecordFacts ==
    ASSUME TypeOK, WorldInv, NEW j, NEW m, NextRecord(j, m)
    PROVE  /\ m.tx \in Txs /\ m.tx = chain[m.block].txs[m.index]
           /\ m.block \in j.from .. j.to /\ m.index \in DOMAIN chain[m.block].txs
           /\ PlacedAt(chain, tip, m.block, m.index, m.tx)
           /\ CanonicalPlace(PlaceAt(m.block, m.index), m.tx)
           /\ FlaggedInputs(j.hits, m) = Inputs[m.tx]
           /\ RecordPlace(j, m) = PlaceAt(m.block, m.index)
           /\ FinalHeight \in Int /\ m.block <= FinalHeight
<1>0. /\ j.tip \in Int /\ j.from \in Nat /\ j.to \in Nat /\ tip \in Int
      /\ j.from >= StartBlock /\ j.to <= j.tip - ReorgLag /\ j.tip <= tip
      /\ ChainTypeOK
  BY DEF TypeOK, NextRecord, JobTypeOK, ChainTypeOK, Heights, RangeOK, TargetSettled
<1>1. m.block \in j.from .. j.to /\ PlacedAt(chain, tip, m.block, m.index, m.tx)
  BY DEF NextRecord, HitsSound
<1>2. /\ m.block \in 0 .. tip /\ m.index \in DOMAIN chain[m.block].txs
      /\ m.tx = chain[m.block].txs[m.index]
  BY <1>1 DEF PlacedAt
<1>3. m.tx \in Txs
  BY <1>0, <1>2, PlacedIsTx
<1>4. FinalHeight \in Int /\ m.block \in StartBlock .. FinalHeight
  BY <1>0, <1>1 DEF FinalHeight
<1>5. CanonicalPlace(PlaceAt(m.block, m.index), m.tx)
  BY <1>1, <1>4 DEF CanonicalPlace, PlaceAt
<1>6. Found(j, m.block, m.index, LockKinds)
  BY <1>1, <1>2 DEF NextRecord, DoneOrPending, HasHit
<1>7. ASSUME NEW c \in Inputs[m.tx]
      PROVE  c \in FlaggedInputs(j.hits, m)
  <2>1. LockOf[c] \in LockKinds
    BY <1>3, BodyAssumption
  <2>2. HitFor(m.block, m.index, LockOf[c]) \in j.hits
    BY <1>2, <1>6, <2>1 DEF Found, Touches
  <2>3. HitFor(m.block, m.index, LockOf[c]) \in SameRecord(j.hits, m)
    BY <1>2, <2>2 DEF SameRecord, HitFor
  <2>4. HitFor(m.block, m.index, LockOf[c]).lock = LockOf[c]
    BY DEF HitFor
  <2> QED BY <2>3, <2>4 DEF FlaggedInputs
<1>8. FlaggedInputs(j.hits, m) = Inputs[m.tx]
  BY <1>7 DEF FlaggedInputs
<1>9. j.headers[m.block] = chain[m.block].fork
  BY DEF NextRecord, HeadersOK, HitBlocks
<1>10. RecordPlace(j, m) = PlaceAt(m.block, m.index)
  BY <1>9 DEF RecordPlace, PlaceAt
<1> QED BY <1>0, <1>1, <1>2, <1>3, <1>4, <1>5, <1>8, <1>10

\* A readable input that is in neither the batch nor the database was created
\* below start_block, and the node returns it from there.
LEMMA GapFacts ==
    ASSUME TypeOK, WorldInv, NEW j, NEW m, NextRecord(j, m),
           NEW c \in Gaps(j, Inputs[m.tx])
    PROVE  /\ OnNodeChain(c)
           /\ c \notin Malformed => CreatedSound(c, BackfillRow(c))
<1>0. /\ j.from \in Nat /\ j.to \in Nat /\ j.cp \in Int /\ tip \in Int /\ ChainTypeOK
      /\ j.from - 1 <= j.cp
  BY DEF TypeOK, NextRecord, JobTypeOK, ChainTypeOK, Heights, RangeOK
<1>1. /\ m.tx \in Txs /\ m.tx = chain[m.block].txs[m.index]
      /\ m.block \in j.from .. j.to /\ m.index \in DOMAIN chain[m.block].txs
      /\ PlacedAt(chain, tip, m.block, m.index, m.tx)
      /\ FinalHeight \in Int /\ m.block <= FinalHeight
  BY RecordFacts
<1>2. c \in Inputs[m.tx] /\ c \notin DOMAIN j.created /\ c \notin DOMAIN created
  BY DEF Gaps
<1>3. m.block \in 0 .. tip
  BY <1>1 DEF PlacedAt
<1>4. PICK h0 \in 0 .. m.block : \E i0 \in DOMAIN chain[h0].txs :
          Before(h0, i0, m.block, m.index) /\ c \in Outputs[chain[h0].txs[i0]]
  <2>1. ValidBranch(chain, tip)
    BY DEF WorldInv
  <2>2. \A d \in Inputs[chain[m.block].txs[m.index]] :
          \E h0 \in 0 .. m.block : \E i0 \in DOMAIN chain[h0].txs :
              Before(h0, i0, m.block, m.index) /\ d \in Outputs[chain[h0].txs[i0]]
    BY <1>1, <1>3, <2>1 DEF ValidBranch
  <2> QED BY <1>1, <1>2, <2>2
<1>5. PICK i0 \in DOMAIN chain[h0].txs :
          Before(h0, i0, m.block, m.index) /\ c \in Outputs[chain[h0].txs[i0]]
  BY <1>4
<1>6. h0 \in 0 .. tip /\ chain[h0].txs[i0] \in Txs /\ PlacedAt(chain, tip, h0, i0, chain[h0].txs[i0])
  <2>1. h0 \in 0 .. tip
    BY <1>0, <1>3
  <2> QED BY <1>0, <2>1, PlacedIsTx DEF PlacedAt
<1>7. CreatedOnChainAt(c, h0, i0)
  BY <1>5, <1>6 DEF CreatedOnChainAt
<1>8. OnNodeChain(c)
  BY <1>6, <1>7 DEF OnNodeChain
<1>9. ASSUME c \notin Malformed PROVE CreatedSound(c, BackfillRow(c))
  <2>1. c \in ClassifyOutputs(chain[h0].txs[i0])
    BY <1>5, <1>9 DEF ClassifyOutputs
  <2>2. h0 < StartBlock
    <3>1. CASE h0 \in j.from .. j.to
      <4>1. ~ HasHit(j, h0, i0)
        BY <1>5 DEF HasHit, NextRecord, IsNext
      <4>2. TxBatched(j, h0, i0)
        BY <3>1, <4>1 DEF NextRecord, DoneOrPending
      <4> QED BY <1>2, <2>1, <4>2 DEF TxBatched
    <3>2. CASE h0 \in StartBlock .. j.cp
      <4>1. TxIndexed(h0, i0)
        BY <3>2 DEF NextRecord, IndexedUpTo, BlockIndexed
      <4> QED BY <1>2, <2>1, <4>1 DEF TxIndexed
    <3>3. CASE h0 \notin j.from .. j.to /\ h0 \notin StartBlock .. j.cp
      BY <1>0, <1>1, <1>3, <3>3
    <3> QED BY <3>1, <3>2, <3>3
  <2> DEFINE h1 == CHOOSE h \in 0 .. tip : \E i \in DOMAIN chain[h].txs :
                       CreatedOnChainAt(c, h, i)
  <2>3. h1 \in 0 .. tip /\ \E i \in DOMAIN chain[h1].txs : CreatedOnChainAt(c, h1, i)
    BY <1>8 DEF OnNodeChain
  <2>4. BackfillRow(c) = [block |-> h1, fork |-> chain[h1].fork, index |-> UnknownTxIndex]
    BY <1>8 DEF BackfillRow
  <2> HIDE DEF h1
  <2>5. h1 = h0
    <3>1. PICK i1 \in DOMAIN chain[h1].txs : CreatedOnChainAt(c, h1, i1)
      BY <2>3
    <3>2. PICK u \in Txs : PlacedAt(chain, tip, h1, i1, u) /\ c \in Outputs[u]
      BY <3>1 DEF CreatedOnChainAt
    <3>3. u = chain[h0].txs[i0]
      BY <1>5, <1>6, <3>2, SameCreator
    <3> QED BY <1>6, <3>2, <3>3, SamePlace DEF WorldInv
  <2>6. h0 \in 0 .. StartBlock - 1 /\ h0 <= FinalHeight
    BY <1>0, <1>1, <1>3, <2>2
  <2>7. BackfillRow(c) = PlaceAt(h0, UnknownTxIndex)
    BY <2>4, <2>5 DEF PlaceAt
  <2>8. BackfillPlace(PlaceAt(h0, UnknownTxIndex), c)
    BY <1>5, <2>6 DEF BackfillPlace, PlaceAt
  <2>9. Anchored(PlaceAt(h0, UnknownTxIndex))
    BY DEF Anchored, PlaceAt
  <2> QED BY <2>7, <2>8, <2>9 DEF CreatedSound
<1> QED BY <1>8, <1>9

\* How a record changes the batch of its round.
Batched(j, nj, m) ==
    LET t == m.tx
        p == PlaceAt(m.block, m.index)
        back == Gaps(j, Inputs[t])
    IN  /\ nj.cp = j.cp /\ nj.tip = j.tip /\ nj.from = j.from /\ nj.to = j.to
        /\ nj.headers = j.headers
        /\ nj.hits = j.hits \ SameRecord(j.hits, m)
        /\ DOMAIN nj.created = DOMAIN j.created \cup back \cup ClassifyOutputs(t)
        /\ \A c \in ClassifyOutputs(t) : nj.created[c] = p
        /\ \A c \in back \ ClassifyOutputs(t) : nj.created[c] = BackfillRow(c)
        /\ \A c \in DOMAIN j.created \ (back \cup ClassifyOutputs(t)) :
              nj.created[c] = j.created[c]
        /\ DOMAIN nj.consumed = DOMAIN j.consumed \cup Inputs[t]
        /\ \A c \in Inputs[t] : nj.consumed[c] = [by |-> t, at |-> p]
        /\ \A c \in DOMAIN j.consumed \ Inputs[t] : nj.consumed[c] = j.consumed[c]
        /\ DOMAIN j.transitions \subseteq DOMAIN nj.transitions
        /\ DOMAIN nj.transitions \subseteq DOMAIN j.transitions \cup {t}
        /\ Extractable(Inputs[t], ClassifyOutputs(t)) =>
              /\ t \in DOMAIN nj.transitions
              /\ nj.transitions[t] =
                    [at |-> p, what |-> TransitionOf(Inputs[t], ClassifyOutputs(t))]
        /\ ~ Extractable(Inputs[t], ClassifyOutputs(t)) =>
              /\ DOMAIN nj.transitions = DOMAIN j.transitions
              /\ \A u \in DOMAIN j.transitions : nj.transitions[u] = j.transitions[u]
        /\ \A u \in DOMAIN j.transitions \ {t} : nj.transitions[u] = j.transitions[u]
        /\ back \cap Malformed = {}

LEMMA ProcessBatches ==
    ASSUME TypeOK, WorldInv, NEW s \in Scanners, JobInv(pc[s], job[s]), Process(s)
    PROVE  \E m : NextRecord(job[s], m) /\ Batched(job[s], job'[s], m)
<1> DEFINE j == job[s]
           nj == job'[s]
<1>0. JobTypeOK(j) /\ DOMAIN job = Scanners /\ pc[s] = "process"
  BY DEF TypeOK, Process
<1>1. PICK m \in j.hits :
        /\ IsNext(j.hits, m)
        /\ \E gone \in SUBSET {c \in Gaps(j, FlaggedInputs(j.hits, m)) : ~ OnNodeChain(c)} :
              ProcessRecord(s, m, gone)
  BY DEF Process
<1>2. PICK gone \in SUBSET {c \in Gaps(j, FlaggedInputs(j.hits, m)) : ~ OnNodeChain(c)} :
          ProcessRecord(s, m, gone)
  BY <1>1
<1>3. NextRecord(j, m)
  BY <1>0, <1>1 DEF JobInv, NextRecord, PcLabels, AfterTip, AfterCheck, Processing
<1> DEFINE t == m.tx
           p == PlaceAt(m.block, m.index)
           back == Gaps(j, Inputs[t])
           outs == ClassifyOutputs(t)
<1>4. FlaggedInputs(j.hits, m) = Inputs[t] /\ RecordPlace(j, m) = p
  BY <1>3, RecordFacts
<1>5. gone = {}
  BY <1>2, <1>3, <1>4, GapFacts
<1> DEFINE backRows == [c \in back |-> BackfillRow(c)]
           cellRows == NewCells(j, m)
           spends == NewSpends(j, m, Inputs[t])
           trans == NewTransitions(j, m, Inputs[t])
<1>6. /\ back \cap Malformed = {}
      /\ job' = [job EXCEPT
            ![s].hits = j.hits \ SameRecord(j.hits, m),
            ![s].created = Upsert(Upsert(j.created, backRows), cellRows),
            ![s].consumed = Upsert(j.consumed, spends),
            ![s].transitions = Upsert(j.transitions, trans)]
  <2>1. /\ FlaggedInputs(j.hits, m) \ gone = Inputs[t]
        /\ Gaps(j, FlaggedInputs(j.hits, m)) \ gone = back
    BY <1>4, <1>5
  <2> HIDE DEF back, spends, trans
  <2> QED BY <1>2, <2>1 DEF ProcessRecord, spends, trans
<1> HIDE DEF backRows, cellRows, spends, trans, back
<1>7. /\ nj.cp = j.cp /\ nj.tip = j.tip /\ nj.from = j.from /\ nj.to = j.to
      /\ nj.headers = j.headers
      /\ nj.hits = j.hits \ SameRecord(j.hits, m)
      /\ nj.created = Upsert(Upsert(j.created, backRows), cellRows)
      /\ nj.consumed = Upsert(j.consumed, spends)
      /\ nj.transitions = Upsert(j.transitions, trans)
  BY <1>0, <1>6 DEF JobTypeOK, EmptyJob
<1> HIDE DEF j, nj
<1>8. /\ DOMAIN backRows = back /\ \A c \in back : backRows[c] = BackfillRow(c)
  BY DEF backRows
<1>9. DOMAIN cellRows = outs /\ \A c \in outs : cellRows[c] = p
  BY <1>4 DEF cellRows, NewCells
<1>10. DOMAIN spends = Inputs[t] /\ \A c \in Inputs[t] : spends[c] = [by |-> t, at |-> p]
  BY <1>4 DEF spends, NewSpends
<1>11. /\ Extractable(Inputs[t], outs) =>
            /\ DOMAIN trans = {t}
            /\ trans[t] = [at |-> p, what |-> TransitionOf(Inputs[t], outs)]
       /\ ~ Extractable(Inputs[t], outs) => DOMAIN trans = {}
  BY <1>4 DEF trans, NewTransitions
<1> HIDE DEF outs, p
<1>12. /\ DOMAIN nj.created = DOMAIN j.created \cup back \cup outs
       /\ \A c \in outs : nj.created[c] = p
       /\ \A c \in back \ outs : nj.created[c] = BackfillRow(c)
       /\ \A c \in DOMAIN j.created \ (back \cup outs) : nj.created[c] = j.created[c]
  <2> DEFINE mid == Upsert(j.created, backRows)
  <2>1. /\ DOMAIN mid = DOMAIN j.created \cup back
        /\ \A c \in back : mid[c] = BackfillRow(c)
        /\ \A c \in DOMAIN j.created \ back : mid[c] = j.created[c]
    BY <1>8 DEF Upsert
  <2> HIDE DEF mid
  <2>2. nj.created = Upsert(mid, cellRows)
    BY <1>7 DEF mid
  <2>3. /\ DOMAIN nj.created = DOMAIN mid \cup outs
        /\ \A c \in outs : nj.created[c] = p
        /\ \A c \in DOMAIN mid \ outs : nj.created[c] = mid[c]
    BY <1>9, <2>2 DEF Upsert
  <2> QED BY <2>1, <2>3
<1>13. /\ DOMAIN nj.consumed = DOMAIN j.consumed \cup Inputs[t]
       /\ \A c \in Inputs[t] : nj.consumed[c] = [by |-> t, at |-> p]
       /\ \A c \in DOMAIN j.consumed \ Inputs[t] : nj.consumed[c] = j.consumed[c]
  BY <1>7, <1>10 DEF Upsert
<1>14. /\ DOMAIN nj.transitions = DOMAIN j.transitions \cup DOMAIN trans
       /\ \A u \in DOMAIN trans : nj.transitions[u] = trans[u]
       /\ \A u \in DOMAIN j.transitions \ DOMAIN trans : nj.transitions[u] = j.transitions[u]
  BY <1>7 DEF Upsert
<1>15. ~ Extractable(Inputs[t], outs) =>
          /\ DOMAIN nj.transitions = DOMAIN j.transitions
          /\ \A u \in DOMAIN j.transitions : nj.transitions[u] = j.transitions[u]
  BY <1>11, <1>14
<1>16. Batched(j, nj, m)
  BY <1>6, <1>7, <1>11, <1>12, <1>13, <1>14, <1>15 DEF Batched, back, outs, p
<1> QED BY <1>3, <1>16 DEF j, nj

\* The batch stays sound and the round gets on by one transaction.
LEMMA ProcessInv ==
    ASSUME TypeOK, WorldInv, NEW s \in Scanners, JobInv(pc[s], job[s]), Process(s)
    PROVE  JobInv(pc'[s], job'[s])
<1>1. PICK m : NextRecord(job[s], m) /\ Batched(job[s], job'[s], m)
  BY ProcessBatches
<1> DEFINE j == job[s]
           nj == job'[s]
           t == m.tx
           p == PlaceAt(m.block, m.index)
           back == Gaps(j, Inputs[t])
           outs == ClassifyOutputs(t)
<1>2. pc[s] = "process" /\ pc'[s] = "process"
  BY DEF Process
<1>3. NextRecord(j, m) /\ Batched(j, nj, m)
  BY <1>1
<1> HIDE DEF j, nj
<1>4. /\ t \in Txs /\ t = chain[m.block].txs[m.index]
      /\ PlacedAt(chain, tip, m.block, m.index, t)
      /\ CanonicalPlace(p, t)
  BY <1>3, RecordFacts
<1>5. ValidBranch(chain, tip) /\ ChainTypeOK
  BY DEF WorldInv, TypeOK
<1>6. /\ IndexedUpTo(nj.cp) /\ TargetSettled(nj) /\ RangeOK(nj) /\ HitsSound(nj)
      /\ HeadersOK(nj)
  BY <1>3 DEF NextRecord, Batched, TargetSettled, RangeOK, HitsSound, HeadersOK, HitBlocks
<1>7. BatchSound(nj)
  <2>1. ASSUME NEW c \in DOMAIN nj.created PROVE CreatedSound(c, nj.created[c])
    <3>1. CASE c \in outs
      <4>1. nj.created[c] = p
        BY <1>3, <3>1 DEF Batched
      <4>2. Anchored(p)
        BY DEF Anchored, PlaceAt
      <4> QED BY <1>4, <3>1, <4>1, <4>2 DEF CreatedSound
    <3>2. CASE c \in back \ outs
      <4>1. nj.created[c] = BackfillRow(c) /\ c \notin Malformed
        BY <1>3, <3>2 DEF Batched
      <4> QED BY <1>3, <3>2, <4>1, GapFacts
    <3>3. CASE c \in DOMAIN j.created \ (back \cup outs)
      <4>1. nj.created[c] = j.created[c]
        BY <1>3, <3>3 DEF Batched
      <4> QED BY <1>3, <3>3, <4>1 DEF NextRecord, BatchSound
    <3> QED BY <1>3, <2>1, <3>1, <3>2, <3>3 DEF Batched
  <2>2. ASSUME NEW c \in DOMAIN nj.consumed
        PROVE  ConsumedSound(c, nj.consumed[c]) /\ c \in DOMAIN nj.created \cup DOMAIN created
    <3>1. CASE c \in Inputs[t]
      <4>1. nj.consumed[c] = [by |-> t, at |-> p]
        BY <1>3, <3>1 DEF Batched
      <4>2. ConsumedSound(c, [by |-> t, at |-> p])
        BY <1>4, <3>1 DEF ConsumedSound, PlaceAt
      <4>3. c \in DOMAIN j.created \cup back \cup DOMAIN created
        BY <3>1 DEF Gaps
      <4> QED BY <1>3, <4>1, <4>2, <4>3 DEF Batched
    <3>2. CASE c \in DOMAIN j.consumed \ Inputs[t]
      <4>1. nj.consumed[c] = j.consumed[c]
        BY <1>3, <3>2 DEF Batched
      <4>2. ConsumedSound(c, j.consumed[c]) /\ c \in DOMAIN j.created \cup DOMAIN created
        BY <1>3, <3>2 DEF NextRecord, BatchSound
      <4> QED BY <1>3, <4>1, <4>2 DEF Batched
    <3> QED BY <1>3, <2>2, <3>1, <3>2 DEF Batched
  <2>3. ASSUME NEW u \in DOMAIN nj.transitions PROVE TransitionSound(u, nj.transitions[u])
    <3>1. CASE u = t /\ Extractable(Inputs[t], outs)
      <4>1. nj.transitions[t] = [at |-> p, what |-> TransitionOf(Inputs[t], outs)]
        BY <1>3, <3>1 DEF Batched
      <4>2. nj.transitions[t].at = p
        BY <4>1
      <4>3. p.block = m.block /\ p.index = m.index
        BY DEF PlaceAt
      <4>4. p = PlaceAt(nj.transitions[t].at.block, nj.transitions[t].at.index)
        BY <4>2, <4>3
      <4> HIDE DEF p, t, outs
      <4>5. nj.transitions[t].at = p /\ CanonicalPlace(p, t)
        BY <1>4, <4>2
      <4>6. nj.transitions[t] = [at |-> PlaceAt(nj.transitions[t].at.block, nj.transitions[t].at.index),
                                 what |-> TransitionOf(Inputs[t], outs)]
        BY <4>1, <4>4
      <4> QED BY <3>1, <4>5, <4>6 DEF TransitionSound, outs
    <3>2. CASE u \in DOMAIN j.transitions /\ ~ (u = t /\ Extractable(Inputs[t], outs))
      <4>1. nj.transitions[u] = j.transitions[u]
        BY <1>3, <3>2 DEF Batched
      <4> QED BY <1>3, <3>2, <4>1 DEF NextRecord, BatchSound
    <3> QED BY <1>3, <2>3, <3>1, <3>2 DEF Batched
  <2> QED BY <2>1, <2>2, <2>3 DEF BatchSound
<1>8. ASSUME NEW h \in nj.from .. nj.to, NEW i \in DOMAIN chain[h].txs
      PROVE  IF HasHit(nj, h, i) THEN Found(nj, h, i, LockKinds) ELSE TxBatched(nj, h, i)
  <2> DEFINE u == chain[h].txs[i]
  <2>0. h \in j.from .. j.to /\ nj.hits = j.hits \ SameRecord(j.hits, m)
    BY <1>3 DEF Batched
  <2>1. CASE h = m.block /\ i = m.index
    <3>1. ~ HasHit(nj, h, i)
      <4> SUFFICES ASSUME NEW n \in nj.hits, n.block = h, n.index = i PROVE FALSE
        BY DEF HasHit
      <4>1. n.tx = t
        BY <1>3, <1>4, <2>0, <2>1 DEF NextRecord, HitsSound, PlacedAt
      <4> QED BY <2>0, <2>1, <4>1 DEF SameRecord
    <3>2. u = t /\ PlaceAt(h, i) = p
      BY <1>4, <2>1
    <3>3. TxBatched(nj, h, i)
      BY <1>3, <3>2 DEF TxBatched, Batched
    <3> QED BY <3>1, <3>3
  <2>2. CASE ~ (h = m.block /\ i = m.index)
    <3>0. PlacedAt(chain, tip, h, i, u) /\ u \in Txs
      <4>1. h \in 0 .. tip
        <5>1. j.to <= j.tip - ReorgLag /\ j.tip <= tip
          BY <1>3 DEF NextRecord, TargetSettled, RangeOK
        <5>2. j.tip \in Int /\ j.from \in Nat /\ j.to \in Nat /\ tip \in Int
          BY <1>3, <1>5 DEF NextRecord, JobTypeOK, ChainTypeOK, Heights
        <5> QED BY <2>0, <5>1, <5>2
      <4> QED BY <1>5, <4>1, PlacedIsTx DEF PlacedAt
    <3>1. \A n \in SameRecord(j.hits, m) : ~ (n.block = h /\ n.index = i)
      BY <2>2 DEF SameRecord
    <3>2. HasHit(nj, h, i) <=> HasHit(j, h, i)
      BY <2>0, <3>1 DEF HasHit
    <3>3. Found(j, h, i, LockKinds) => Found(nj, h, i, LockKinds)
      BY <2>0, <3>1 DEF Found, HitFor
    <3>4. ASSUME TxBatched(j, h, i) PROVE TxBatched(nj, h, i)
      <4>1. u # t /\ Inputs[u] \cap Inputs[t] = {} /\ ClassifyOutputs(u) \cap outs = {}
        <5>1. u # t
          BY <1>4, <1>5, <2>2, <3>0, SamePlace
        <5>2. Inputs[u] \cap Inputs[t] = {}
          BY <1>4, <1>5, <2>2, <3>0, SameSpender
        <5>3. ClassifyOutputs(u) \cap outs = {}
          BY <1>4, <3>0, <5>1, SameCreator DEF ClassifyOutputs
        <5> QED BY <5>1, <5>2, <5>3
      <4>2. \A c \in ClassifyOutputs(u) :
              c \in DOMAIN nj.created /\ nj.created[c] = PlaceAt(h, i)
        BY <1>3, <3>4, <4>1 DEF TxBatched, Batched, Gaps
      <4>3. \A c \in Inputs[u] :
              c \in DOMAIN nj.consumed /\ nj.consumed[c] = [by |-> u, at |-> PlaceAt(h, i)]
        BY <1>3, <3>4, <4>1 DEF TxBatched, Batched
      <4>4. Extractable(Inputs[u], ClassifyOutputs(u)) =>
              /\ u \in DOMAIN nj.transitions
              /\ nj.transitions[u] = [at |-> PlaceAt(h, i),
                                      what |-> TransitionOf(Inputs[u], ClassifyOutputs(u))]
        BY <1>3, <3>4, <4>1 DEF TxBatched, Batched
      <4> QED BY <4>2, <4>3, <4>4 DEF TxBatched
    <3>5. IF HasHit(j, h, i) THEN Found(j, h, i, LockKinds) ELSE TxBatched(j, h, i)
      BY <1>3, <2>0 DEF NextRecord, DoneOrPending
    <3> QED BY <3>2, <3>3, <3>4, <3>5
  <2> QED BY <2>1, <2>2
<1>9. DoneOrPending(nj)
  BY <1>8 DEF DoneOrPending
<1> QED BY <1>2, <1>6, <1>7, <1>9 DEF JobInv, AfterTip, AfterCheck, Processing, PcLabels, nj

-----------------------------------------------------------------------------
(* apply_batch *)

\* A step that leaves the chain alone leaves settled blocks settled.
LEMMA ChainUnchanged ==
    ASSUME TypeOK, UNCHANGED chainVars
    PROVE  /\ ChainTypeOK /\ ChainTypeOK' /\ Settled
           /\ \A j : TargetSettled(j) => TargetSettled(j)'
<1>1. ChainTypeOK /\ ChainTypeOK'
  BY DEF TypeOK, ChainTypeOK, chainVars
<1>2. Settled
  BY DEF TypeOK, ChainTypeOK, Heights, chainVars, Settled
<1>3. \A j : TargetSettled(j) => TargetSettled(j)'
  BY DEF TargetSettled, chainVars
<1> QED BY <1>1, <1>2, <1>3

\* The rows a commit writes agree with the rows that are there.
LEMMA ApplyRows ==
    ASSUME TypeOK, WorldInv, TablesSound, NEW s \in Scanners,
           JobInv(pc[s], job[s]), ApplyBatch(s)
    PROVE  /\ DOMAIN created' = DOMAIN created \cup DOMAIN job[s].created
           /\ \A c \in DOMAIN job[s].created : created'[c] = job[s].created[c]
           /\ \A c \in DOMAIN created : created'[c] = created[c]
           /\ DOMAIN consumed' = DOMAIN consumed \cup DOMAIN job[s].consumed
           /\ \A c \in DOMAIN job[s].consumed : consumed'[c] = job[s].consumed[c]
           /\ \A c \in DOMAIN consumed : consumed'[c] = consumed[c]
           /\ DOMAIN transitions' = DOMAIN transitions \cup DOMAIN job[s].transitions
           /\ \A t \in DOMAIN job[s].transitions : transitions'[t] = job[s].transitions[t]
           /\ \A t \in DOMAIN transitions : transitions'[t] = transitions[t]
<1> DEFINE j == job[s]
<1>0. JobTypeOK(j) /\ pc[s] = "apply" /\ ValidBranch(chain, tip)
  BY DEF TypeOK, ApplyBatch, WorldInv
<1>1. BatchSound(j)
  BY <1>0 DEF JobInv, Processing
<1>3. /\ created' = Upsert(created, j.created)
      /\ consumed' = Upsert(consumed, SpendsWithRow(j))
      /\ transitions' = Upsert(transitions, j.transitions)
  BY DEF ApplyBatch
<1> HIDE DEF j
<1>4. DOMAIN SpendsWithRow(j) = DOMAIN j.consumed
      /\ \A c \in DOMAIN j.consumed : SpendsWithRow(j)[c] = j.consumed[c]
  <2>1. {d \in DOMAIN j.consumed : d \in DOMAIN created \cup DOMAIN j.created} = DOMAIN j.consumed
    BY <1>1 DEF BatchSound
  <2> QED BY <2>1 DEF SpendsWithRow
<1>5. /\ DOMAIN created' = DOMAIN created \cup DOMAIN j.created
      /\ \A c \in DOMAIN j.created : created'[c] = j.created[c]
      /\ \A c \in DOMAIN created : created'[c] = created[c]
  <2>1. /\ DOMAIN created' = DOMAIN created \cup DOMAIN j.created
        /\ \A c \in DOMAIN j.created : created'[c] = j.created[c]
        /\ \A c \in DOMAIN created \ DOMAIN j.created : created'[c] = created[c]
    BY <1>3 DEF Upsert
  <2>2. \A c \in DOMAIN created \cap DOMAIN j.created : created[c] = j.created[c]
    BY <1>0, <1>1, CreatedAgree DEF BatchSound, TablesSound
  <2> QED BY <2>1, <2>2
<1>6. /\ DOMAIN consumed' = DOMAIN consumed \cup DOMAIN j.consumed
      /\ \A c \in DOMAIN j.consumed : consumed'[c] = j.consumed[c]
      /\ \A c \in DOMAIN consumed : consumed'[c] = consumed[c]
  <2>1. /\ DOMAIN consumed' = DOMAIN consumed \cup DOMAIN j.consumed
        /\ \A c \in DOMAIN j.consumed : consumed'[c] = j.consumed[c]
        /\ \A c \in DOMAIN consumed \ DOMAIN j.consumed : consumed'[c] = consumed[c]
    BY <1>3, <1>4 DEF Upsert
  <2>2. \A c \in DOMAIN consumed \cap DOMAIN j.consumed : consumed[c] = j.consumed[c]
    BY <1>0, <1>1, ConsumedAgree DEF BatchSound, TablesSound
  <2> QED BY <2>1, <2>2
<1>7. /\ DOMAIN transitions' = DOMAIN transitions \cup DOMAIN j.transitions
      /\ \A t \in DOMAIN j.transitions : transitions'[t] = j.transitions[t]
      /\ \A t \in DOMAIN transitions : transitions'[t] = transitions[t]
  <2>1. /\ DOMAIN transitions' = DOMAIN transitions \cup DOMAIN j.transitions
        /\ \A t \in DOMAIN j.transitions : transitions'[t] = j.transitions[t]
        /\ \A t \in DOMAIN transitions \ DOMAIN j.transitions : transitions'[t] = transitions[t]
    BY <1>3 DEF Upsert
  <2>2. \A t \in DOMAIN transitions \cap DOMAIN j.transitions :
           transitions[t] = j.transitions[t]
    BY <1>0, <1>1, TransitionAgree DEF BatchSound, TablesSound
  <2> QED BY <2>1, <2>2
<1> QED BY <1>5, <1>6, <1>7 DEF j

\* The rows a commit writes keep the tables sound and complete the blocks of
\* its range.
LEMMA ApplyInv ==
    ASSUME TypeOK, TypeOK', WorldInv, TablesSound, NEW s \in Scanners,
           JobInv(pc[s], job[s]), ApplyBatch(s)
    PROVE  /\ RowsKept
           /\ TablesSound'
           /\ IndexedUpTo(checkpoint)'
           /\ JobInv(pc'[s], job'[s])
<1> DEFINE j == job[s]
<1>0. /\ UNCHANGED chainVars /\ JobTypeOK(j) /\ pc[s] = "apply" /\ pc'[s] = "prune"
      /\ job'[s] = j /\ ValidBranch(chain, tip)
  BY DEF TypeOK, ApplyBatch, Goto, WorldInv
<1>1. /\ IndexedUpTo(j.cp) /\ TargetSettled(j) /\ RangeOK(j) /\ HitsSound(j)
      /\ BatchSound(j) /\ DoneOrPending(j) /\ j.hits = {}
  BY <1>0 DEF JobInv, PcLabels, AfterTip, AfterCheck, Processing
<1>2. JobInv(pc'[s], job'[s])
  BY <1>0, <1>1 DEF JobInv, PcLabels, AfterTip, AfterCheck, Processing
<1>3. /\ created' = Upsert(created, j.created)
      /\ consumed' = Upsert(consumed, SpendsWithRow(j))
      /\ transitions' = Upsert(transitions, j.transitions)
      /\ checkpoint' = j.to
  BY DEF ApplyBatch
<1> HIDE DEF j
<1>5. /\ DOMAIN created' = DOMAIN created \cup DOMAIN j.created
      /\ \A c \in DOMAIN j.created : created'[c] = j.created[c]
      /\ \A c \in DOMAIN created : created'[c] = created[c]
  BY ApplyRows DEF j
<1>6. /\ DOMAIN consumed' = DOMAIN consumed \cup DOMAIN j.consumed
      /\ \A c \in DOMAIN j.consumed : consumed'[c] = j.consumed[c]
      /\ \A c \in DOMAIN consumed : consumed'[c] = consumed[c]
  BY ApplyRows DEF j
<1>7. /\ DOMAIN transitions' = DOMAIN transitions \cup DOMAIN j.transitions
      /\ \A t \in DOMAIN j.transitions : transitions'[t] = j.transitions[t]
      /\ \A t \in DOMAIN transitions : transitions'[t] = transitions[t]
  BY ApplyRows DEF j
<1>8. RowsKept
  BY <1>5, <1>6, <1>7 DEF RowsKept
<1>9. ChainTypeOK /\ ChainTypeOK' /\ Settled
  BY <1>0, ChainUnchanged
<1>10. TablesSound'
  <2>1. \A c \in DOMAIN created' : CreatedSound(c, created'[c])
    BY <1>1, <1>5 DEF TablesSound, BatchSound
  <2>2. \A c \in DOMAIN consumed' : ConsumedSound(c, consumed'[c])
    BY <1>1, <1>6 DEF TablesSound, BatchSound
  <2>3. \A t \in DOMAIN transitions' : TransitionSound(t, transitions'[t])
    BY <1>1, <1>7 DEF TablesSound, BatchSound
  <2> QED BY <1>9, <2>1, <2>2, <2>3, RowsStable DEF TablesSound
<1>11. ASSUME NEW h \in StartBlock .. j.cp PROVE BlockIndexed(h)'
  <2>1. PICK n \in Int : n = j.cp
    BY <1>0 DEF JobTypeOK, j
  <2>2. IndexedUpTo(n)'
    BY <1>1, <1>8, <1>9, <2>1, IndexedStable
  <2> QED BY <2>1, <2>2 DEF IndexedUpTo
<1>12. ASSUME NEW h \in j.from .. j.to PROVE BlockIndexed(h)'
  <2> SUFFICES ASSUME NEW i \in DOMAIN chain[h].txs PROVE TxIndexed(h, i)'
    BY <1>0 DEF BlockIndexed, chainVars
  <2>1. TxBatched(j, h, i)
    BY <1>1 DEF DoneOrPending, HasHit
  <2>2. chain' = chain /\ PlaceAt(h, i)' = PlaceAt(h, i)
    BY <1>0 DEF chainVars, PlaceAt
  <2> QED BY <1>5, <1>6, <1>7, <2>1, <2>2 DEF TxBatched, TxIndexed
<1>13. IndexedUpTo(checkpoint)'
  <2>1. /\ j.tip \in Int /\ j.cp \in Int /\ j.from \in Nat /\ j.to \in Nat /\ tip \in Int
        /\ tip' = tip
    BY <1>0 DEF JobTypeOK, TypeOK, ChainTypeOK, Heights, chainVars, j
  <2>2. /\ j.from >= StartBlock /\ j.from - 1 <= j.cp /\ j.to <= j.tip - ReorgLag
        /\ j.to >= j.from /\ j.tip <= tip
    BY <1>1 DEF RangeOK, TargetSettled
  <2>3. FinalHeight' = tip - ReorgLag
    BY <2>1 DEF FinalHeight
  <2>4. j.to <= tip - ReorgLag /\ j.to >= StartBlock - 1
    BY <2>1, <2>2
  <2>5. \A h \in StartBlock .. j.to : BlockIndexed(h)'
    <3> TAKE h \in StartBlock .. j.to
    <3>1. h \in StartBlock .. j.cp \/ h \in j.from .. j.to
      BY <2>1, <2>2
    <3> QED BY <1>11, <1>12, <3>1
  <2> QED BY <1>3, <2>3, <2>4, <2>5 DEF IndexedUpTo
<1> QED BY <1>2, <1>8, <1>10, <1>13

-----------------------------------------------------------------------------
(* The invariant, and what follows from it *)

\* A step of a scanner re-establishes its own round, keeps the tables sound,
\* and loses no row.
LEMMA StepInv ==
    ASSUME TypeOK, TypeOK', LagSuffices, IInv, NEW s \in Scanners,
           Step(s) \/ TransportError(s) \/ Crash(s)
    PROVE  /\ UNCHANGED chainVars
           /\ JobInv(pc'[s], job'[s])
           /\ \A r \in Scanners \ {s} : pc'[r] = pc[r] /\ job'[r] = job[r]
           /\ RowsKept
           /\ StoreInv'
<1>0. WorldInv /\ StoreInv /\ TablesSound /\ JobInv(pc[s], job[s])
  BY DEF IInv, StoreInv
<1>1. UNCHANGED chainVars /\ \A r \in Scanners \ {s} : pc'[r] = pc[r] /\ job'[r] = job[r]
  BY ZenonT(60) DEF TypeOK, Step, TransportError, Crash, EndRound, Goto, InitStream, GetNodeTip,
         GetIndexerTip, RecordProgress, CheckCheckpoint, CollectRgbpp, CollectBtcTime,
         Collect, FetchHeaders, Process, ProcessRecord, CheckpointHeader, ApplyBatch,
         Prune, RoundFails
<1>2. ChainTypeOK /\ ChainTypeOK' /\ Settled
  BY <1>1, ChainUnchanged
<1>3. ASSUME UNCHANGED factVars PROVE RowsKept /\ TablesSound'
  BY <1>0, <1>2, <1>3, TablesStable DEF RowsKept, factVars
<1>4. ASSUME UNCHANGED factVars, UNCHANGED checkpoint PROVE RowsKept /\ StoreInv'
  <2>1. ASSUME checkpoint # NULL PROVE IndexedUpTo(checkpoint)'
    <3>1. PICK n \in Int : n = checkpoint
      BY DEF TypeOK
    <3>2. IndexedUpTo(n)'
      BY <1>0, <1>2, <1>3, <1>4, <2>1, <3>1, IndexedStable DEF StoreInv
    <3>3. n = checkpoint'
      BY <1>4, <3>1
    <3> QED BY <3>2, <3>3 DEF IndexedUpTo
  <2> QED BY <1>3, <1>4, <2>1 DEF StoreInv
<1>5. CASE InitStream(s)
  <2>1. UNCHANGED factVars
    BY <1>5 DEF InitStream
  <2>2. IndexedUpTo(checkpoint') /\ JobInv(pc'[s], job'[s])
    BY <1>0, <1>5, InitStreamInv
  <2>3. IndexedUpTo(checkpoint)'
    <3>1. PICK n \in Int : n = checkpoint'
      BY DEF TypeOK
    <3>2. IndexedUpTo(n)'
      BY <1>2, <1>3, <2>1, <2>2, <3>1, IndexedStable
    <3> QED BY <3>1, <3>2 DEF IndexedUpTo
  <2> QED BY <1>1, <1>3, <2>1, <2>2, <2>3 DEF StoreInv
<1>6. CASE ApplyBatch(s)
  BY <1>0, <1>1, <1>6, ApplyInv DEF StoreInv
<1>7. CASE EndRound(s) /\ UNCHANGED factVars /\ UNCHANGED checkpoint
  BY <1>1, <1>4, <1>7, EndRoundInv
<1>8. CASE GetNodeTip(s) \/ GetIndexerTip(s)
  <2>1. UNCHANGED factVars /\ UNCHANGED checkpoint
    BY <1>8 DEF GetNodeTip, GetIndexerTip, dbVars, streamVars
  <2> QED BY <1>0, <1>1, <1>4, <1>8, <2>1, TipInv
<1>9. CASE RecordProgress(s)
  <2>1. UNCHANGED factVars /\ UNCHANGED checkpoint
    BY <1>9 DEF RecordProgress
  <2> QED BY <1>0, <1>1, <1>4, <1>9, <2>1, ProgressInv
<1>10. CASE CheckCheckpoint(s)
  <2>1. UNCHANGED factVars /\ UNCHANGED checkpoint
    BY <1>10 DEF CheckCheckpoint, dbVars, streamVars
  <2> QED BY <1>0, <1>1, <1>4, <1>10, <2>1, CheckInv
<1>11. CASE CollectRgbpp(s) \/ CollectBtcTime(s)
  <2>1. UNCHANGED factVars /\ UNCHANGED checkpoint
    BY <1>11 DEF CollectRgbpp, CollectBtcTime, Collect, dbVars, streamVars
  <2> QED BY <1>0, <1>1, <1>4, <1>11, <2>1, CollectInv
<1>12. CASE FetchHeaders(s)
  <2>1. UNCHANGED factVars /\ UNCHANGED checkpoint
    BY <1>12 DEF FetchHeaders, dbVars, streamVars
  <2> QED BY <1>0, <1>1, <1>4, <1>12, <2>1, HeadersInv
<1>13. CASE Process(s)
  <2>1. UNCHANGED factVars /\ UNCHANGED checkpoint
    BY <1>13 DEF Process, dbVars, streamVars
  <2> QED BY <1>0, <1>1, <1>4, <1>13, <2>1, ProcessInv
<1>14. CASE CheckpointHeader(s)
  <2>1. UNCHANGED factVars /\ UNCHANGED checkpoint
    BY <1>14 DEF CheckpointHeader, dbVars, streamVars
  <2> QED BY <1>0, <1>1, <1>4, <1>14, <2>1, CheckpointHeaderInv
<1>15. ASSUME Prune(s) \/ RoundFails(s) \/ TransportError(s) \/ Crash(s)
       PROVE  EndRound(s) /\ UNCHANGED factVars /\ UNCHANGED checkpoint
  BY <1>15 DEF Prune, RoundFails, TransportError, Crash, dbVars, streamVars
<1> QED BY <1>5, <1>6, <1>7, <1>8, <1>9, <1>10, <1>11, <1>12, <1>13, <1>14, <1>15 DEF Step

LEMMA InitInv ==
    ASSUME LagSuffices, Init
    PROVE  IInv
<1>1. WorldInv
  <2>1. /\ ValidBranch(chain, 0) /\ tip = 0 /\ forks = 0 /\ idx = chain /\ idxTip = 0
        /\ chain[0].fork = 0
    BY DEF Init, ChainInit, LagSuffices, Heights
  <2> QED BY <2>1 DEF WorldInv
<1>2. StoreInv
  BY DEF Init, StoreInv, TablesSound, NoRows
<1>3. \A s \in Scanners : JobInv(pc[s], job[s])
  BY IdleInv DEF Init
<1> QED BY <1>1, <1>2, <1>3 DEF IInv

LEMMA NextInv ==
    ASSUME TypeOK, TypeOK', LagSuffices, IInv, [Next]_vars
    PROVE  IInv' /\ RowsKept
<1>0. WorldInv /\ StoreInv /\ ChainTypeOK /\ ChainTypeOK'
  BY DEF IInv, TypeOK
<1>t. \A r \in Scanners : JobTypeOK(job[r]) /\ JobTypeOK(job'[r]) /\ pc[r] \in PcLabels /\ pc'[r] \in PcLabels
  BY DEF TypeOK, JobTypeOK
<1>1. CASE World
  <2>1. ChainNext /\ UNCHANGED factVars /\ UNCHANGED checkpoint /\ UNCHANGED <<pc, job>>
    BY <1>1 DEF World, dbVars, streamVars
  <2>2. WorldInv' /\ Settled /\ \A j : j.tip \in Int /\ TargetSettled(j) => TargetSettled(j)'
    BY <1>0, <2>1, WorldStep
  <2>3. RowsKept
    BY <2>1 DEF RowsKept, factVars
  <2>4. StoreInv'
    <3>1. TablesSound'
      BY <1>0, <2>1, <2>2, TablesStable DEF StoreInv
    <3>2. ASSUME checkpoint # NULL PROVE IndexedUpTo(checkpoint)'
      <4>1. PICK n \in Int : n = checkpoint
        BY DEF TypeOK
      <4>2. IndexedUpTo(n)'
        BY <1>0, <2>2, <2>3, <3>2, <4>1, IndexedStable DEF StoreInv
      <4>3. n = checkpoint'
        BY <2>1, <4>1
      <4> QED BY <4>2, <4>3 DEF IndexedUpTo
    <3> QED BY <2>1, <3>1, <3>2 DEF StoreInv
  <2>5. ASSUME NEW r \in Scanners PROVE JobInv(pc[r], job[r])'
    <3>1. PICK l \in PcLabels : l = pc[r]
      BY <1>t
    <3>2. PICK j : j = job[r]
      OBVIOUS
    <3>3. JobTypeOK(j) /\ JobInv(l, j) /\ j.tip \in Int
      BY <1>t, <3>1, <3>2 DEF IInv, JobTypeOK
    <3>4. JobInv(l, j)'
      BY <1>0, <2>2, <2>3, <3>3, JobStable
    <3> QED BY <2>1, <3>1, <3>2, <3>4
  <2> QED BY <2>2, <2>3, <2>4, <2>5 DEF IInv
<1>2. ASSUME NEW s \in Scanners, Step(s) \/ TransportError(s) \/ Crash(s)
      PROVE  IInv' /\ RowsKept
  <2>1. /\ UNCHANGED chainVars /\ JobInv(pc'[s], job'[s])
        /\ \A r \in Scanners \ {s} : pc'[r] = pc[r] /\ job'[r] = job[r]
        /\ RowsKept /\ StoreInv'
    BY <1>2, StepInv
  <2>2. Settled /\ \A j : TargetSettled(j) => TargetSettled(j)'
    BY <2>1, ChainUnchanged
  <2>3. WorldInv'
    BY <1>0, <2>1 DEF WorldInv, chainVars
  <2>4. ASSUME NEW r \in Scanners PROVE JobInv(pc[r], job[r])'
    <3>1. JobInv(pc'[r], job'[r])
      <4>1. CASE r = s
        BY <2>1, <4>1
      <4>2. CASE r # s
        BY <2>1, <4>2 DEF IInv
      <4> QED BY <4>1, <4>2
    <3>2. PICK l \in PcLabels : l = pc'[r]
      BY <1>t
    <3>3. PICK j : j = job'[r]
      OBVIOUS
    <3>4. JobTypeOK(j) /\ JobInv(l, j)
      BY <1>t, <3>1, <3>2, <3>3
    <3>5. JobInv(l, j)'
      BY <1>0, <2>1, <2>2, <3>4, JobStable
    <3> QED BY <3>2, <3>3, <3>5
  <2> QED BY <2>1, <2>3, <2>4 DEF IInv
<1>3. CASE UNCHANGED vars
  <2>1. UNCHANGED chainVars /\ UNCHANGED factVars /\ UNCHANGED checkpoint /\ UNCHANGED <<pc, job>>
    BY <1>3 DEF vars, dbVars, streamVars
  <2>2. Settled /\ \A j : TargetSettled(j) => TargetSettled(j)'
    BY <2>1, ChainUnchanged
  <2>3. RowsKept
    BY <2>1 DEF RowsKept, factVars
  <2>4. WorldInv'
    BY <1>0, <2>1 DEF WorldInv, chainVars
  <2>5. StoreInv'
    <3>1. TablesSound'
      BY <1>0, <2>1, <2>2, TablesStable DEF StoreInv
    <3>2. ASSUME checkpoint # NULL PROVE IndexedUpTo(checkpoint)'
      <4>1. PICK n \in Int : n = checkpoint
        BY DEF TypeOK
      <4>2. IndexedUpTo(n)'
        BY <1>0, <2>2, <2>3, <3>2, <4>1, IndexedStable DEF StoreInv
      <4>3. n = checkpoint'
        BY <2>1, <4>1
      <4> QED BY <4>2, <4>3 DEF IndexedUpTo
    <3> QED BY <2>1, <3>1, <3>2 DEF StoreInv
  <2>6. ASSUME NEW r \in Scanners PROVE JobInv(pc[r], job[r])'
    <3>1. PICK l \in PcLabels : l = pc[r]
      BY <1>t
    <3>2. PICK j : j = job[r]
      OBVIOUS
    <3>3. JobTypeOK(j) /\ JobInv(l, j)
      BY <1>t, <3>1, <3>2 DEF IInv
    <3>4. JobInv(l, j)'
      BY <1>0, <2>2, <2>3, <3>3, JobStable
    <3> QED BY <2>1, <3>1, <3>2, <3>4
  <2> QED BY <2>3, <2>4, <2>5, <2>6 DEF IInv
<1> QED BY <1>1, <1>2, <1>3 DEF Next

\* The inductive invariant holds for any number of scanner processes, any
\* chain, any batch size and any number of failures, as long as the lag is at
\* least as deep as the reorganisations.
THEOREM Invariant == LagSuffices /\ Spec => [](TypeOK /\ IInv)
<1> SUFFICES ASSUME LagSuffices PROVE Spec => [](TypeOK /\ IInv)
  OBVIOUS
<1>1. Init => IInv
  BY InitInv
<1>2. TypeOK /\ TypeOK' /\ IInv /\ [Next]_vars => IInv'
  BY NextInv
<1> QED BY <1>1, <1>2, TypeCorrect, PTL DEF Spec

\* No row of rgbpp_cells or rgbpp_transitions comes from an abandoned branch.
THEOREM Soundness == LagSuffices /\ Spec => []RowsSound
<1>1. TypeOK /\ IInv => RowsSound
  <2> SUFFICES ASSUME TypeOK, IInv PROVE RowsSound
    OBVIOUS
  <2>1. TablesSound
    BY DEF IInv, StoreInv
  <2>2. \A c \in DOMAIN created :
          \/ \E t \in Txs : c \in ClassifyOutputs(t) /\ CanonicalPlace(created[c], t)
          \/ BackfillPlace(created[c], c)
    BY <2>1 DEF TablesSound, CreatedSound
  <2>3. \A c \in DOMAIN consumed :
          c \in Inputs[consumed[c].by] /\ CanonicalPlace(consumed[c].at, consumed[c].by)
    BY <2>1 DEF TablesSound, ConsumedSound
  <2>4. \A t \in DOMAIN transitions :
          /\ CanonicalPlace(transitions[t].at, t)
          /\ transitions[t].what = TransitionOf(Inputs[t], ClassifyOutputs(t))
    BY <2>1 DEF TablesSound, TransitionSound
  <2> QED BY <2>2, <2>3, <2>4 DEF RowsSound
<1> QED BY <1>1, Invariant, PTL

\* Between start_block and the checkpoint no fact of the canonical chain is
\* missing from the tables.
THEOREM Completeness == LagSuffices /\ Spec => []CheckpointComplete
<1>1. TypeOK /\ IInv => CheckpointComplete
  <2> SUFFICES ASSUME TypeOK, IInv PROVE CheckpointComplete
    OBVIOUS
  <2>1. CASE checkpoint = NULL
    BY <2>1 DEF CheckpointComplete, NULL
  <2>2. CASE checkpoint # NULL
    BY <2>2 DEF IInv, StoreInv, IndexedUpTo, CheckpointComplete
  <2> QED BY <2>1, <2>2
<1> QED BY <1>1, Invariant, PTL

\* Replays by a restarted or by a second scanner never change or lose a row.
THEOREM Permanence == LagSuffices /\ Spec => RowsPermanent
<1> SUFFICES ASSUME LagSuffices PROVE Spec => RowsPermanent
  OBVIOUS
<1>1. TypeOK /\ TypeOK' /\ IInv /\ [Next]_vars => [RowsKept]_factVars
  BY NextInv
<1>2. LagSuffices
  OBVIOUS
<1> QED BY <1>1, <1>2, Invariant, PTL DEF Spec, RowsPermanent

=============================================================================
