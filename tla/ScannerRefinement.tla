------------------------- MODULE ScannerRefinement -------------------------
(***************************************************************************)
(* One scanner alone on its database: the checkpoint only moves forward,   *)
(* a reorganisation below it stops indexing, the header rows a rollback    *)
(* needs are kept, and the tables implement FactIndex.  The proofs.        *)
(***************************************************************************)
EXTENDS ScannerSafety

USE ChainAssumption, ScannerAssumption

-----------------------------------------------------------------------------
(* A scanner alone *)

\* What a step of the chain leaves alone: fork numbers only grow, and the
\* chain never gets shorter.
LEMMA ForksGrow ==
    ASSUME ChainTypeOK, ChainNext, \A h \in 0 .. tip : chain[h].fork <= forks
    PROVE  /\ tip' >= tip /\ forks' >= forks
           /\ \A h \in 0 .. tip' : chain'[h].fork <= forks'
           /\ \A h \in 0 .. tip :
                 chain'[h].fork = chain[h].fork \/ chain'[h].fork > forks
<1>0. tip \in Nat /\ tip <= MaxHeight /\ forks \in Nat /\ \A h \in 0 .. tip : chain[h].fork \in Nat
  BY DEF ChainTypeOK, Heights, Block
<1>1. CASE \E body \in Bodies : Mine(body)
  <2>1. PICK body \in Bodies : Mine(body)
    BY <1>1
  <2>2. \A h \in 0 .. tip : chain'[h] = chain[h]
    BY <1>0, <2>1 DEF Mine, ChainTypeOK, Heights
  <2>3. chain'[tip + 1].fork = forks
    BY <1>0, <2>1 DEF Mine, ChainTypeOK, Heights
  <2>4. tip' = tip + 1 /\ forks' = forks
    BY <2>1 DEF Mine
  <2>5. \A h \in 0 .. tip' : h \in 0 .. tip \/ h = tip + 1
    BY <1>0, <2>4
  <2>6. \A h \in 0 .. tip' : chain'[h].fork <= forks'
    BY <1>0, <2>2, <2>3, <2>4, <2>5
  <2> QED BY <1>0, <2>2, <2>4, <2>6, SMTT(30)
<1>2. CASE ReorgStep
  <2>1. PICK depth \in 1 .. MaxReorgDepth : \E bodies \in [tip - depth + 1 .. tip -> Bodies] :
             Reorg(depth, bodies)
    BY <1>2 DEF ReorgStep
  <2>2. PICK bodies \in [tip - depth + 1 .. tip -> Bodies] : Reorg(depth, bodies)
    BY <2>1
  <2>3. tip' = tip /\ forks' = forks + 1
    BY <2>2 DEF Reorg
  <2>4. \A h \in 0 .. tip : chain'[h] = chain[h] \/ chain'[h].fork = forks + 1
    BY <1>0, <2>2 DEF Reorg, Heights
  <2>5. \A h \in 0 .. tip : chain'[h].fork = chain[h].fork \/ chain'[h].fork > forks
    BY <1>0, <2>4
  <2>6. ASSUME NEW h \in 0 .. tip PROVE chain'[h].fork <= forks + 1
    <3>1. CASE chain'[h] = chain[h]
      <4>1. chain[h].fork \in Nat /\ chain[h].fork <= forks
        BY <1>0
      <4> QED BY <1>0, <3>1, <4>1
    <3>2. CASE chain'[h].fork = forks + 1
      BY <1>0, <3>2
    <3> QED BY <2>4, <3>1, <3>2
  <2> QED BY <1>0, <2>3, <2>5, <2>6
<1>3. CASE IndexerAdvance \/ IndexerRollback
  BY <1>0, <1>3 DEF IndexerAdvance, IndexerRollback
<1> QED BY <1>1, <1>2, <1>3 DEF ChainNext

\* The chain moves on under a running round.
LEMMA AloneWorld ==
    ASSUME TypeOK, TypeOK', AloneInv, World
    PROVE  AloneInv'
<1>0. /\ ChainTypeOK /\ tip \in Int /\ tip' \in Int /\ forks \in Nat /\ forks' \in Nat
      /\ checkpoint \in Int /\ cpFork \in Int
  <2>1. ChainTypeOK /\ ChainTypeOK' /\ checkpoint \in Int /\ cpFork \in Int
    BY DEF TypeOK
  <2>2. tip \in Int /\ forks \in Nat
    BY <2>1 DEF ChainTypeOK, Heights
  <2>3. tip' \in Int /\ forks' \in Nat
    BY <2>1 DEF ChainTypeOK, Heights
  <2> QED BY <2>1, <2>2, <2>3
<1>1. ChainNext /\ UNCHANGED <<checkpoint, cpFork, pc, job>>
  BY DEF World, dbVars, streamVars
<1>2. /\ tip' >= tip /\ forks' >= forks /\ \A h \in 0 .. tip' : chain'[h].fork <= forks'
  BY <1>0, <1>1, ForksGrow DEF AloneInv, CheckpointInv
<1>3. CheckpointInv'
  BY <1>0, <1>1, <1>2 DEF AloneInv, CheckpointInv, InitialCheckpoint, NULL
<1>4. ASSUME NEW s \in Scanners PROVE RoundInv(pc[s], job[s])'
  <2>1. RoundInv(pc[s], job[s]) /\ JobTypeOK(job[s])
    BY DEF AloneInv, TypeOK
  <2>2. job[s].tip \in Int /\ \A h \in DOMAIN job[s].headers : job[s].headers[h] \in Int
    BY <2>1 DEF JobTypeOK
  <2> QED BY <1>0, <1>1, <1>2, <2>1, <2>2 DEF RoundInv
<1> QED BY <1>3, <1>4 DEF AloneInv
\* A range starts after the checkpoint, ends at the target at the latest, and
\* is no longer than a batch.
LEMMA RangeToBounds ==
    ASSUME NEW cp \in Int, NEW target \in Int, cp < target, RangeFrom(cp) = cp + 1
    PROVE  /\ RangeTo(cp, target) >= RangeFrom(cp)
           /\ RangeTo(cp, target) <= cp + BatchBlocks
           /\ RangeTo(cp, target) <= target
<1>1. RangeTo(cp, target) = IF target <= cp + BatchBlocks THEN target ELSE cp + BatchBlocks
  BY DEF RangeTo
<1> QED BY <1>1

\* A round goes on, is committed, or ends, with no other scanner about.
LEMMA AloneStep ==
    ASSUME TypeOK, TypeOK', AloneInv, NEW s \in Scanners, OneScanner,
           Step(s) \/ TransportError(s) \/ Crash(s)
    PROVE  /\ AloneInv'
           /\ checkpoint' # checkpoint =>
                 /\ checkpoint' > checkpoint
                 /\ checkpoint # NULL => checkpoint' <= checkpoint + BatchBlocks
<1> DEFINE j == job[s]
           nj == job'[s]
<1>0. /\ JobTypeOK(j) /\ JobTypeOK(nj) /\ DOMAIN job = Scanners /\ DOMAIN job' = Scanners
      /\ pc[s] \in PcLabels /\ pc \in [Scanners -> PcLabels]
      /\ tip \in Nat /\ forks \in Nat /\ idxTip \in Int
      /\ checkpoint \in Int /\ cpFork \in Int /\ checkpoint' \in Int /\ cpFork' \in Int
      /\ \A h \in 0 .. tip : chain[h].fork \in Nat
  <2>1. JobTypeOK(j) /\ JobTypeOK(nj)
    BY DEF TypeOK, JobTypeOK
  <2>2. tip \in Nat /\ forks \in Nat /\ idxTip \in Int /\ \A h \in 0 .. tip : chain[h].fork \in Nat
    <3>1. ChainTypeOK
      BY DEF TypeOK
    <3> QED BY <3>1 DEF ChainTypeOK, Heights, Block
  <2> QED BY <2>1, <2>2 DEF TypeOK
<1>1. /\ j.cp \in Int /\ j.tip \in Int /\ j.from \in Nat /\ j.to \in Nat /\ j.cpFork \in Int
      /\ nj.cp \in Int /\ nj.tip \in Int /\ nj.from \in Nat /\ nj.to \in Nat /\ nj.cpFork \in Int
  BY <1>0 DEF JobTypeOK
<1>2. CheckpointInv /\ RoundInv(pc[s], j)
  BY DEF AloneInv
<1>3. UNCHANGED chainVars
  BY DEF Step, TransportError, Crash, InitStream, GetNodeTip,
         GetIndexerTip, RecordProgress, CheckCheckpoint, CollectRgbpp, CollectBtcTime,
         Collect, FetchHeaders, Process, ProcessRecord, CheckpointHeader, ApplyBatch,
         Prune, RoundFails
<1>4. UNCHANGED <<chain, tip, forks>>
  BY <1>3 DEF chainVars
<1>5. ASSUME CheckpointInv', RoundInv(pc[s], job[s])'
      PROVE  AloneInv'
  BY <1>5 DEF AloneInv, OneScanner
<1>6. ASSUME UNCHANGED <<checkpoint, cpFork>> PROVE CheckpointInv'
  BY <1>2, <1>4, <1>6 DEF CheckpointInv, InitialCheckpoint
<1>7. CASE InitStream(s)
  <2>1. /\ checkpoint' = IF checkpoint = NULL THEN InitialCheckpoint ELSE checkpoint
        /\ cpFork' = cpFork /\ pc[s] = "idle" /\ pc'[s] = "node_tip"
        /\ nj.cp = checkpoint' /\ nj.cpFork = cpFork /\ nj.headers = j.headers
    BY <1>0, <1>7 DEF InitStream, Goto, JobTypeOK, EmptyJob
  <2>2. InitialCheckpoint \in Nat
    BY DEF InitialCheckpoint
  <2>3. CheckpointInv'
    <3>1. InitialCheckpoint' = InitialCheckpoint
      BY DEF InitialCheckpoint
    <3>2. CASE checkpoint # NULL
      <4>1. UNCHANGED <<checkpoint, cpFork>>
        BY <2>1, <3>2
      <4> QED BY <1>6, <4>1
    <3>3. CASE checkpoint = NULL
      <4>1. checkpoint' = InitialCheckpoint /\ cpFork = NULL /\ cpFork' = NULL
        BY <1>2, <2>1, <3>3 DEF CheckpointInv
      <4>2. cpFork <= forks /\ \A h \in 0 .. tip : chain[h].fork <= forks
        BY <1>2 DEF CheckpointInv
      <4>3. cpFork' <= forks' /\ (\A h \in 0 .. tip : chain[h].fork <= forks)'
        BY <1>4, <2>1, <4>2
      <4>4. checkpoint' >= NULL /\ checkpoint' # NULL
        BY <2>2, <4>1 DEF NULL
      <4>5. checkpoint' >= InitialCheckpoint'
        BY <2>2, <3>1, <4>1
      <4> QED BY <4>1, <4>3, <4>4, <4>5 DEF CheckpointInv, NULL
    <3> QED BY <3>2, <3>3
  <2>4. RoundInv(pc[s], job[s])'
    BY <1>2, <1>4, <2>1, <2>2 DEF RoundInv, BeforeCheck, AfterCheck, AfterTip, PcLabels, NULL
  <2>5. checkpoint' # checkpoint => checkpoint' > checkpoint /\ checkpoint = NULL
    BY <2>1, <2>2 DEF NULL
  <2> QED BY <1>5, <2>3, <2>4, <2>5
<1>8. CASE EndRound(s) /\ UNCHANGED <<checkpoint, cpFork>>
  <2>1. pc'[s] = "idle" /\ nj = EmptyJob
    BY <1>0, <1>8 DEF EndRound, Goto
  <2>2. RoundInv(pc[s], job[s])'
    BY <2>1 DEF RoundInv, EmptyJob, NoRows, BeforeCheck, AfterCheck, AfterTip, PcLabels
  <2> QED BY <1>5, <1>6, <1>8, <2>2
<1>9. CASE GetNodeTip(s)
  <2>1. /\ UNCHANGED <<checkpoint, cpFork>> /\ pc[s] = "node_tip" /\ pc'[s] = "indexer_tip"
        /\ nj = [j EXCEPT !.tip = tip]
    BY <1>0, <1>9 DEF GetNodeTip, Goto, dbVars, streamVars
  <2>2. nj.cp = j.cp /\ nj.cpFork = j.cpFork /\ nj.tip = tip /\ nj.headers = j.headers
    BY <1>0, <2>1 DEF JobTypeOK, EmptyJob
  <2>3. RoundInv(pc[s], job[s])'
    BY <1>0, <1>2, <1>4, <2>1, <2>2 DEF RoundInv, BeforeCheck, AfterCheck, AfterTip, PcLabels
  <2> QED BY <1>5, <1>6, <2>1, <2>3
<1>10. CASE GetIndexerTip(s)
  <2>1. /\ UNCHANGED <<checkpoint, cpFork>> /\ pc[s] = "indexer_tip" /\ pc'[s] = "progress"
        /\ nj = [j EXCEPT !.tip = SyncedTip(j.tip)]
    BY <1>0, <1>10 DEF GetIndexerTip, Goto, dbVars, streamVars
  <2>2. nj.cp = j.cp /\ nj.cpFork = j.cpFork /\ nj.tip = SyncedTip(j.tip) /\ nj.headers = j.headers
    BY <1>0, <2>1 DEF JobTypeOK, EmptyJob
  <2>3. SyncedTip(j.tip) <= j.tip
    BY <1>0, <1>1, SMTT(30) DEF SyncedTip
  <2>4. j.tip <= tip
    BY <1>2, <2>1 DEF RoundInv
  <2>5. nj.tip <= tip'
    BY <1>0, <1>1, <1>4, <2>2, <2>3, <2>4
  <2>6. RoundInv(pc[s], job[s])'
    BY <1>2, <1>4, <2>1, <2>2, <2>5 DEF RoundInv, BeforeCheck, AfterCheck, AfterTip, PcLabels
  <2> QED BY <1>5, <1>6, <2>1, <2>6
<1>11. CASE RecordProgress(s) /\ ~ EndRound(s)
  <2>1. /\ UNCHANGED <<checkpoint, cpFork>> /\ pc[s] = "progress" /\ pc'[s] = "check"
        /\ nj = j /\ j.cp < j.tip - ReorgLag
    BY <1>0, <1>1, <1>11 DEF RecordProgress, Goto
  <2>2. RoundInv(pc[s], job[s])'
    BY <1>2, <1>4, <2>1 DEF RoundInv, BeforeCheck, AfterCheck, AfterTip, PcLabels
  <2> QED BY <1>5, <1>6, <2>1, <2>2
<1>12. CASE CheckCheckpoint(s)
  <2> DEFINE lo == RangeFrom(j.cp)
             hi == RangeTo(j.cp, j.tip - ReorgLag)
  <2>1. /\ UNCHANGED <<checkpoint, cpFork>> /\ pc[s] = "check" /\ pc'[s] = "collect_rgbpp"
        /\ nj = [j EXCEPT !.from = lo, !.to = hi]
    BY <1>0, <1>12 DEF CheckCheckpoint, Goto, dbVars, streamVars
  <2>2. /\ nj.cp = j.cp /\ nj.cpFork = j.cpFork /\ nj.tip = j.tip /\ nj.headers = j.headers
        /\ nj.from = lo /\ nj.to = hi
    BY <1>0, <2>1 DEF JobTypeOK, EmptyJob
  <2>3. /\ j.cp = checkpoint /\ checkpoint >= InitialCheckpoint /\ j.cp < j.tip - ReorgLag
        /\ j.tip <= tip
    BY <1>2, <2>1 DEF RoundInv, CheckpointInv
  <2>4. lo = j.cp + 1
    BY <1>1, <2>3 DEF RangeFrom, InitialCheckpoint
  <2>5. hi >= lo /\ hi <= j.cp + BatchBlocks /\ hi <= j.tip - ReorgLag
    <3>1. j.tip - ReorgLag \in Int
      BY <1>1
    <3> QED BY <1>1, <2>3, <2>4, <3>1, RangeToBounds
  <2>6. RoundInv(pc[s], job[s])'
    BY <1>2, <1>4, <2>1, <2>2, <2>3, <2>4, <2>5 DEF RoundInv, BeforeCheck
  <2> QED BY <1>5, <1>6, <2>1, <2>6
<1>13. CASE CollectRgbpp(s) \/ CollectBtcTime(s)
  <2>1. /\ UNCHANGED <<checkpoint, cpFork>>
        /\ pc[s] \in {"collect_rgbpp", "collect_btc_time"}
        /\ pc'[s] \in {"collect_btc_time", "headers"}
        /\ \E f : nj = [j EXCEPT !.hits = f]
    BY <1>0, <1>13 DEF CollectRgbpp, CollectBtcTime, Collect, Goto, dbVars, streamVars
  <2>2. /\ nj.cp = j.cp /\ nj.cpFork = j.cpFork /\ nj.tip = j.tip /\ nj.headers = j.headers
        /\ nj.from = j.from /\ nj.to = j.to
    BY <1>0, <2>1 DEF JobTypeOK, EmptyJob
  <2>3. RoundInv(pc[s], job[s])'
    BY <1>2, <1>4, <2>1, <2>2 DEF RoundInv, BeforeCheck, AfterCheck, AfterTip, PcLabels
  <2> QED BY <1>5, <1>6, <2>1, <2>3
<1>14. CASE FetchHeaders(s)
  <2> DEFINE headers == [h \in HitBlocks(j.hits) |-> chain[h].fork]
  <2>1. /\ UNCHANGED <<checkpoint, cpFork>> /\ pc[s] = "headers" /\ pc'[s] = "process"
        /\ nj = [j EXCEPT !.headers = headers]
        /\ \A h \in HitBlocks(j.hits) : h <= tip
    BY <1>0, <1>14 DEF FetchHeaders, Goto, dbVars, streamVars
  <2>2. /\ nj.cp = j.cp /\ nj.cpFork = j.cpFork /\ nj.tip = j.tip /\ nj.headers = headers
        /\ nj.from = j.from /\ nj.to = j.to
    BY <1>0, <2>1 DEF JobTypeOK, EmptyJob
  <2>3. \A h \in HitBlocks(j.hits) : h \in 0 .. tip
    <3>1. \A m \in j.hits : m.block \in Nat
      BY <1>0 DEF JobTypeOK, Hit
    <3>2. \A h \in HitBlocks(j.hits) : h \in Nat
      BY <3>1 DEF HitBlocks
    <3> QED BY <1>0, <2>1, <3>2
  <2>4. \A h \in HitBlocks(j.hits) : chain[h].fork \in 0 .. forks
    BY <1>0, <1>2, <2>3 DEF CheckpointInv
  <2>5. \A h \in DOMAIN nj.headers : nj.headers[h] \in 0 .. forks'
    BY <1>4, <2>2, <2>4
  <2>6. RoundInv(pc[s], job[s])'
    BY <1>2, <1>4, <2>1, <2>2, <2>5 DEF RoundInv, BeforeCheck, AfterCheck, AfterTip, PcLabels
  <2> QED BY <1>5, <1>6, <2>1, <2>6
<1>15. CASE Process(s)
  <2>1. /\ UNCHANGED <<checkpoint, cpFork>> /\ pc[s] = "process" /\ pc'[s] = "process"
        /\ \E a, b, c, d : nj = [j EXCEPT !.hits = a, !.created = b,
                                          !.consumed = c, !.transitions = d]
    <3>1. PICK m \in j.hits : \E gone \in SUBSET {c \in Gaps(j, FlaggedInputs(j.hits, m)) :
                                   ~ OnNodeChain(c)} : ProcessRecord(s, m, gone)
      BY <1>15 DEF Process
    <3>2. PICK gone : ProcessRecord(s, m, gone)
      BY <3>1
    <3>3. PICK hs, cr, co, tr : job' = [job EXCEPT ![s].hits = hs, ![s].created = cr,
                                                ![s].consumed = co, ![s].transitions = tr]
      BY <3>2 DEF ProcessRecord
    <3>4. \E a, b, c, d : nj = [j EXCEPT !.hits = a, !.created = b,
                                        !.consumed = c, !.transitions = d]
      BY <1>0, <3>3
    <3> QED BY <1>15, <3>4 DEF Process, dbVars, streamVars
  <2>2. /\ nj.cp = j.cp /\ nj.cpFork = j.cpFork /\ nj.tip = j.tip /\ nj.headers = j.headers
        /\ nj.from = j.from /\ nj.to = j.to
    BY <1>0, <2>1 DEF JobTypeOK, EmptyJob
  <2>3. RoundInv(pc[s], job[s])'
    BY <1>2, <1>4, <2>1, <2>2 DEF RoundInv, BeforeCheck, AfterCheck, AfterTip, PcLabels
  <2> QED BY <1>5, <1>6, <2>1, <2>3
<1>16. CASE CheckpointHeader(s)
  <2> DEFINE f == IF j.to \in DOMAIN j.headers THEN j.headers[j.to] ELSE chain[j.to].fork
  <2>1. /\ UNCHANGED <<checkpoint, cpFork>> /\ pc[s] = "process" /\ pc'[s] = "apply"
        /\ nj = [j EXCEPT !.cpFork = f]
        /\ j.to \in DOMAIN j.headers \/ j.to <= tip
    BY <1>0, <1>16 DEF CheckpointHeader, Goto, dbVars, streamVars
  <2>2. /\ nj.cp = j.cp /\ nj.cpFork = f /\ nj.tip = j.tip /\ nj.headers = j.headers
        /\ nj.from = j.from /\ nj.to = j.to
    BY <1>0, <2>1 DEF JobTypeOK, EmptyJob
  <2>3. f \in 0 .. forks
    <3>1. CASE j.to \in DOMAIN j.headers
      BY <1>2, <3>1 DEF RoundInv
    <3>2. CASE j.to \notin DOMAIN j.headers
      <4>1. j.to \in 0 .. tip
        BY <1>0, <1>1, <2>1, <3>2, SMTT(30)
      <4>2. chain[j.to].fork \in Nat /\ chain[j.to].fork <= forks
        BY <1>0, <1>2, <4>1 DEF CheckpointInv
      <4> QED BY <1>0, <3>2, <4>2
    <3> QED BY <3>1, <3>2
  <2> HIDE DEF f
  <2>4. RoundInv(pc[s], job[s])'
    BY <1>2, <1>4, <2>1, <2>2, <2>3 DEF RoundInv, BeforeCheck, AfterCheck, AfterTip, PcLabels
  <2> QED BY <1>5, <1>6, <2>1, <2>4
<1>17. CASE ApplyBatch(s)
  <2>1. /\ checkpoint' = j.to /\ cpFork' = j.cpFork /\ pc[s] = "apply" /\ pc'[s] = "prune"
        /\ nj = j
    BY <1>0, <1>17 DEF ApplyBatch, Goto
  <2>2. /\ j.cp = checkpoint /\ checkpoint # NULL /\ j.cpFork \in 0 .. forks /\ j.tip <= tip
        /\ j.from = j.cp + 1 /\ j.to >= j.from /\ j.to <= j.cp + BatchBlocks
        /\ j.to <= j.tip - ReorgLag
    BY <1>2, <2>1 DEF RoundInv, AfterCheck, AfterTip, PcLabels
  <2>3. /\ checkpoint' > checkpoint /\ checkpoint' <= checkpoint + BatchBlocks
        /\ checkpoint' <= tip /\ checkpoint' # NULL
    BY <1>0, <1>1, <2>1, <2>2, SMTT(30) DEF NULL
  <2>4. InitialCheckpoint \in Nat /\ checkpoint >= InitialCheckpoint
    BY <1>2, <2>2 DEF CheckpointInv, InitialCheckpoint
  <2>5. checkpoint' >= InitialCheckpoint
    BY <1>0, <2>3, <2>4
  <2>6. CheckpointInv'
    BY <1>0, <1>2, <1>4, <2>1, <2>2, <2>3, <2>5 DEF CheckpointInv, InitialCheckpoint, NULL
  <2>7. RoundInv(pc[s], job[s])'
    BY <1>2, <1>4, <2>1, <2>2, <2>3 DEF RoundInv, BeforeCheck, AfterCheck, AfterTip, PcLabels
  <2> QED BY <1>5, <2>3, <2>6, <2>7
<1>18. ASSUME Prune(s) \/ RoundFails(s) \/ TransportError(s) \/ Crash(s)
       PROVE  EndRound(s) /\ UNCHANGED <<checkpoint, cpFork>>
  BY <1>18 DEF Prune, RoundFails, TransportError, Crash, dbVars, streamVars
<1>19. ASSUME RecordProgress(s) PROVE UNCHANGED <<checkpoint, cpFork>>
  BY <1>19 DEF RecordProgress
<1> QED BY <1>7, <1>8, <1>9, <1>10, <1>11, <1>12, <1>13, <1>14, <1>15, <1>16, <1>17,
           <1>18, <1>19 DEF Step

\* AloneInv is inductive, whatever the chain does.
LEMMA AloneNext ==
    ASSUME TypeOK, TypeOK', AloneInv, OneScanner, [Next]_vars
    PROVE  /\ AloneInv'
           /\ checkpoint' # checkpoint =>
                 /\ checkpoint' > checkpoint
                 /\ checkpoint # NULL => checkpoint' <= checkpoint + BatchBlocks
<1>1. CASE World
  BY <1>1, AloneWorld DEF World, dbVars, streamVars
<1>2. ASSUME NEW s \in Scanners, Step(s) \/ TransportError(s) \/ Crash(s)
      PROVE  /\ AloneInv'
             /\ checkpoint' # checkpoint =>
                   /\ checkpoint' > checkpoint
                   /\ checkpoint # NULL => checkpoint' <= checkpoint + BatchBlocks
  BY <1>2, AloneStep
<1>3. CASE UNCHANGED vars
  BY <1>3 DEF vars, chainVars, dbVars, streamVars, AloneInv, CheckpointInv, RoundInv,
              InitialCheckpoint
<1> QED BY <1>1, <1>2, <1>3 DEF Next

LEMMA AloneInit ==
    ASSUME Init
    PROVE  AloneInv
<1>1. CheckpointInv
  BY DEF Init, ChainInit, CheckpointInv, NULL, Heights
<1>2. \A s \in Scanners : RoundInv(pc[s], job[s])
  BY DEF Init, RoundInv, EmptyJob, NoRows, BeforeCheck, AfterCheck, AfterTip, PcLabels
<1> QED BY <1>1, <1>2 DEF AloneInv

LEMMA Alone == OneScanner /\ Spec => []AloneInv
<1> SUFFICES ASSUME OneScanner PROVE Spec => []AloneInv
  OBVIOUS
<1>1. Init => AloneInv
  BY AloneInit
<1>2. TypeOK /\ TypeOK' /\ AloneInv /\ [Next]_vars => AloneInv'
  BY AloneNext
<1> QED BY <1>1, <1>2, TypeCorrect, PTL DEF Spec

\* One scanner never takes its checkpoint back and never skips more than a
\* batch (scan_once), whatever the depth of the reorganisations, and however
\* many rounds fail or crash.
THEOREM MonotoneCheckpoint == OneScanner /\ Spec => CheckpointMonotone
<1> SUFFICES ASSUME OneScanner PROVE Spec => CheckpointMonotone
  OBVIOUS
<1>1. TypeOK /\ TypeOK' /\ AloneInv /\ [Next]_vars =>
        [checkpoint' > checkpoint
         /\ (checkpoint # NULL => checkpoint' <= checkpoint + BatchBlocks)]_checkpoint
  BY AloneNext
<1>2. OneScanner
  OBVIOUS
<1> QED BY <1>1, <1>2, Alone, TypeCorrect, PTL DEF Spec, CheckpointMonotone

-----------------------------------------------------------------------------
(* A reorganisation below the checkpoint *)

\* The checkpoint has left the chain and no round is past its check.
Halted(n) ==
    /\ OffChain
    /\ checkpoint = n
    /\ \A s \in Scanners : pc[s] \in BeforeCheck

\* The abandoned hash never comes back: a later branch has a fork number of
\* its own, and every round is refused.
LEMMA HaltedStep ==
    ASSUME TypeOK, TypeOK', AloneInv, OneScanner, [Next]_vars, NEW n, Halted(n)
    PROVE  Halted(n)'
<1>0. /\ ChainTypeOK /\ tip \in Nat /\ forks \in Nat /\ checkpoint \in Int /\ cpFork \in Int
      /\ pc \in [Scanners -> PcLabels] /\ DOMAIN job = Scanners
  BY DEF TypeOK, ChainTypeOK, Heights
<1>1. /\ cpFork # NULL /\ checkpoint \in 0 .. tip /\ checkpoint > 0
      /\ chain[checkpoint].fork # cpFork /\ cpFork <= forks
      /\ \A h \in 0 .. tip : chain[h].fork <= forks
  BY <1>0 DEF Halted, OffChain, AloneInv, CheckpointInv
<1>2. CASE World
  <2>1. ChainNext /\ UNCHANGED <<checkpoint, cpFork, pc, job>>
    BY <1>2 DEF World, dbVars, streamVars
  <2>2. \/ chain'[checkpoint].fork = chain[checkpoint].fork
        \/ chain'[checkpoint].fork > forks
    BY <1>0, <1>1, <2>1, ForksGrow
  <2>3. chain'[checkpoint].fork # cpFork
    <3>1. \A f : f > forks => f # cpFork
      BY <1>0, <1>1
    <3> QED BY <1>1, <2>2, <3>1
  <2> QED BY <2>1, <2>3, <1>1 DEF Halted, OffChain
<1>3. ASSUME NEW s \in Scanners, Step(s) \/ TransportError(s) \/ Crash(s)
      PROVE  Halted(n)'
  <2>1. pc[s] \in BeforeCheck /\ RoundInv(pc[s], job[s])
    BY DEF Halted, AloneInv
  <2>2. ~ CheckCheckpoint(s)
    <3> SUFFICES ASSUME CheckCheckpoint(s) PROVE FALSE
      OBVIOUS
    <3>1. pc[s] = "check" /\ CheckpointCanonical(job[s])
      BY DEF CheckCheckpoint
    <3>2. job[s].cp = checkpoint /\ job[s].cpFork = cpFork
      BY <2>1, <3>1 DEF RoundInv, BeforeCheck
    <3> QED BY <1>1, <3>1, <3>2 DEF CheckpointCanonical
  <2>3. UNCHANGED <<chain, checkpoint, cpFork>> /\ pc'[s] \in BeforeCheck
    <3>1. CASE InitStream(s)
      BY <1>0, <1>1, <3>1 DEF InitStream, Goto, chainVars, BeforeCheck, NULL
    <3>2. CASE GetNodeTip(s) \/ GetIndexerTip(s)
      BY <1>0, <3>2 DEF GetNodeTip, GetIndexerTip, Goto, chainVars, dbVars, streamVars, BeforeCheck
    <3>3. CASE RecordProgress(s)
      BY <1>0, <3>3 DEF RecordProgress, EndRound, Goto, chainVars, BeforeCheck
    <3>4. CASE Prune(s) \/ RoundFails(s) \/ TransportError(s) \/ Crash(s)
      BY <1>0, <3>4 DEF Prune, RoundFails, TransportError, Crash, EndRound, Goto, chainVars,
                        dbVars, streamVars, BeforeCheck
    <3>5. ~ (CollectRgbpp(s) \/ CollectBtcTime(s) \/ FetchHeaders(s) \/ Process(s)
             \/ CheckpointHeader(s) \/ ApplyBatch(s))
      BY <2>1 DEF BeforeCheck, CollectRgbpp, CollectBtcTime, Collect, FetchHeaders, Process,
                  CheckpointHeader, ApplyBatch
    <3> QED BY <1>3, <2>2, <3>1, <3>2, <3>3, <3>4, <3>5 DEF Step
  <2> QED BY <2>3 DEF Halted, OffChain, OneScanner
<1>4. CASE UNCHANGED vars
  BY <1>4 DEF vars, chainVars, dbVars, streamVars, Halted, OffChain
<1> QED BY <1>2, <1>3, <1>4 DEF Next

\* assert_checkpoint_still_canonical: once the checkpoint is off the chain the
\* one scanner never advances again, however often the chain is reorganised
\* afterwards and to whatever depth.
THEOREM HaltsForGood == OneScanner /\ Spec => HaltsOnFork
<1> SUFFICES ASSUME OneScanner PROVE Spec => HaltsOnFork
  OBVIOUS
<1>1. ASSUME NEW n \in Heights
      PROVE  Spec => [](OffChain /\ checkpoint = n /\ (\A s \in Scanners : pc[s] \in BeforeCheck)
                          => [](checkpoint = n))
  <2>1. TypeOK /\ TypeOK' /\ AloneInv /\ [Next]_vars /\ Halted(n) => Halted(n)'
    BY HaltedStep
  <2>2. OffChain /\ checkpoint = n /\ (\A s \in Scanners : pc[s] \in BeforeCheck) => Halted(n)
    BY DEF Halted
  <2>3. Halted(n) => checkpoint = n
    BY DEF Halted
  <2>4. OneScanner
    OBVIOUS
  <2> QED BY <2>1, <2>2, <2>3, <2>4, Alone, TypeCorrect, PTL DEF Spec
<1> QED BY <1>1 DEF HaltsOnFork

-----------------------------------------------------------------------------
(* The header rows *)

\* A round is about settled blocks only.
LEMMA RangeSettled ==
    ASSUME TypeOK, NEW j, JobTypeOK(j), TargetSettled(j), RangeOK(j), NEW h \in j.from .. j.to
    PROVE  h \in StartBlock .. FinalHeight /\ h \in 0 .. tip /\ FinalHeight \in Int
<1>1. j.to <= j.tip - ReorgLag /\ j.tip <= tip /\ j.from >= StartBlock
  BY DEF TargetSettled, RangeOK
<1>2. j.tip \in Int /\ j.from \in Nat /\ j.to \in Nat /\ tip \in Int
  BY DEF JobTypeOK, TypeOK, ChainTypeOK, Heights
<1>3. FinalHeight = tip - ReorgLag
  BY DEF FinalHeight
<1> QED BY <1>1, <1>2, <1>3

\* A block has activity when it has a transaction, which a search then finds.
LEMMA ActivityTouches ==
    ASSUME ChainTypeOK, NEW h \in 0 .. tip
    PROVE  /\ HasActivity(h) <=> \E i : i \in DOMAIN chain[h].txs
           /\ \A i \in DOMAIN chain[h].txs :
                 \E lock \in LockKinds : Touches(chain[h].txs[i], lock)
<1>1. h \in Heights /\ chain[h].txs \in Seq(Txs)
  BY DEF ChainTypeOK, Heights, Block
<1>2. HasActivity(h) <=> \E i : i \in DOMAIN chain[h].txs
  <2>1. CASE chain[h].txs = <<>>
    BY <2>1 DEF HasActivity
  <2>2. CASE chain[h].txs # <<>>
    <3>1. 1 \in DOMAIN chain[h].txs
      BY <1>1, <2>2
    <3> QED BY <2>2, <3>1 DEF HasActivity
  <2> QED BY <2>1, <2>2
<1>3. ASSUME NEW i \in DOMAIN chain[h].txs
      PROVE  \E lock \in LockKinds : Touches(chain[h].txs[i], lock)
  <2>1. chain[h].txs[i] \in Txs
    BY PlacedIsTx
  <2>2. PICK c \in Inputs[chain[h].txs[i]] \cup Outputs[chain[h].txs[i]] : TRUE
    BY <2>1, BodyAssumption
  <2>3. c \in Cells
    BY <2>1, <2>2, BodyAssumption
  <2>4. LockOf[c] \in LockKinds
    BY <2>3, BodyAssumption
  <2> QED BY <2>2, <2>4 DEF Touches
<1> QED BY <1>2, <1>3

\* The searches return the blocks with activity, all of them and no others.
LEMMA HitBlocksExact ==
    ASSUME TypeOK, NEW j, JobTypeOK(j), TargetSettled(j), RangeOK(j), HitsSound(j),
           AllFound(j, LockKinds)
    PROVE  HitBlocks(j.hits) = {h \in j.from .. j.to : HasActivity(h)}
<1>0. ChainTypeOK
  BY DEF TypeOK
<1>1. ASSUME NEW h \in HitBlocks(j.hits) PROVE h \in j.from .. j.to /\ HasActivity(h)
  <2>1. PICK m \in j.hits : m.block = h
    BY DEF HitBlocks
  <2>2. h \in j.from .. j.to /\ h \in 0 .. tip /\ m.index \in DOMAIN chain[h].txs
    BY <2>1 DEF HitsSound, PlacedAt
  <2> QED BY <1>0, <2>2, ActivityTouches
<1>2. ASSUME NEW h \in j.from .. j.to, HasActivity(h) PROVE h \in HitBlocks(j.hits)
  <2>1. h \in 0 .. tip
    BY RangeSettled
  <2>2. PICK i : i \in DOMAIN chain[h].txs
    BY <1>0, <1>2, <2>1, ActivityTouches
  <2>3. PICK lock \in LockKinds : Touches(chain[h].txs[i], lock)
    BY <1>0, <2>1, <2>2, ActivityTouches
  <2>4. HitFor(h, i, lock) \in j.hits
    BY <2>2, <2>3 DEF AllFound, Found
  <2>5. HitFor(h, i, lock).block = h
    BY DEF HitFor
  <2> QED BY <2>4, <2>5 DEF HitBlocks
<1> QED BY <1>1, <1>2

\* A round keeps its headers when the chain moves on.
LEMMA HeaderStable ==
    ASSUME TypeOK, Settled, NEW l \in PcLabels, NEW j, JobTypeOK(j), JobInv(l, j), HeaderInv(l, j)
    PROVE  HeaderInv(l, j)'
<1>1. CASE l \notin Processing
  BY <1>1 DEF HeaderInv, Processing
<1>2. CASE l \in Processing
  <2>1. TargetSettled(j) /\ RangeOK(j)
    BY <1>2 DEF JobInv, Processing, AfterTip, AfterCheck, PcLabels
  <2>2. \A h \in j.from .. j.to : chain'[h] = chain[h]
    <3> TAKE h \in j.from .. j.to
    <3>1. h \in StartBlock .. FinalHeight /\ h \in 0 .. tip /\ FinalHeight \in Int
      BY <2>1, RangeSettled
    <3>2. h \in 0 .. FinalHeight
      BY <3>1
    <3> QED BY <3>2 DEF Settled
  <2>3. \A h \in j.from .. j.to : HasActivity(h)' = HasActivity(h)
    BY <2>2 DEF HasActivity
  <2>4. j.to \in j.from .. j.to
    BY <2>1 DEF RangeOK, JobTypeOK
  <2>5. chain'[j.to] = chain[j.to]
    BY <2>2, <2>4
  <2>6. {h \in j.from .. j.to : HasActivity(h)'} = {h \in j.from .. j.to : HasActivity(h)}
    BY <2>3
  <2> QED BY <2>5, <2>6 DEF HeaderInv
<1> QED BY <1>1, <1>2

\* The rows keep describing the chain when it moves on.
LEMMA BlocksStable ==
    ASSUME TypeOK, TypeOK', Settled, StoreInv, BlocksInv, UNCHANGED <<blocks, checkpoint, cpFork>>
    PROVE  BlocksInv'
<1>0. /\ FinalHeight \in Int /\ FinalHeight' \in Int /\ FinalHeight <= FinalHeight'
      /\ checkpoint \in Int
  BY PlacesStable DEF TypeOK
<1>1. \A h \in StartBlock .. FinalHeight : chain'[h] = chain[h]
  <2> TAKE h \in StartBlock .. FinalHeight
  <2>1. h \in 0 .. FinalHeight
    BY <1>0
  <2> QED BY <2>1 DEF Settled
<1>2. \A h \in StartBlock .. FinalHeight : HasActivity(h)' = HasActivity(h)
  BY <1>1 DEF HasActivity
<1>3. \A h \in StartBlock .. checkpoint : h \in StartBlock .. FinalHeight
  <2>1. checkpoint >= StartBlock => checkpoint <= FinalHeight
    BY <1>0 DEF StoreInv, IndexedUpTo, NULL
  <2> QED BY <1>0, <2>1
<1>4. \A h \in StartBlock .. FinalHeight : h \in StartBlock .. FinalHeight'
  BY <1>0
<1>5. ASSUME NEW h \in DOMAIN blocks
      PROVE  /\ h \in StartBlock .. FinalHeight'
             /\ blocks'[h].fork = chain'[h].fork
             /\ blocks'[h].activity = HasActivity(h)'
  <2>1. /\ h \in StartBlock .. FinalHeight /\ blocks[h].fork = chain[h].fork
        /\ blocks[h].activity = HasActivity(h)
    BY DEF BlocksInv
  <2>2. chain'[h].fork = chain[h].fork /\ HasActivity(h)' = HasActivity(h) /\ blocks' = blocks
    BY <1>1, <1>2, <2>1
  <2>3. h \in StartBlock .. FinalHeight'
    BY <1>4, <2>1
  <2> HIDE DEF HasActivity
  <2> QED BY <2>1, <2>2, <2>3
<1>6. \A h \in StartBlock .. checkpoint :
         h >= checkpoint - HeaderRetention /\ HasActivity(h)' => h \in DOMAIN blocks
  BY <1>2, <1>3 DEF BlocksInv
<1> QED BY <1>5, <1>6 DEF BlocksInv

\* The rows of a commit: the blocks with activity and the checkpoint, each as
\* the chain has it, and no flag taken back.
LEMMA ApplyBlocks ==
    ASSUME TypeOK, TypeOK', BlocksInv, NEW s \in Scanners, JobInv(pc[s], job[s]),
           RoundInv(pc[s], job[s]), HeaderInv(pc[s], job[s]), CheckpointInv, ApplyBatch(s)
    PROVE  BlocksInv'
<1> DEFINE j == job[s]
           rows == BlockRows(j)
<1>0. /\ UNCHANGED <<chain, tip>> /\ JobTypeOK(j) /\ pc[s] = "apply"
      /\ blocks' = Upsert(blocks, rows) /\ checkpoint' = j.to
  BY DEF ApplyBatch, TypeOK, chainVars
<1>1. /\ TargetSettled(j) /\ RangeOK(j) /\ HeadersOK(j)
      /\ DOMAIN j.headers = {h \in j.from .. j.to : HasActivity(h)}
      /\ j.cpFork = chain[j.to].fork /\ j.from = j.cp + 1 /\ j.cp = checkpoint
  BY <1>0 DEF JobInv, HeaderInv, RoundInv, PcLabels, AfterTip, AfterCheck, Processing
<1>2. /\ j.to \in j.from .. j.to /\ j.from \in Nat /\ j.to \in Nat /\ j.cp \in Int
      /\ checkpoint \in Int
  BY <1>0, <1>1, SMTT(30) DEF RangeOK, JobTypeOK, TypeOK
<1>3. FinalHeight' = FinalHeight /\ \A h : HasActivity(h)' = HasActivity(h)
  BY <1>0 DEF FinalHeight, HasActivity
<1> DEFINE dom == DOMAIN j.headers \cup {j.to}
<1>4. dom \subseteq j.from .. j.to
  BY <1>1, <1>2
<1>5. DOMAIN rows = dom
  BY DEF BlockRows
<1>6. ASSUME NEW h \in dom
      PROVE  /\ rows[h].fork = chain[h].fork
             /\ rows[h].activity = HasActivity(h)
  <2>1. h \in j.from .. j.to
    BY <1>4
  <2>2. rows[h].fork = IF h \in DOMAIN j.headers THEN j.headers[h] ELSE j.cpFork
    BY <1>5 DEF BlockRows
  <2>3. rows[h].activity = (h \in DOMAIN j.headers \/ (h \in DOMAIN blocks /\ blocks[h].activity))
    BY <1>5 DEF BlockRows
  <2>4. rows[h].fork = chain[h].fork
    <3>1. CASE h \in DOMAIN j.headers
      BY <1>1, <2>2, <3>1 DEF HeadersOK
    <3>2. CASE h \notin DOMAIN j.headers
      BY <1>1, <2>2, <3>2
    <3> QED BY <3>1, <3>2
  <2>5. h \in DOMAIN j.headers <=> HasActivity(h)
    BY <1>1, <2>1
  <2>6. h \in DOMAIN blocks => blocks[h].activity = HasActivity(h)
    BY DEF BlocksInv
  <2>7. (h \in DOMAIN j.headers \/ (h \in DOMAIN blocks /\ blocks[h].activity)) <=> HasActivity(h)
    BY <2>5, <2>6, Zenon
  <2> HIDE DEF rows, j
  <2>8. rows[h].activity = HasActivity(h)
    BY <2>3, <2>7 DEF HasActivity
  <2> QED BY <2>4, <2>8
<1> HIDE DEF rows, dom, j
<1>7. /\ DOMAIN blocks' = DOMAIN blocks \cup dom
      /\ \A h \in dom : blocks'[h] = rows[h]
      /\ \A h \in DOMAIN blocks \ dom : blocks'[h] = blocks[h]
  BY <1>0, <1>5 DEF Upsert
<1>8. ASSUME NEW h \in DOMAIN blocks'
      PROVE  /\ h \in StartBlock .. FinalHeight'
             /\ blocks'[h].fork = chain'[h].fork
             /\ blocks'[h].activity = HasActivity(h)'
  <2>1. CASE h \in dom
    <3>1. h \in StartBlock .. FinalHeight
      BY <1>0, <1>1, <1>4, <2>1, RangeSettled
    <3>2. blocks'[h] = rows[h]
      BY <1>7, <2>1
    <3>3. /\ rows[h].fork = chain[h].fork /\ rows[h].activity = HasActivity(h)
      BY <1>6, <2>1
    <3>4. FinalHeight' = FinalHeight /\ HasActivity(h)' = HasActivity(h) /\ chain' = chain
      BY <1>0, <1>3
    <3> HIDE DEF HasActivity, FinalHeight
    <3> QED BY <3>1, <3>2, <3>3, <3>4
  <2>2. CASE h \in DOMAIN blocks \ dom
    <3>1. blocks'[h] = blocks[h]
      BY <1>7, <2>2
    <3>2. /\ h \in StartBlock .. FinalHeight /\ blocks[h].fork = chain[h].fork
          /\ blocks[h].activity = HasActivity(h)
      BY <2>2 DEF BlocksInv
    <3>4. FinalHeight' = FinalHeight /\ HasActivity(h)' = HasActivity(h) /\ chain' = chain
      BY <1>0, <1>3
    <3> HIDE DEF HasActivity, FinalHeight
    <3> QED BY <3>1, <3>2, <3>4
  <2> QED BY <1>7, <2>1, <2>2
<1>9. ASSUME NEW h \in StartBlock .. j.to, h >= j.to - HeaderRetention, HasActivity(h)
      PROVE  h \in DOMAIN blocks'
  <2>1. CASE h \in j.from .. j.to
    BY <1>1, <1>7, <1>9, <2>1 DEF dom
  <2>2. CASE h \notin j.from .. j.to
    <3>1. h \in StartBlock .. checkpoint
      BY <1>1, <1>2, <2>2
    <3>2. h >= checkpoint - HeaderRetention
      BY <1>1, <1>2, <1>9, <3>1
    <3> QED BY <1>7, <1>9, <3>1, <3>2 DEF BlocksInv
  <2> QED BY <2>1, <2>2
<1>10. j.to \in DOMAIN blocks'
  BY <1>7 DEF dom
<1> QED BY <1>0, <1>3, <1>8, <1>9, <1>10 DEF BlocksInv

\* Pruning leaves the retention window below the checkpoint alone.
LEMMA PruneBlocks ==
    ASSUME TypeOK, TypeOK', BlocksInv, NEW s \in Scanners, RoundInv(pc[s], job[s]), Prune(s)
    PROVE  BlocksInv'
<1> DEFINE low == checkpoint - HeaderRetention
<1>0. checkpoint \in Int /\ DOMAIN blocks \subseteq Nat /\ low \in Int
  BY DEF TypeOK
<1>1. /\ UNCHANGED <<chain, tip, checkpoint, cpFork>>
      /\ blocks' = [h \in {k \in DOMAIN blocks : k >= low} |-> blocks[h]]
  BY DEF Prune, RoundInv, chainVars, streamVars
<1>2. FinalHeight' = FinalHeight /\ \A h : HasActivity(h)' = HasActivity(h)
  BY <1>1 DEF FinalHeight, HasActivity
<1>3. DOMAIN blocks' \subseteq DOMAIN blocks /\ \A h \in DOMAIN blocks' : blocks'[h] = blocks[h]
  BY <1>1
<1>4. \A h \in DOMAIN blocks : h >= low => h \in DOMAIN blocks'
  BY <1>1
<1>5. ASSUME NEW h \in DOMAIN blocks'
      PROVE  /\ h \in StartBlock .. FinalHeight'
             /\ blocks'[h].fork = chain'[h].fork
             /\ blocks'[h].activity = HasActivity(h)'
  <2>1. h \in DOMAIN blocks /\ blocks'[h] = blocks[h] /\ chain' = chain
    BY <1>1, <1>3
  <2>2. /\ h \in StartBlock .. FinalHeight /\ blocks[h].fork = chain[h].fork
        /\ blocks[h].activity = HasActivity(h)
    BY <2>1 DEF BlocksInv
  <2>3. FinalHeight' = FinalHeight /\ HasActivity(h)' = HasActivity(h)
    BY <1>2
  <2> HIDE DEF HasActivity, FinalHeight
  <2> QED BY <2>1, <2>2, <2>3
<1>6. \A h \in StartBlock .. checkpoint : h >= low /\ HasActivity(h) => h \in DOMAIN blocks'
  BY <1>4 DEF BlocksInv
<1>7. checkpoint >= low
  BY <1>0
<1>8. cpFork # NULL => checkpoint \in DOMAIN blocks'
  BY <1>4, <1>7 DEF BlocksInv
<1> QED BY <1>1, <1>2, <1>5, <1>6, <1>8 DEF BlocksInv

-----------------------------------------------------------------------------
(* The tables hold nothing from above the checkpoint *)

\* A record adds rows of its own block, and of cells from below start_block
\* that it spends.
LEMMA ProcessUpTo ==
    ASSUME TypeOK, WorldInv, NEW s \in Scanners, JobInv(pc[s], job[s]), Process(s),
           UpTo(job[s].to, job[s].created, job[s].consumed, job[s].transitions)
    PROVE  UpTo(job'[s].to, job'[s].created, job'[s].consumed, job'[s].transitions)
<1>1. PICK m : NextRecord(job[s], m) /\ Batched(job[s], job'[s], m)
  BY ProcessBatches
<1> DEFINE j == job[s]
           nj == job'[s]
           t == m.tx
           p == PlaceAt(m.block, m.index)
           back == Gaps(j, Inputs[t])
           outs == ClassifyOutputs(t)
<1>2. NextRecord(j, m) /\ Batched(j, nj, m)
  BY <1>1
<1>3. UpTo(j.to, j.created, j.consumed, j.transitions)
  OBVIOUS
<1> HIDE DEF j, nj
<1>4. /\ t \in Txs /\ m.block \in j.from .. j.to /\ m.index \in DOMAIN chain[m.block].txs
      /\ m.block \in 0 .. tip
  BY <1>2, RecordFacts DEF PlacedAt
<1>5. /\ j.from \in Nat /\ j.to \in Nat /\ j.from >= StartBlock /\ j.to >= j.from /\ nj.to = j.to
  BY <1>2 DEF NextRecord, JobTypeOK, RangeOK, Batched
<1>6. m.index \in Nat /\ m.index # UnknownTxIndex
  <2>1. ChainTypeOK
    BY DEF TypeOK
  <2>2. m.index \in Nat
    BY <1>4, <2>1, PlacedIsTx
  <2> QED BY <2>2 DEF UnknownTxIndex
<1>7. p.block <= nj.to /\ p.index # UnknownTxIndex
  BY <1>4, <1>5, <1>6 DEF PlaceAt
<1>8. ASSUME NEW c \in back
      PROVE  BackfillRow(c).block <= nj.to /\ c \in DOMAIN nj.consumed
  <2>1. c \in Inputs[t] /\ c \notin Malformed
    BY <1>2 DEF Gaps, Batched
  <2>2. CreatedSound(c, BackfillRow(c))
    BY <1>2, <2>1, GapFacts
  <2>3. BackfillRow(c).index = UnknownTxIndex
    BY DEF BackfillRow
  <2>4. ~ \E u \in Txs : CanonicalPlace(BackfillRow(c), u)
    <3> SUFFICES ASSUME NEW u \in Txs, CanonicalPlace(BackfillRow(c), u) PROVE FALSE
      OBVIOUS
    <3>1. /\ BackfillRow(c).block \in 0 .. tip
          /\ UnknownTxIndex \in DOMAIN chain[BackfillRow(c).block].txs
      BY <2>3 DEF CanonicalPlace, PlacedAt
    <3>2. UnknownTxIndex \in Nat
      BY <3>1, PlacedIsTx DEF TypeOK
    <3> QED BY <3>2 DEF UnknownTxIndex
  <2>5. BackfillRow(c).block \in 0 .. StartBlock - 1
    BY <2>2, <2>4 DEF CreatedSound, BackfillPlace
  <2>6. c \in DOMAIN nj.consumed
    BY <1>2, <2>1 DEF Batched
  <2> QED BY <1>5, <2>5, <2>6
<1>9. ASSUME NEW c \in DOMAIN nj.created
      PROVE  /\ nj.created[c].block <= nj.to
             /\ nj.created[c].index = UnknownTxIndex => c \in DOMAIN nj.consumed
  <2>1. c \in outs \/ c \in back \ outs \/ c \in DOMAIN j.created \ (back \cup outs)
    BY <1>2 DEF Batched
  <2>2. CASE c \in outs
    <3>1. nj.created[c] = p
      BY <1>2, <2>2 DEF Batched
    <3> QED BY <1>7, <3>1
  <2>3. CASE c \in back \ outs
    <3>1. nj.created[c] = BackfillRow(c)
      BY <1>2, <2>3 DEF Batched
    <3> QED BY <1>8, <2>3, <3>1
  <2>4. CASE c \in DOMAIN j.created \ (back \cup outs)
    <3>1. nj.created[c] = j.created[c] /\ DOMAIN j.consumed \subseteq DOMAIN nj.consumed
      BY <1>2, <2>4 DEF Batched
    <3> QED BY <1>3, <1>5, <2>4, <3>1 DEF UpTo
  <2> QED BY <2>1, <2>2, <2>3, <2>4
<1>10. ASSUME NEW c \in DOMAIN nj.consumed PROVE nj.consumed[c].at.block <= nj.to
  <2>1. CASE c \in Inputs[t]
    <3>1. nj.consumed[c].at = p
      BY <1>2, <2>1 DEF Batched
    <3> QED BY <1>7, <3>1
  <2>2. CASE c \notin Inputs[t]
    <3>1. c \in DOMAIN j.consumed /\ nj.consumed[c] = j.consumed[c]
      BY <1>2, <2>2 DEF Batched
    <3> QED BY <1>3, <1>5, <3>1 DEF UpTo
  <2> QED BY <2>1, <2>2
<1>11. ASSUME NEW u \in DOMAIN nj.transitions
       PROVE  nj.transitions[u].at.block <= nj.to /\ Extractable(Inputs[u], ClassifyOutputs(u))
  <2>1. CASE u = t /\ Extractable(Inputs[t], ClassifyOutputs(t))
    <3>1. nj.transitions[u].at = p
      BY <1>2, <2>1 DEF Batched
    <3> QED BY <1>7, <2>1, <3>1
  <2>2. CASE ~ (u = t /\ Extractable(Inputs[t], ClassifyOutputs(t)))
    <3>1. u \in DOMAIN j.transitions /\ nj.transitions[u] = j.transitions[u]
      BY <1>2, <2>2 DEF Batched
    <3> QED BY <1>3, <1>5, <3>1 DEF UpTo
  <2> QED BY <2>1, <2>2
<1>12. UpTo(nj.to, nj.created, nj.consumed, nj.transitions)
  BY <1>9, <1>10, <1>11 DEF UpTo
<1> QED BY <1>12 DEF nj

\* A commit raises the tables to the end of its range, and no further.
LEMMA ApplyUpTo ==
    ASSUME TypeOK, WorldInv, TablesSound, NEW s \in Scanners, JobInv(pc[s], job[s]),
           RoundInv(pc[s], job[s]), ApplyBatch(s),
           UpTo(checkpoint, created, consumed, transitions),
           UpTo(job[s].to, job[s].created, job[s].consumed, job[s].transitions)
    PROVE  UpTo(checkpoint', created', consumed', transitions')
<1> DEFINE j == job[s]
           n == j.to
<1>0. /\ j.to \in Nat /\ j.cp \in Int /\ checkpoint \in Int
      /\ \A c \in DOMAIN created : created[c].block \in Nat
  BY DEF TypeOK, JobTypeOK, Place
<1>1. checkpoint' = n /\ checkpoint < n
  <2>1. checkpoint' = n /\ pc[s] = "apply"
    BY DEF ApplyBatch
  <2>2. j.cp = checkpoint /\ j.from = j.cp + 1 /\ j.to >= j.from
    BY <2>1 DEF RoundInv, AfterCheck, AfterTip, PcLabels
  <2> QED BY <1>0, <2>1, <2>2
<1>2. /\ \A c \in DOMAIN consumed : consumed[c].at.block \in Int
      /\ \A t \in DOMAIN transitions : transitions[t].at.block \in Int
  BY DEF TablesSound, ConsumedSound, TransitionSound, CanonicalPlace, FinalHeight, TypeOK,
         ChainTypeOK, Heights
<1>3. /\ UpTo(checkpoint, created, consumed, transitions)
      /\ UpTo(n, j.created, j.consumed, j.transitions)
  OBVIOUS
<1> HIDE DEF j, n
<1>4. /\ DOMAIN created' = DOMAIN created \cup DOMAIN j.created
      /\ \A c \in DOMAIN j.created : created'[c] = j.created[c]
      /\ \A c \in DOMAIN created : created'[c] = created[c]
      /\ DOMAIN consumed' = DOMAIN consumed \cup DOMAIN j.consumed
      /\ \A c \in DOMAIN j.consumed : consumed'[c] = j.consumed[c]
      /\ \A c \in DOMAIN consumed : consumed'[c] = consumed[c]
      /\ DOMAIN transitions' = DOMAIN transitions \cup DOMAIN j.transitions
      /\ \A t \in DOMAIN j.transitions : transitions'[t] = j.transitions[t]
      /\ \A t \in DOMAIN transitions : transitions'[t] = transitions[t]
  BY ApplyRows DEF j
<1>5. \A b \in Int : b <= checkpoint => b <= n
  BY <1>0, <1>1 DEF n
<1>6. ASSUME NEW c \in DOMAIN created'
      PROVE  /\ created'[c].block <= n
             /\ created'[c].index = UnknownTxIndex => c \in DOMAIN consumed'
  <2>1. CASE c \in DOMAIN j.created
    BY <1>3, <1>4, <2>1 DEF UpTo
  <2>2. CASE c \in DOMAIN created
    <3>1. created[c].block \in Int /\ created[c].block <= checkpoint
      BY <1>0, <1>3, <2>2 DEF UpTo
    <3> QED BY <1>3, <1>4, <1>5, <2>2, <3>1 DEF UpTo
  <2> QED BY <1>4, <2>1, <2>2
<1>7. ASSUME NEW c \in DOMAIN consumed' PROVE consumed'[c].at.block <= n
  <2>1. CASE c \in DOMAIN j.consumed
    BY <1>3, <1>4, <2>1 DEF UpTo
  <2>2. CASE c \in DOMAIN consumed
    BY <1>2, <1>3, <1>4, <1>5, <2>2 DEF UpTo
  <2> QED BY <1>4, <2>1, <2>2
<1>8. ASSUME NEW t \in DOMAIN transitions'
      PROVE  transitions'[t].at.block <= n /\ Extractable(Inputs[t], ClassifyOutputs(t))
  <2>1. CASE t \in DOMAIN j.transitions
    BY <1>3, <1>4, <2>1 DEF UpTo
  <2>2. CASE t \in DOMAIN transitions
    BY <1>2, <1>3, <1>4, <1>5, <2>2 DEF UpTo
  <2> QED BY <1>4, <2>1, <2>2
<1> QED BY <1>1, <1>6, <1>7, <1>8 DEF UpTo

-----------------------------------------------------------------------------
(* The invariant of a scanner alone *)

\* What a step leaves alone that is neither init_stream, nor a commit, nor a
\* pruning.
LEMMA ReadOnlyStep ==
    ASSUME NEW s \in Scanners, Step(s) \/ TransportError(s) \/ Crash(s),
           ~ InitStream(s), ~ ApplyBatch(s), ~ Prune(s)
    PROVE  UNCHANGED <<blocks, checkpoint, cpFork, created, consumed, transitions>>
BY DEF Step, TransportError, Crash, GetNodeTip, GetIndexerTip, RecordProgress,
       CheckCheckpoint, CollectRgbpp, CollectBtcTime, Collect, FetchHeaders, Process,
       CheckpointHeader, RoundFails, dbVars, streamVars, factVars

\* A round gets its headers and fills its batch.
LEMMA SoloRound ==
    ASSUME TypeOK, TypeOK', LagSuffices, IInv, SoloInv, NEW s \in Scanners,
           Step(s) \/ TransportError(s) \/ Crash(s)
    PROVE  /\ HeaderInv(pc'[s], job'[s])
           /\ pc'[s] \in Processing =>
                 UpTo(job'[s].to, job'[s].created, job'[s].consumed, job'[s].transitions)
<1> DEFINE j == job[s]
           nj == job'[s]
<1>0. /\ JobTypeOK(j) /\ DOMAIN job = Scanners /\ pc \in [Scanners -> PcLabels]
      /\ JobInv(pc[s], j) /\ HeaderInv(pc[s], j) /\ WorldInv
      /\ pc[s] \in Processing => UpTo(j.to, j.created, j.consumed, j.transitions)
  BY DEF TypeOK, IInv, SoloInv, ExactInv
<1>1. CASE FetchHeaders(s)
  <2> DEFINE headers == [h \in HitBlocks(j.hits) |-> chain[h].fork]
  <2>1. pc[s] = "headers" /\ pc'[s] = "process" /\ nj = [j EXCEPT !.headers = headers]
    BY <1>0, <1>1 DEF FetchHeaders, Goto
  <2>2. /\ nj.from = j.from /\ nj.to = j.to /\ nj.headers = headers
        /\ nj.created = j.created /\ nj.consumed = j.consumed /\ nj.transitions = j.transitions
    BY <1>0, <2>1 DEF JobTypeOK, EmptyJob
  <2>3. /\ TargetSettled(j) /\ RangeOK(j) /\ HitsSound(j) /\ EmptyBatch(j)
        /\ AllFound(j, LockKinds)
    BY <1>0, <2>1 DEF JobInv, PcLabels, AfterTip, AfterCheck
  <2>4. HitBlocks(j.hits) = {h \in j.from .. j.to : HasActivity(h)}
    BY <1>0, <2>3, HitBlocksExact
  <2>5. UpTo(nj.to, nj.created, nj.consumed, nj.transitions)
    BY <2>2, <2>3 DEF UpTo, EmptyBatch, NoRows
  <2>6. HeaderInv(pc'[s], nj)
    BY <2>1, <2>2, <2>4 DEF HeaderInv
  <2> QED BY <2>5, <2>6
<1>2. CASE Process(s)
  <2>1. pc[s] = "process" /\ pc'[s] = "process"
    BY <1>2 DEF Process
  <2>2. nj.from = j.from /\ nj.to = j.to /\ nj.headers = j.headers
    BY <1>0, <1>2, ProcessBatches DEF Batched
  <2>3. HeaderInv(pc'[s], nj)
    BY <1>0, <2>1, <2>2 DEF HeaderInv, Processing
  <2>4. UpTo(nj.to, nj.created, nj.consumed, nj.transitions)
    BY <1>0, <1>2, <2>1, ProcessUpTo DEF Processing
  <2> QED BY <2>3, <2>4
<1>3. CASE CheckpointHeader(s)
  <2> DEFINE f == IF j.to \in DOMAIN j.headers THEN j.headers[j.to] ELSE chain[j.to].fork
  <2>1. pc[s] = "process" /\ pc'[s] = "apply" /\ nj = [j EXCEPT !.cpFork = f]
    BY <1>0, <1>3 DEF CheckpointHeader, Goto
  <2>2. /\ nj.from = j.from /\ nj.to = j.to /\ nj.headers = j.headers /\ nj.cpFork = f
        /\ nj.created = j.created /\ nj.consumed = j.consumed /\ nj.transitions = j.transitions
    BY <1>0, <2>1 DEF JobTypeOK, EmptyJob
  <2>3. f = chain[j.to].fork
    BY <1>0, <2>1 DEF JobInv, HeadersOK, Processing
  <2> HIDE DEF f
  <2>4. HeaderInv(pc'[s], nj)
    BY <1>0, <2>1, <2>2, <2>3 DEF HeaderInv, Processing
  <2> QED BY <1>0, <2>1, <2>2, <2>4 DEF Processing
<1>4. CASE ~ (FetchHeaders(s) \/ Process(s) \/ CheckpointHeader(s))
  <2>1. pc'[s] \notin Processing
    BY <1>0, <1>4 DEF Step, TransportError, Crash, EndRound, Goto, InitStream, GetNodeTip,
         GetIndexerTip, RecordProgress, CheckCheckpoint, CollectRgbpp, CollectBtcTime,
         Collect, ApplyBatch, Prune, RoundFails, Processing
  <2> QED BY <2>1 DEF HeaderInv, Processing
<1> QED BY <1>1, <1>2, <1>3, <1>4

\* The tables after a step of the scanner.
LEMMA SoloTables ==
    ASSUME TypeOK, TypeOK', LagSuffices, IInv, SoloInv, NEW s \in Scanners,
           Step(s) \/ TransportError(s) \/ Crash(s), UNCHANGED chainVars
    PROVE  BlocksInv' /\ UpTo(checkpoint', created', consumed', transitions')
<1>0. /\ BlocksInv /\ StoreInv /\ WorldInv /\ TablesSound /\ CheckpointInv
      /\ JobInv(pc[s], job[s]) /\ RoundInv(pc[s], job[s]) /\ HeaderInv(pc[s], job[s])
      /\ UpTo(checkpoint, created, consumed, transitions)
      /\ pc[s] \in Processing =>
            UpTo(job[s].to, job[s].created, job[s].consumed, job[s].transitions)
  BY DEF SoloInv, AloneInv, IInv, StoreInv, ExactInv
<1>1. CASE InitStream(s)
  <2>1. /\ checkpoint' = IF checkpoint = NULL THEN InitialCheckpoint ELSE checkpoint
        /\ UNCHANGED <<blocks, cpFork, created, consumed, transitions>>
    BY <1>1 DEF InitStream, factVars
  <2>2. CASE checkpoint # NULL
    <3>1. UNCHANGED <<blocks, checkpoint, cpFork>> /\ Settled
      BY <2>1, <2>2, ChainUnchanged
    <3>2. BlocksInv'
      BY <1>0, <3>1, BlocksStable
    <3> QED BY <1>0, <2>1, <2>2, <3>2
  <2>3. CASE checkpoint = NULL
    <3>1. /\ checkpoint' = StartBlock - 1 /\ cpFork = NULL
          /\ StartBlock \in Nat /\ StartBlock >= 1
      BY <1>0, <2>1, <2>3 DEF InitialCheckpoint, LagSuffices, CheckpointInv
    <3>2. \A c \in DOMAIN created : created[c].block \in Nat
      BY DEF TypeOK, Place
    <3>3. DOMAIN created = {}
      <4>1. ASSUME NEW c \in DOMAIN created PROVE FALSE
        <5>1. created[c].block \in Nat /\ created[c].block <= -1
          BY <1>0, <2>3, <3>2 DEF UpTo, NULL
        <5> QED BY <5>1
      <4> QED BY <4>1
    <3>4. DOMAIN consumed = {}
      BY <3>3 DEF TypeOK
    <3>5. DOMAIN transitions = {}
      <4>1. ASSUME NEW t \in DOMAIN transitions PROVE FALSE
        <5>1. transitions[t].at.block \in StartBlock .. FinalHeight
          BY <1>0 DEF TablesSound, TransitionSound, CanonicalPlace
        <5>2. FinalHeight \in Int
          BY DEF FinalHeight, TypeOK, ChainTypeOK, Heights
        <5>3. transitions[t].at.block <= -1
          BY <1>0, <2>3 DEF UpTo, NULL
        <5> QED BY <5>1, <5>2, <5>3
      <4> QED BY <4>1
    <3>6. UpTo(checkpoint', created', consumed', transitions')
      BY <2>1, <3>3, <3>4, <3>5 DEF UpTo
    <3>7. FinalHeight' = FinalHeight /\ (\A h : HasActivity(h)' = HasActivity(h)) /\ chain' = chain
      BY DEF chainVars, FinalHeight, HasActivity
    <3>8. \A h \in StartBlock .. checkpoint' : FALSE
      BY <3>1
    <3>9. BlocksInv'
      BY <1>0, <2>1, <3>1, <3>7, <3>8 DEF BlocksInv
    <3> QED BY <3>6, <3>9
  <2> QED BY <2>2, <2>3
<1>2. CASE ApplyBatch(s)
  <2>1. pc[s] \in Processing
    BY <1>2 DEF ApplyBatch, Processing
  <2> QED BY <1>0, <1>2, <2>1, ApplyBlocks, ApplyUpTo
<1>3. CASE Prune(s)
  <2>1. UNCHANGED <<checkpoint, created, consumed, transitions>>
    BY <1>3 DEF Prune, streamVars, factVars
  <2> QED BY <1>0, <1>3, <2>1, PruneBlocks
<1>4. CASE ~ InitStream(s) /\ ~ ApplyBatch(s) /\ ~ Prune(s)
  <2>1. UNCHANGED <<blocks, checkpoint, cpFork, created, consumed, transitions>>
    BY <1>4, ReadOnlyStep
  <2>2. Settled
    BY ChainUnchanged
  <2>3. BlocksInv'
    BY <1>0, <2>1, <2>2, BlocksStable
  <2> QED BY <1>0, <2>1, <2>3
<1> QED BY <1>1, <1>2, <1>3, <1>4

LEMMA SoloNext ==
    ASSUME TypeOK, TypeOK', LagSuffices, OneScanner, IInv, SoloInv, [Next]_vars
    PROVE  SoloInv'
<1>0. AloneInv'
  BY AloneNext DEF SoloInv
<1>1. CASE World \/ UNCHANGED vars
  <2>1. UNCHANGED <<blocks, checkpoint, cpFork, created, consumed, transitions, pc, job>>
    BY <1>1 DEF World, vars, dbVars, streamVars, factVars
  <2>2. Settled
    <3>1. CASE World
      BY <3>1, WorldStep DEF World, IInv
    <3>2. CASE UNCHANGED vars
      BY <3>2, ChainUnchanged DEF vars
    <3> QED BY <1>1, <3>1, <3>2
  <2>3. BlocksInv'
    BY <2>1, <2>2, BlocksStable DEF SoloInv, IInv
  <2>4. ASSUME NEW s \in Scanners PROVE HeaderInv(pc[s], job[s])'
    <3>1. PICK l \in PcLabels : l = pc[s]
      BY DEF TypeOK
    <3>2. PICK j : j = job[s]
      OBVIOUS
    <3>3. JobTypeOK(j) /\ JobInv(l, j) /\ HeaderInv(l, j)
      BY <3>1, <3>2 DEF TypeOK, IInv, SoloInv
    <3>4. HeaderInv(l, j)'
      BY <2>2, <3>3, HeaderStable
    <3> QED BY <2>1, <3>1, <3>2, <3>4
  <2>5. ExactInv'
    BY <2>1 DEF SoloInv, ExactInv, UpTo
  <2> QED BY <1>0, <2>3, <2>4, <2>5 DEF SoloInv
<1>2. ASSUME NEW s \in Scanners, Step(s) \/ TransportError(s) \/ Crash(s)
      PROVE  SoloInv'
  <2>1. UNCHANGED chainVars
    BY <1>2, StepInv
  <2>2. BlocksInv' /\ UpTo(checkpoint', created', consumed', transitions')
    BY <1>2, <2>1, SoloTables
  <2>3. /\ HeaderInv(pc'[s], job'[s])
        /\ pc'[s] \in Processing =>
              UpTo(job'[s].to, job'[s].created, job'[s].consumed, job'[s].transitions)
    BY <1>2, SoloRound
  <2>4. HeaderInv(pc[s], job[s])'
    <3>1. chain' = chain
      BY <2>1 DEF chainVars
    <3> QED BY <2>3, <3>1 DEF HeaderInv, HasActivity
  <2>5. ExactInv'
    BY <2>2, <2>3 DEF ExactInv, UpTo, OneScanner
  <2> QED BY <1>0, <2>2, <2>4, <2>5 DEF SoloInv, OneScanner
<1> QED BY <1>1, <1>2 DEF Next

LEMMA SoloInit ==
    ASSUME LagSuffices, Init
    PROVE  SoloInv
<1>1. BlocksInv
  BY DEF Init, BlocksInv, NoRows, NULL
<1>2. \A s \in Scanners : pc[s] = "idle"
  BY DEF Init
<1>3. ExactInv
  BY <1>2 DEF Init, ExactInv, UpTo, NoRows, Processing
<1>4. \A s \in Scanners : HeaderInv(pc[s], job[s])
  BY <1>2 DEF HeaderInv, Processing
<1> QED BY <1>1, <1>3, <1>4, AloneInit DEF SoloInv

LEMMA Solo == LagSuffices /\ OneScanner /\ Spec => [](TypeOK /\ IInv /\ SoloInv)
<1> SUFFICES ASSUME LagSuffices, OneScanner PROVE Spec => [](TypeOK /\ IInv /\ SoloInv)
  OBVIOUS
<1>1. Init => SoloInv
  BY SoloInit
<1>2. TypeOK /\ TypeOK' /\ IInv /\ SoloInv /\ [Next]_vars => SoloInv'
  BY SoloNext
<1>3. LagSuffices
  OBVIOUS
<1> QED BY <1>1, <1>2, <1>3, Invariant, PTL DEF Spec

\* The header rows that a rollback would walk are kept through commits,
\* crashes between commit and pruning, and the pruning itself (apply_batch,
\* prune_blocks_below), for every retention and batch size.
THEOREM HeadersKept == LagSuffices /\ OneScanner /\ Spec => []HeadersRetained
<1>1. TypeOK /\ IInv /\ SoloInv => HeadersRetained
  <2> SUFFICES ASSUME TypeOK, IInv, SoloInv, cpFork # NULL,
                      NEW h \in StartBlock .. checkpoint,
                      h >= checkpoint - HeaderRetention, HasActivity(h) \/ h = checkpoint
               PROVE  /\ h \in DOMAIN blocks
                      /\ blocks[h].fork = chain[h].fork
                      /\ blocks[h].activity = HasActivity(h)
    BY DEF HeadersRetained
  <2>1. BlocksInv
    BY DEF SoloInv
  <2>2. h \in DOMAIN blocks
    BY <2>1 DEF BlocksInv
  <2> QED BY <2>1, <2>2 DEF BlocksInv
<1> QED BY <1>1, Solo, PTL

-----------------------------------------------------------------------------
(* The tables are the abstract index *)

\* Tables that know the chain between start_block and n, all of it and no more.
ExactTables(n, cr, co, tr) ==
    /\ n \in StartBlock .. FinalHeight
    /\ UpTo(n, cr, co, tr)
    /\ DOMAIN co \subseteq DOMAIN cr
    /\ \A c \in DOMAIN cr : CreatedSound(c, cr[c])
    /\ \A c \in DOMAIN co : ConsumedSound(c, co[c])
    /\ \A t \in DOMAIN tr : t \in Txs /\ TransitionSound(t, tr[t])
    /\ \A h \in StartBlock .. n : \A i \in DOMAIN chain[h].txs :
          LET t == chain[h].txs[i] IN
          /\ \A c \in ClassifyOutputs(t) : c \in DOMAIN cr /\ cr[c] = PlaceAt(h, i)
          /\ \A c \in Inputs[t] : c \in DOMAIN co /\ co[c] = [by |-> t, at |-> PlaceAt(h, i)]
          /\ Extractable(Inputs[t], ClassifyOutputs(t)) =>
                t \in DOMAIN tr
                /\ tr[t] = [at |-> PlaceAt(h, i),
                            what |-> TransitionOf(Inputs[t], ClassifyOutputs(t))]

\* The positions of FactIndex, and what sits at one.
LEMMA AtPosition ==
    ASSUME NEW h, NEW i
    PROVE  /\ Facts!TxAt(<<h, i>>) = chain[h].txs[i]
           /\ Facts!PlaceAt(<<h, i>>[1], <<h, i>>[2]) = PlaceAt(h, i)
           /\ Facts!PlaceAt(<<h, i>>[1], -1) = PlaceAt(h, -1)
<1>1. <<h, i>>[1] = h /\ <<h, i>>[2] = i
  OBVIOUS
<1>2. \A k : Facts!PlaceAt(h, k) = PlaceAt(h, k)
  BY DEF Facts!PlaceAt, PlaceAt
<1> QED BY <1>1, <1>2 DEF Facts!TxAt

LEMMA InPositions ==
    ASSUME NEW lo, NEW hi, NEW h \in lo .. hi, NEW i \in DOMAIN chain[h].txs
    PROVE  <<h, i>> \in Facts!Positions(lo, hi)
BY DEF Facts!Positions

LEMMA OfPositions ==
    ASSUME NEW lo, NEW hi, NEW q \in Facts!Positions(lo, hi)
    PROVE  \E h \in lo .. hi : \E i \in DOMAIN chain[h].txs : q = <<h, i>>
BY DEF Facts!Positions

\* A place on the indexed part of the chain.
LEMMA CanonicalPosition ==
    ASSUME NEW n \in Int, NEW p, NEW t, CanonicalPlace(p, t), p.block <= n, TypeOK
    PROVE  /\ p.block \in StartBlock .. n /\ p.index \in DOMAIN chain[p.block].txs
           /\ chain[p.block].txs[p.index] = t
<1>1. p.block \in StartBlock .. FinalHeight /\ FinalHeight \in Int
  BY DEF CanonicalPlace, FinalHeight, TypeOK, ChainTypeOK, Heights
<1> QED BY <1>1 DEF CanonicalPlace, PlacedAt

LEMMA ConsumedExact ==
    ASSUME TypeOK, NEW n, NEW cr, NEW co, NEW tr, ExactTables(n, cr, co, tr)
    PROVE  /\ {<<c, co[c].by, co[c].at>> : c \in DOMAIN co} = Facts!ConsumedRows(n)
           /\ Facts!SpentIn(StartBlock, n) = DOMAIN co
<1>0. n \in Int
  BY DEF ExactTables, FinalHeight, TypeOK, ChainTypeOK, Heights
<1>1. ASSUME NEW c \in DOMAIN co
      PROVE  \E h \in StartBlock .. n : \E i \in DOMAIN chain[h].txs :
                c \in Inputs[chain[h].txs[i]] /\ co[c].by = chain[h].txs[i]
                /\ co[c].at = PlaceAt(h, i)
  <2> DEFINE h == co[c].at.block
             i == co[c].at.index
  <2>1. /\ co[c] = [by |-> co[c].by, at |-> PlaceAt(h, i)] /\ c \in Inputs[co[c].by]
        /\ CanonicalPlace(co[c].at, co[c].by) /\ h <= n
    BY DEF ExactTables, ConsumedSound, UpTo
  <2>2. h \in StartBlock .. n /\ i \in DOMAIN chain[h].txs /\ chain[h].txs[i] = co[c].by
    BY <1>0, <2>1, CanonicalPosition
  <2>3. co[c].at = PlaceAt(h, i)
    BY <2>1
  <2> HIDE DEF h, i
  <2> QED BY <2>1, <2>2, <2>3
<1>2. ASSUME NEW h \in StartBlock .. n, NEW i \in DOMAIN chain[h].txs,
             NEW c \in Inputs[chain[h].txs[i]]
      PROVE  c \in DOMAIN co /\ co[c].by = chain[h].txs[i] /\ co[c].at = PlaceAt(h, i)
  <2>1. \A d \in Inputs[chain[h].txs[i]] :
            d \in DOMAIN co /\ co[d] = [by |-> chain[h].txs[i], at |-> PlaceAt(h, i)]
    BY DEF ExactTables
  <2>2. c \in DOMAIN co /\ co[c] = [by |-> chain[h].txs[i], at |-> PlaceAt(h, i)]
    BY <2>1
  <2> QED BY <2>2
<1>3. ASSUME NEW r \in Facts!ConsumedRows(n)
      PROVE  \E h \in StartBlock .. n : \E i \in DOMAIN chain[h].txs :
                \E c \in Inputs[chain[h].txs[i]] : r = <<c, chain[h].txs[i], PlaceAt(h, i)>>
  <2>1. PICK q \in Facts!Positions(StartBlock, n) :
            r \in {<<c, Facts!TxAt(q), Facts!PlaceAt(q[1], q[2])>> : c \in Inputs[Facts!TxAt(q)]}
    BY DEF Facts!ConsumedRows
  <2>2. PICK h \in StartBlock .. n : \E i \in DOMAIN chain[h].txs : q = <<h, i>>
    BY OfPositions
  <2>3. PICK i \in DOMAIN chain[h].txs : q = <<h, i>>
    BY <2>2
  <2>4. Facts!TxAt(q) = chain[h].txs[i] /\ Facts!PlaceAt(q[1], q[2]) = PlaceAt(h, i)
    BY <2>3, AtPosition
  <2> QED BY <2>1, <2>4
<1>4. ASSUME NEW h \in StartBlock .. n, NEW i \in DOMAIN chain[h].txs,
             NEW c \in Inputs[chain[h].txs[i]]
      PROVE  <<c, chain[h].txs[i], PlaceAt(h, i)>> \in Facts!ConsumedRows(n)
  <2> DEFINE q == <<h, i>>
  <2>1. q \in Facts!Positions(StartBlock, n)
    BY InPositions
  <2>2. Facts!TxAt(q) = chain[h].txs[i] /\ Facts!PlaceAt(q[1], q[2]) = PlaceAt(h, i)
    BY AtPosition
  <2> HIDE DEF q
  <2> QED BY <2>1, <2>2 DEF Facts!ConsumedRows
<1>5. {<<c, co[c].by, co[c].at>> : c \in DOMAIN co} \subseteq Facts!ConsumedRows(n)
  BY <1>1, <1>4
<1>6. Facts!ConsumedRows(n) \subseteq {<<c, co[c].by, co[c].at>> : c \in DOMAIN co}
  BY <1>2, <1>3
<1>7. ASSUME NEW c \in DOMAIN co PROVE c \in Facts!SpentIn(StartBlock, n)
  <2>1. PICK h \in StartBlock .. n : \E i \in DOMAIN chain[h].txs : c \in Inputs[chain[h].txs[i]]
    BY <1>1
  <2>2. PICK i \in DOMAIN chain[h].txs : c \in Inputs[chain[h].txs[i]]
    BY <2>1
  <2>3. <<h, i>> \in Facts!Positions(StartBlock, n) /\ Facts!TxAt(<<h, i>>) = chain[h].txs[i]
    BY InPositions, AtPosition
  <2> QED BY <2>2, <2>3 DEF Facts!SpentIn
<1>8. ASSUME NEW c \in Facts!SpentIn(StartBlock, n) PROVE c \in DOMAIN co
  <2>1. PICK q \in Facts!Positions(StartBlock, n) : c \in Inputs[Facts!TxAt(q)]
    BY DEF Facts!SpentIn
  <2>2. PICK h \in StartBlock .. n : \E i \in DOMAIN chain[h].txs : q = <<h, i>>
    BY OfPositions
  <2>3. PICK i \in DOMAIN chain[h].txs : q = <<h, i>>
    BY <2>2
  <2>4. Facts!TxAt(q) = chain[h].txs[i]
    BY <2>3, AtPosition
  <2> QED BY <1>2, <2>1, <2>4
<1> QED BY <1>5, <1>6, <1>7, <1>8

\* The block that created a cell.
LEMMA CreatorPlace ==
    ASSUME TypeOK, WorldInv, NEW c,
           NEW h1 \in 0 .. tip, NEW i1 \in DOMAIN chain[h1].txs, c \in Outputs[chain[h1].txs[i1]],
           NEW h2 \in 0 .. tip, NEW i2 \in DOMAIN chain[h2].txs, c \in Outputs[chain[h2].txs[i2]]
    PROVE  h1 = h2
<1>1. chain[h1].txs[i1] \in Txs /\ chain[h2].txs[i2] \in Txs
  BY PlacedIsTx DEF TypeOK
<1>2. chain[h1].txs[i1] = chain[h2].txs[i2]
  BY <1>1, SameCreator
<1>3. /\ PlacedAt(chain, tip, h1, i1, chain[h1].txs[i1])
      /\ PlacedAt(chain, tip, h2, i2, chain[h1].txs[i1])
  BY <1>2 DEF PlacedAt
<1>4. ValidBranch(chain, tip)
  BY DEF WorldInv
<1> QED BY <1>3, <1>4, SamePlace

\* The two kinds of rows in rgbpp_cells.
InRange(n, c, p) ==
    \E h \in StartBlock .. n : \E i \in DOMAIN chain[h].txs :
        c \in ClassifyOutputs(chain[h].txs[i]) /\ p = PlaceAt(h, i) /\ h <= tip

BelowStart(c, p) ==
    /\ p.index = UnknownTxIndex
    /\ \E h \in 0 .. StartBlock - 1 : \E i \in DOMAIN chain[h].txs :
          c \in Outputs[chain[h].txs[i]] /\ p = PlaceAt(h, -1) /\ h <= tip

LEMMA CreatedKinds ==
    ASSUME TypeOK, NEW n \in Int, NEW c, NEW p, CreatedSound(c, p), p.block <= n
    PROVE  InRange(n, c, p) \/ BelowStart(c, p)
<1>0. tip \in Int /\ FinalHeight <= tip /\ FinalHeight \in Int
  BY DEF FinalHeight, TypeOK, ChainTypeOK, Heights
<1>1. p = PlaceAt(p.block, p.index)
  BY DEF CreatedSound, Anchored
<1>2. CASE \E t \in Txs : c \in ClassifyOutputs(t) /\ CanonicalPlace(p, t)
  <2>1. PICK t \in Txs : c \in ClassifyOutputs(t) /\ CanonicalPlace(p, t)
    BY <1>2
  <2>2. /\ p.block \in StartBlock .. n /\ p.index \in DOMAIN chain[p.block].txs
        /\ chain[p.block].txs[p.index] = t
    BY <2>1, CanonicalPosition
  <2>3. p.block <= tip
    BY <2>1 DEF CanonicalPlace, PlacedAt
  <2> QED BY <1>1, <2>1, <2>2, <2>3 DEF InRange
<1>3. CASE BackfillPlace(p, c)
  <2>1. /\ p.block \in 0 .. StartBlock - 1 /\ p.block <= FinalHeight
        /\ p.index = UnknownTxIndex
    BY <1>3 DEF BackfillPlace
  <2>2. PICK i \in DOMAIN chain[p.block].txs : c \in Outputs[chain[p.block].txs[i]]
    BY <1>3 DEF BackfillPlace
  <2>3. p.block <= tip
    BY <1>0, <2>1
  <2>4. p = PlaceAt(p.block, -1)
    BY <1>1, <2>1 DEF UnknownTxIndex
  <2> QED BY <2>1, <2>2, <2>3, <2>4 DEF BelowStart
<1> QED BY <1>2, <1>3 DEF CreatedSound

LEMMA CreatedExact ==
    ASSUME TypeOK, WorldInv, NEW n, NEW cr, NEW co, NEW tr, ExactTables(n, cr, co, tr)
    PROVE  {<<c, cr[c]>> : c \in DOMAIN cr} = Facts!CreatedRows(n)
<1> DEFINE New == UNION {{<<c, Facts!PlaceAt(q[1], q[2])>> : c \in ClassifyOutputs(Facts!TxAt(q))} :
                            q \in Facts!Positions(StartBlock, n)}
           Old == UNION {{<<c, Facts!PlaceAt(q[1], -1)>> :
                             c \in Outputs[Facts!TxAt(q)] \cap Facts!SpentIn(StartBlock, n)} :
                            q \in Facts!Positions(0, StartBlock - 1)}
<1>0. n \in Int /\ n <= tip /\ tip \in Int /\ StartBlock \in Nat /\ StartBlock <= n
  BY DEF ExactTables, FinalHeight, TypeOK, ChainTypeOK, Heights
<1>1. Facts!CreatedRows(n) = New \cup Old
  BY DEF Facts!CreatedRows, Facts!ClassifyOutputs, ClassifyOutputs
<1>2. Facts!SpentIn(StartBlock, n) = DOMAIN co
  BY ConsumedExact
<1>3. ASSUME NEW h \in StartBlock .. n, NEW i \in DOMAIN chain[h].txs,
             NEW c \in ClassifyOutputs(chain[h].txs[i])
      PROVE  <<c, PlaceAt(h, i)>> \in New
  <2> DEFINE q == <<h, i>>
  <2>1. q \in Facts!Positions(StartBlock, n)
    BY InPositions
  <2>2. Facts!TxAt(q) = chain[h].txs[i] /\ Facts!PlaceAt(q[1], q[2]) = PlaceAt(h, i)
    BY AtPosition
  <2> HIDE DEF q
  <2> QED BY <2>1, <2>2
<1>4. ASSUME NEW h \in 0 .. StartBlock - 1, NEW i \in DOMAIN chain[h].txs,
             NEW c \in Outputs[chain[h].txs[i]], c \in DOMAIN co
      PROVE  <<c, PlaceAt(h, -1)>> \in Old
  <2> DEFINE q == <<h, i>>
  <2>1. q \in Facts!Positions(0, StartBlock - 1)
    BY InPositions
  <2>2. Facts!TxAt(q) = chain[h].txs[i] /\ Facts!PlaceAt(q[1], -1) = PlaceAt(h, -1)
    BY AtPosition
  <2>3. c \in Outputs[Facts!TxAt(q)] \cap Facts!SpentIn(StartBlock, n)
    BY <1>2, <1>4, <2>2
  <2> HIDE DEF q
  <2> QED BY <2>1, <2>2, <2>3
<1>5. ASSUME NEW c \in DOMAIN cr PROVE <<c, cr[c]>> \in New \cup Old
  <2>1. CreatedSound(c, cr[c]) /\ cr[c].block <= n
        /\ (cr[c].index = UnknownTxIndex => c \in DOMAIN co)
    BY DEF ExactTables, UpTo
  <2> HIDE DEF New, Old
  <2>2. InRange(n, c, cr[c]) \/ BelowStart(c, cr[c])
    BY <1>0, <2>1, CreatedKinds
  <2> QED BY <1>3, <1>4, <2>1, <2>2 DEF InRange, BelowStart
<1>6. ASSUME NEW r \in New PROVE \E c \in DOMAIN cr : r = <<c, cr[c]>>
  <2>1. PICK q \in Facts!Positions(StartBlock, n) :
            r \in {<<c, Facts!PlaceAt(q[1], q[2])>> : c \in ClassifyOutputs(Facts!TxAt(q))}
    OBVIOUS
  <2>2. PICK h \in StartBlock .. n : \E i \in DOMAIN chain[h].txs : q = <<h, i>>
    BY OfPositions
  <2>3. PICK i \in DOMAIN chain[h].txs : q = <<h, i>>
    BY <2>2
  <2>4. Facts!TxAt(q) = chain[h].txs[i] /\ Facts!PlaceAt(q[1], q[2]) = PlaceAt(h, i)
    BY <2>3, AtPosition
  <2>5. \A c \in ClassifyOutputs(chain[h].txs[i]) : c \in DOMAIN cr /\ cr[c] = PlaceAt(h, i)
    BY DEF ExactTables
  <2> QED BY <2>1, <2>4, <2>5
<1>7. ASSUME NEW r \in Old PROVE \E c \in DOMAIN cr : r = <<c, cr[c]>>
  <2>1. PICK q \in Facts!Positions(0, StartBlock - 1) :
            r \in {<<c, Facts!PlaceAt(q[1], -1)>> :
                      c \in Outputs[Facts!TxAt(q)] \cap Facts!SpentIn(StartBlock, n)}
    OBVIOUS
  <2>2. PICK h \in 0 .. StartBlock - 1 : \E i \in DOMAIN chain[h].txs : q = <<h, i>>
    BY OfPositions
  <2>3. PICK i \in DOMAIN chain[h].txs : q = <<h, i>>
    BY <2>2
  <2>4. Facts!TxAt(q) = chain[h].txs[i] /\ Facts!PlaceAt(q[1], -1) = PlaceAt(h, -1)
    BY <2>3, AtPosition
  <2>5. PICK c \in Outputs[chain[h].txs[i]] : r = <<c, PlaceAt(h, -1)>> /\ c \in DOMAIN co
    BY <1>2, <2>1, <2>4
  <2>6. c \in DOMAIN cr /\ CreatedSound(c, cr[c]) /\ cr[c].block <= n
    BY <2>5 DEF ExactTables, UpTo
  <2>7. h \in 0 .. tip
    BY <1>0
  <2>8. ASSUME NEW g \in StartBlock .. n, NEW k \in DOMAIN chain[g].txs,
               c \in ClassifyOutputs(chain[g].txs[k]), g <= tip
        PROVE  FALSE
    <3>1. c \in Outputs[chain[g].txs[k]] /\ g \in 0 .. tip
      BY <1>0, <2>8 DEF ClassifyOutputs
    <3>2. g = h
      BY <2>7, <3>1, CreatorPlace
    <3> QED BY <1>0, <3>2
  <2>9. ASSUME NEW g \in 0 .. StartBlock - 1, NEW k \in DOMAIN chain[g].txs,
               c \in Outputs[chain[g].txs[k]], g <= tip
        PROVE  g = h
    <3>1. g \in 0 .. tip
      BY <1>0, <2>9
    <3> QED BY <2>7, <2>9, <3>1, CreatorPlace
  <2>10. \E g \in 0 .. StartBlock - 1 : \E k \in DOMAIN chain[g].txs :
             c \in Outputs[chain[g].txs[k]] /\ cr[c] = PlaceAt(g, -1) /\ g <= tip
    <3>1. InRange(n, c, cr[c]) \/ BelowStart(c, cr[c])
      BY <1>0, <2>6, CreatedKinds
    <3> QED BY <2>8, <3>1 DEF InRange, BelowStart
  <2>11. cr[c] = PlaceAt(h, -1)
    BY <2>9, <2>10
  <2> QED BY <2>5, <2>6, <2>11
<1> HIDE DEF New, Old
<1> QED BY <1>1, <1>5, <1>6, <1>7

LEMMA TransitionsExact ==
    ASSUME TypeOK, NEW n, NEW cr, NEW co, NEW tr, ExactTables(n, cr, co, tr)
    PROVE  {<<t, tr[t].at, tr[t].what>> : t \in DOMAIN tr} = Facts!TransitionRows(n)
<1>0. n \in Int
  BY DEF ExactTables, FinalHeight, TypeOK, ChainTypeOK, Heights
<1> DEFINE What(t) == TransitionOf(Inputs[t], ClassifyOutputs(t))
           Ok(t) == Extractable(Inputs[t], ClassifyOutputs(t))
           Rows == {<<Facts!TxAt(q), Facts!PlaceAt(q[1], q[2]), What(Facts!TxAt(q))>> :
                       q \in {r \in Facts!Positions(StartBlock, n) : Ok(Facts!TxAt(r))}}
<1>1. Facts!TransitionRows(n) = Rows
  <2>1. \A t : Facts!ClassifyOutputs(t) = ClassifyOutputs(t)
    BY DEF Facts!ClassifyOutputs, ClassifyOutputs
  <2>2. \A ins, outs : /\ Facts!TransitionOf(ins, outs) = TransitionOf(ins, outs)
                       /\ Facts!Extractable(ins, outs) = Extractable(ins, outs)
    BY DEF Facts!TransitionOf, TransitionOf, Facts!ClassifyTransition, ClassifyTransition,
           Facts!DeriveBtcTxid, DeriveBtcTxid, Facts!ExpectedCommitment, ExpectedCommitment,
           Facts!Extractable, Extractable
  <2> QED BY <2>1, <2>2 DEF Facts!TransitionRows, Facts!Readable
<1> HIDE DEF What, Ok
<1>2. ASSUME NEW t \in DOMAIN tr
      PROVE  \E h \in StartBlock .. n : \E i \in DOMAIN chain[h].txs :
                /\ t = chain[h].txs[i] /\ Ok(t)
                /\ tr[t].at = PlaceAt(h, i) /\ tr[t].what = What(t)
  <2> DEFINE h == tr[t].at.block
             i == tr[t].at.index
  <2>1. TransitionSound(t, tr[t]) /\ h <= n /\ Ok(t)
    BY DEF ExactTables, UpTo, Ok
  <2>2. tr[t] = [at |-> PlaceAt(h, i), what |-> What(t)] /\ CanonicalPlace(tr[t].at, t)
    BY <2>1 DEF TransitionSound, What
  <2>3. h \in StartBlock .. n /\ i \in DOMAIN chain[h].txs /\ chain[h].txs[i] = t
    BY <1>0, <2>1, <2>2, CanonicalPosition
  <2>4. tr[t].at = PlaceAt(h, i) /\ tr[t].what = What(t)
    BY <2>2
  <2> HIDE DEF h, i
  <2> QED BY <2>1, <2>3, <2>4
<1>3. ASSUME NEW h \in StartBlock .. n, NEW i \in DOMAIN chain[h].txs, Ok(chain[h].txs[i])
      PROVE  /\ chain[h].txs[i] \in DOMAIN tr
             /\ tr[chain[h].txs[i]].at = PlaceAt(h, i)
             /\ tr[chain[h].txs[i]].what = What(chain[h].txs[i])
  <2> DEFINE t == chain[h].txs[i]
  <2>1. t \in DOMAIN tr /\ tr[t] = [at |-> PlaceAt(h, i), what |-> What(t)]
    BY <1>3 DEF ExactTables, What, Ok
  <2> HIDE DEF t
  <2>2. t \in DOMAIN tr /\ tr[t].at = PlaceAt(h, i) /\ tr[t].what = What(t)
    BY <2>1
  <2> QED BY <2>2 DEF t
<1>4. ASSUME NEW t \in DOMAIN tr PROVE <<t, tr[t].at, tr[t].what>> \in Rows
  <2>1. PICK h \in StartBlock .. n : \E i \in DOMAIN chain[h].txs :
             /\ t = chain[h].txs[i] /\ Ok(t) /\ tr[t].at = PlaceAt(h, i) /\ tr[t].what = What(t)
    BY <1>2
  <2>2. PICK i \in DOMAIN chain[h].txs :
             /\ t = chain[h].txs[i] /\ Ok(t) /\ tr[t].at = PlaceAt(h, i) /\ tr[t].what = What(t)
    BY <2>1
  <2> DEFINE q == <<h, i>>
  <2>3. q \in Facts!Positions(StartBlock, n)
    BY InPositions
  <2>4. Facts!TxAt(q) = t /\ Facts!PlaceAt(q[1], q[2]) = PlaceAt(h, i)
    BY <2>2, AtPosition
  <2> HIDE DEF q
  <2> QED BY <2>2, <2>3, <2>4
<1>5. ASSUME NEW r \in Rows PROVE \E t \in DOMAIN tr : r = <<t, tr[t].at, tr[t].what>>
  <2>1. PICK q \in Facts!Positions(StartBlock, n) :
            /\ Ok(Facts!TxAt(q))
            /\ r = <<Facts!TxAt(q), Facts!PlaceAt(q[1], q[2]), What(Facts!TxAt(q))>>
    OBVIOUS
  <2>2. PICK h \in StartBlock .. n : \E i \in DOMAIN chain[h].txs : q = <<h, i>>
    BY OfPositions
  <2>3. PICK i \in DOMAIN chain[h].txs : q = <<h, i>>
    BY <2>2
  <2>4. Facts!TxAt(q) = chain[h].txs[i] /\ Facts!PlaceAt(q[1], q[2]) = PlaceAt(h, i)
    BY <2>3, AtPosition
  <2> QED BY <1>3, <2>1, <2>4
<1> HIDE DEF Rows
<1> QED BY <1>1, <1>4, <1>5

-----------------------------------------------------------------------------
(* Every step of the scanner is a step of the abstract index *)

LEMMA ApplyExact ==
    ASSUME TypeOK, TypeOK', IInv, IInv', SoloInv', NEW s \in Scanners, ApplyBatch(s)
    PROVE  ExactTables(checkpoint', created', consumed', transitions')
<1>1. chain' = chain /\ tip' = tip
  BY DEF ApplyBatch, chainVars
<1>2. checkpoint' = job[s].to /\ job[s].to >= StartBlock
  <2>1. checkpoint' = job[s].to /\ pc[s] = "apply"
    BY DEF ApplyBatch
  <2>2. RangeOK(job[s])
    BY <2>1 DEF IInv, JobInv, AfterCheck, AfterTip, PcLabels
  <2>3. job[s].to \in Nat /\ job[s].from \in Nat
    BY DEF TypeOK, JobTypeOK
  <2> QED BY <2>1, <2>2, <2>3 DEF RangeOK
<1>3. IndexedUpTo(checkpoint)'
  <2>1. checkpoint' # NULL
    BY <1>2 DEF NULL
  <2> QED BY <2>1 DEF IInv, StoreInv
<1>4. FinalHeight' = FinalHeight /\ \A h, i : PlaceAt(h, i)' = PlaceAt(h, i)
  BY <1>1 DEF FinalHeight, PlaceAt
<1>5. checkpoint' \in StartBlock .. FinalHeight
  <2>1. checkpoint' \in Int
    BY DEF TypeOK
  <2> QED BY <1>2, <1>3, <1>4, <2>1 DEF IndexedUpTo
<1>6. UpTo(checkpoint', created', consumed', transitions')
  BY DEF SoloInv, ExactInv, UpTo
<1>7. DOMAIN consumed' \subseteq DOMAIN created' /\ DOMAIN transitions' \subseteq Txs
  BY DEF TypeOK
<1>8. /\ \A c \in DOMAIN created' : CreatedSound(c, created'[c])
      /\ \A c \in DOMAIN consumed' : ConsumedSound(c, consumed'[c])
      /\ \A t \in DOMAIN transitions' : TransitionSound(t, transitions'[t])
  <2>1. TablesSound'
    BY DEF IInv, StoreInv
  <2>2. \A c, p : CreatedSound(c, p)' => CreatedSound(c, p)
    BY <1>1, <1>4 DEF CreatedSound, Anchored, CanonicalPlace, BackfillPlace, PlacedAt, PlaceAt, FinalHeight
  <2>3. \A c, r : ConsumedSound(c, r)' => ConsumedSound(c, r)
    BY <1>1, <1>4 DEF ConsumedSound, CanonicalPlace, PlacedAt, PlaceAt, FinalHeight
  <2>4. \A t, r : TransitionSound(t, r)' => TransitionSound(t, r)
    BY <1>1, <1>4 DEF TransitionSound, CanonicalPlace, PlacedAt, PlaceAt, FinalHeight
  <2>5. /\ \A c \in DOMAIN created' : CreatedSound(c, created[c])'
        /\ \A c \in DOMAIN consumed' : ConsumedSound(c, consumed[c])'
        /\ \A t \in DOMAIN transitions' : TransitionSound(t, transitions[t])'
    BY <2>1 DEF TablesSound
  <2> QED BY <2>2, <2>3, <2>4, <2>5
<1>9. \A h \in StartBlock .. checkpoint' : \A i \in DOMAIN chain[h].txs :
         LET t == chain[h].txs[i] IN
         /\ \A c \in ClassifyOutputs(t) : c \in DOMAIN created' /\ created'[c] = PlaceAt(h, i)
         /\ \A c \in Inputs[t] :
               c \in DOMAIN consumed' /\ consumed'[c] = [by |-> t, at |-> PlaceAt(h, i)]
         /\ Extractable(Inputs[t], ClassifyOutputs(t)) =>
               t \in DOMAIN transitions'
               /\ transitions'[t] = [at |-> PlaceAt(h, i),
                                     what |-> TransitionOf(Inputs[t], ClassifyOutputs(t))]
  <2>1. \A h \in StartBlock .. checkpoint' : \A i \in DOMAIN chain'[h].txs : TxIndexed(h, i)'
    BY <1>3 DEF IndexedUpTo, BlockIndexed
  <2> QED BY <1>1, <1>4, <2>1 DEF TxIndexed, PlaceAt
<1> QED BY <1>5, <1>6, <1>7, <1>8, <1>9 DEF ExactTables

LEMMA PublishStep ==
    ASSUME TypeOK, TypeOK', IInv, IInv', SoloInv, SoloInv', NEW s \in Scanners, ApplyBatch(s)
    PROVE  Facts!Publish
<1>1. chain' = chain /\ tip' = tip
  BY DEF ApplyBatch, chainVars
<1>2. ExactTables(checkpoint', created', consumed', transitions')
  BY ApplyExact
<1>3. WorldInv
  BY DEF IInv
<1>4. {<<c, created'[c]>> : c \in DOMAIN created'} = Facts!CreatedRows(checkpoint')
  BY <1>2, <1>3, CreatedExact
<1>5. {<<c, consumed'[c].by, consumed'[c].at>> : c \in DOMAIN consumed'}
          = Facts!ConsumedRows(checkpoint')
  BY <1>2, ConsumedExact
<1>6. {<<t, transitions'[t].at, transitions'[t].what>> : t \in DOMAIN transitions'}
          = Facts!TransitionRows(checkpoint')
  BY <1>2, TransitionsExact
<1>7. StoredView' = Facts!View(checkpoint')
  BY <1>4, <1>5, <1>6 DEF StoredView, Facts!View
<1>8. checkpoint' \in checkpoint + 1 .. tip - ReorgLag
  <2>1. checkpoint' \in Int /\ checkpoint' <= tip - ReorgLag
    BY <1>2 DEF ExactTables, FinalHeight, TypeOK
  <2>2. RoundInv(pc[s], job[s]) /\ pc[s] = "apply" /\ checkpoint' = job[s].to
    BY DEF SoloInv, AloneInv, ApplyBatch
  <2>3. job[s].to >= checkpoint + 1
    BY <2>2 DEF RoundInv, AfterCheck, AfterTip, PcLabels
  <2>4. checkpoint \in Int /\ tip - ReorgLag \in Int
    BY DEF TypeOK, ChainTypeOK, Heights
  <2> QED BY <2>1, <2>2, <2>3, <2>4
<1> QED BY <1>1, <1>7, <1>8 DEF Facts!Publish

LEMMA AbstractStep ==
    ASSUME TypeOK, TypeOK', LagSuffices, IInv, IInv', SoloInv, SoloInv', [Next]_vars
    PROVE  [Facts!Next]_<<chain, tip, checkpoint, StoredView>>
<1>1. CASE World
  <2>1. UNCHANGED <<checkpoint, created, consumed, transitions>>
    BY <1>1 DEF World, dbVars, streamVars, factVars
  <2>2. StoredView' = StoredView
    BY <2>1 DEF StoredView
  <2>3. Settled
    BY <1>1, WorldStep DEF World, IInv
  <2>4. Facts!World
    BY <2>1, <2>2, <2>3 DEF Facts!World, Settled, FinalHeight
  <2> QED BY <2>4 DEF Facts!Next
<1>2. CASE UNCHANGED vars
  <2>1. UNCHANGED <<chain, tip, checkpoint, created, consumed, transitions>>
    BY <1>2 DEF vars, chainVars, dbVars, streamVars, factVars
  <2> QED BY <2>1 DEF StoredView
<1>3. ASSUME NEW s \in Scanners, Step(s) \/ TransportError(s) \/ Crash(s)
      PROVE  [Facts!Next]_<<chain, tip, checkpoint, StoredView>>
  <2>1. CASE ApplyBatch(s)
    BY <2>1, PublishStep DEF Facts!Next
  <2>2. CASE InitStream(s)
    <3>1. UNCHANGED <<chain, tip, created, consumed, transitions>>
      BY <2>2 DEF InitStream, chainVars, factVars
    <3>2. StoredView' = StoredView
      BY <3>1 DEF StoredView
    <3>3. checkpoint = -1 => checkpoint' = StartBlock - 1
      BY <2>2 DEF InitStream, NULL, InitialCheckpoint, LagSuffices
    <3>4. checkpoint # -1 => checkpoint' = checkpoint
      BY <2>2 DEF InitStream, NULL
    <3> QED BY <3>1, <3>2, <3>3, <3>4 DEF Facts!Next, Facts!Open
  <2>3. CASE ~ ApplyBatch(s) /\ ~ InitStream(s)
    <3>1. UNCHANGED <<chain, tip>>
      BY <1>3, StepInv DEF chainVars
    <3>2. UNCHANGED <<checkpoint, created, consumed, transitions>>
      <4>1. CASE Prune(s)
        BY <4>1 DEF Prune, streamVars, factVars
      <4>2. CASE ~ Prune(s)
        BY <1>3, <2>3, <4>2, ReadOnlyStep
      <4> QED BY <4>1, <4>2
    <3> QED BY <3>1, <3>2 DEF StoredView
  <2> QED BY <2>1, <2>2, <2>3
<1> QED BY <1>1, <1>2, <1>3 DEF Next

\* One scanner implements the abstract index, for every chain the consensus
\* rules allow, every batch size and every schedule of crashes, outages and
\* reorganisations within the lag: apply_batch publishes exactly the facts of
\* the next range, and no other step of scan_once shows a reader anything.
THEOREM Implements == LagSuffices /\ OneScanner /\ Spec => ImplementsFactIndex
<1> SUFFICES ASSUME LagSuffices, OneScanner PROVE Spec => ImplementsFactIndex
  OBVIOUS
<1>1. Init => Facts!Init
  BY DEF Init, Facts!Init, StoredView, Facts!NoFacts, NoRows, NULL
<1>2. TypeOK /\ TypeOK' /\ IInv /\ IInv' /\ SoloInv /\ SoloInv' /\ [Next]_vars
         => [Facts!Next]_<<chain, tip, checkpoint, StoredView>>
  BY AbstractStep
<1>3. LagSuffices /\ OneScanner
  OBVIOUS
<1> QED BY <1>1, <1>2, <1>3, Solo, PTL DEF Spec, ImplementsFactIndex, Facts!Spec
=============================================================================
