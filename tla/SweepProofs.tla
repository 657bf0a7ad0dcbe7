---------------------------- MODULE SweepProofs ----------------------------
(***************************************************************************)
(* Machine-checked proofs about the Bitcoin side: types, the queue, the    *)
(* truth of recorded spends and the grace period, for any number of drain  *)
(* workers, sweepers and callers, and for every Bitcoin.                   *)
(***************************************************************************)
EXTENDS Sweep, TLAPS, FiniteSetTheorems, SequenceTheorems

-----------------------------------------------------------------------------
(* The inductive invariant *)

\* No outpoint is spent twice, and no block is above the tip.
BtcInv ==
    /\ BtcTypeOK
    /\ \A x, y \in Txids :
          seen[x] # Absent /\ seen[y] # Absent /\ x # y => Spends[x] \cap Spends[y] = {}
    /\ \A x \in Txids : seen[x] <= btcTip

\* What an answer about o may say: a spend it names is there until Bitcoin is
\* unwound, and its height is right.
Real(o, a) ==
    /\ a \in Answers
    /\ IsSpent(a) =>
          /\ a.spender \in Txids
          /\ unwinds = 0 =>
                /\ SpentBy(o, a.spender)
                /\ a.status = "spent_confirmed" => a.height = seen[a.spender] /\ a.height > 0

\* x spends o, Grace blocks deep.
DeepSpend(o, x) ==
    /\ x \in Txids
    /\ unwinds = 0 => SpentBy(o, x) /\ seen[x] > 0 /\ seen[x] + Grace <= btcTip + 1

CkbInv ==
    /\ live \subseteq Outpoints /\ moved \subseteq Outpoints
    /\ backlog \subseteq Txids /\ transitions \subseteq Txids
    /\ target \in Nat \cup {NoTarget}

\* Every due entry is an entry, and is in line once.
QueueInv ==
    /\ DOMAIN queue \subseteq Outpoints
    /\ \A o \in DOMAIN queue : queue[o] \in Nat
    /\ line \in Seq(Outpoints)
    /\ \A i \in DOMAIN line : line[i] \in DOMAIN queue
    /\ \A i, k \in DOMAIN line : line[i] = line[k] => i = k

ObsRows == [is : Answers, by : {"label", "source"}, fresh : BOOLEAN, address : BOOLEAN]

ObsInv ==
    /\ DOMAIN obs \subseteq Outpoints
    /\ \A o \in DOMAIN obs :
          /\ obs[o] \in ObsRows
          /\ obs[o].is.status # "error"
          /\ Real(o, obs[o].is)

FindingsInv ==
    /\ DOMAIN btcTxs \subseteq Txids
    /\ anomalies \subseteq [kind : Kinds, outpoint : Outpoints]

Rows(V) == UNION {[D -> V] : D \in SUBSET Outpoints}

Jobs == [want : SUBSET Outpoints, todo : SUBSET Outpoints, answers : Rows(Answers),
         done : SUBSET Outpoints, cur : Nat, spender : Txids \cup {NoTx},
         fresh : SUBSET Outpoints, cursor : Int, tip : Nat, pending : Rows(Txids)]

\* What a process at label l holds: its answers may be recorded, and the rows
\* it is about to report on are deep spends ...
HeldInv(l, j) ==
    /\ j \in Jobs
    /\ \A o \in DOMAIN j.answers : Real(o, j.answers[o])
    /\ j.tip <= btcTip
    /\ \A o \in DOMAIN j.pending : DeepSpend(o, j.pending[o])
    /\ l \in {"follow", "fetch", "spender"} => j.spender \in Txids
    /\ l \in {"close", "spender", "late", "uncommitted"} => j.cur \in DOMAIN j.pending

\* ... and what it counts as answered or as fresh has a row.
HasRows(j) == j.done \subseteq DOMAIN obs /\ j.fresh \subseteq DOMAIN obs

ProcInv ==
    /\ pc \in [Procs -> PcLabels]
    /\ job \in [Procs -> Jobs]
    /\ \A p \in Procs : HeldInv(pc[p], job[p]) /\ HasRows(job[p])

SweepInv == BtcInv /\ CkbInv /\ QueueInv /\ ObsInv /\ FindingsInv /\ ProcInv

-----------------------------------------------------------------------------
(* Sequences *)

\* The n-th of a finite set of numbers, counted from below.
LEMMA Ranked ==
    ASSUME NEW K \in SUBSET Nat, IsFiniteSet(K), NEW n \in 1 .. Cardinality(K)
    PROVE  \E i \in K : Cardinality({k \in K : k <= i}) = n
<1> DEFINE Below(i) == {k \in K : k <= i}
<1> DEFINE f == [i \in K |-> Cardinality(Below(i))]
<1>1. \A i \in K : IsFiniteSet(Below(i)) /\ Cardinality(Below(i)) \in 1 .. Cardinality(K)
  <2> TAKE i \in K
  <2>1. Below(i) \in SUBSET K /\ i \in Below(i)
    OBVIOUS
  <2>2. IsFiniteSet(Below(i)) /\ Cardinality(Below(i)) <= Cardinality(K)
    BY <2>1, FS_Subset
  <2>3. Cardinality(Below(i)) \in Nat /\ Cardinality(K) \in Nat
    BY <2>2, FS_CardinalityType
  <2>4. Cardinality(Below(i)) # 0
    BY <2>1, <2>2, FS_EmptySet
  <2> QED BY <2>2, <2>3, <2>4
<1>2. ASSUME NEW i \in K, NEW k \in K, i < k PROVE f[i] # f[k]
  <2>1. Below(i) \in SUBSET Below(k)
    <3>1. \A m \in K : m \in Nat /\ i \in Nat /\ k \in Nat
      OBVIOUS
    <3>2. \A m \in Below(i) : m \in Below(k)
      BY <1>2, <3>1
    <3> QED BY <3>2
  <2>2. k \in Below(k) /\ k \notin Below(i)
    BY <1>2
  <2>3. IsFiniteSet(Below(k))
    BY <1>1
  <2> HIDE DEF Below
  <2>4. Below(k) # Below(i)
    BY <2>2
  <2> QED BY <2>1, <2>3, <2>4, FS_Subset
<1>3. f \in Injection(K, 1 .. Cardinality(K))
  <2>1. f \in [K -> 1 .. Cardinality(K)]
    BY <1>1
  <2>2. \A i, k \in K : i # k => i < k \/ k < i
    OBVIOUS
  <2>3. \A i, k \in K : f[i] = f[k] => i = k
    BY <1>2, <2>2
  <2> HIDE DEF f
  <2> QED BY <2>1, <2>3 DEF Injection, IsInjective
<1>4. Cardinality(K) \in Nat
  BY FS_CardinalityType
<1>5. IsFiniteSet(1 .. Cardinality(K)) /\ Cardinality(1 .. Cardinality(K)) = Cardinality(K)
  BY <1>4, FS_Interval
<1>6. f \in Surjection(K, 1 .. Cardinality(K))
  BY <1>3, <1>5, FS_Injection
<1>7. \E i \in K : f[i] = n
  <2> HIDE DEF f
  <2> QED BY <1>6 DEF Surjection
<1> QED BY <1>7

\* What is kept of a sequence without duplicates.
LEMMA Kept ==
    ASSUME NEW U, NEW s \in Seq(U), \A i, k \in DOMAIN s : s[i] = s[k] => i = k, NEW S
    PROVE  /\ Keep(s, S) \in Seq(U)
           /\ \A n \in DOMAIN Keep(s, S) :
                 \E i \in DOMAIN s : Keep(s, S)[n] = s[i] /\ s[i] \notin S
           /\ \A n, m \in DOMAIN Keep(s, S) : Keep(s, S)[n] = Keep(s, S)[m] => n = m
<1> DEFINE K == {i \in DOMAIN s : s[i] \notin S}
           At(n) == CHOOSE i \in K : Cardinality({k \in K : k <= i}) = n
<1>1. K \in SUBSET (1 .. Len(s)) /\ K \in SUBSET Nat
  OBVIOUS
<1>2. IsFiniteSet(K) /\ Cardinality(K) \in Nat
  <2>1. IsFiniteSet(1 .. Len(s))
    BY FS_Interval
  <2> QED BY <1>1, <2>1, FS_Subset, FS_CardinalityType
<1>3. \A n \in 1 .. Cardinality(K) : At(n) \in K /\ Cardinality({k \in K : k <= At(n)}) = n
  <2> TAKE n \in 1 .. Cardinality(K)
  <2> HIDE DEF K
  <2>1. \E i \in K : Cardinality({k \in K : k <= i}) = n
    BY <1>1, <1>2, Ranked
  <2> QED BY <2>1
<1>4. \A n, m \in 1 .. Cardinality(K) : At(n) = At(m) => n = m
  <2> HIDE DEF At
  <2> QED BY <1>3
<1>5. Keep(s, S) = [n \in 1 .. Cardinality(K) |-> s[At(n)]]
  BY DEF Keep
<1> HIDE DEF At
<1>6. \A n \in 1 .. Cardinality(K) : At(n) \in DOMAIN s /\ s[At(n)] \notin S
  BY <1>3
<1>7. \A n \in 1 .. Cardinality(K) : s[At(n)] \in U
  BY <1>6
<1> HIDE DEF K
<1>8. Keep(s, S) \in Seq(U)
  BY <1>2, <1>5, <1>7
<1> QED BY <1>4, <1>5, <1>6, <1>8

-----------------------------------------------------------------------------
(* Bitcoin *)

USE BitcoinAssumption, ReconcileAssumption, SweepAssumption

BtcMoves == BtcNext \/ UNCHANGED btcVars

\* Bitcoin keeps its rules.
LEMMA BtcStep ==
    ASSUME BtcInv, BtcMoves
    PROVE  BtcInv' /\ btcTip <= btcTip'
<1> USE DEF BtcInv, BtcTypeOK, Absent, Mempool
<1>1. ASSUME NEW x \in Txids, Broadcast(x) PROVE BtcInv' /\ btcTip <= btcTip'
  <2>1. BtcTypeOK' /\ btcTip <= btcTip' /\ \A y \in Txids : seen'[y] <= btcTip'
    BY <1>1 DEF Broadcast
  <2>2. \A y \in Txids \ {x} : seen'[y] = seen[y] /\ (seen[y] # Absent => Spends[x] \cap Spends[y] = {})
    BY <1>1 DEF Broadcast, Conflicts
  <2> QED BY <2>1, <2>2
<1>2. ASSUME NEW x \in Txids, Replace(x) PROVE BtcInv' /\ btcTip <= btcTip'
  <2>1. BtcTypeOK' /\ btcTip <= btcTip' /\ \A y \in Txids : seen'[y] <= btcTip'
    BY <1>2 DEF Replace
  <2>2. \A y \in Txids \ {x} :
           /\ seen'[y] # Absent => seen[y] # Absent
           /\ seen'[y] # Absent => Spends[x] \cap Spends[y] = {}
    BY <1>2 DEF Replace, Conflicts
  <2> QED BY <2>1, <2>2
<1>3. CASE MineBtc
  <2>1. PICK confirmed \in SUBSET {x \in Txids : seen[x] = Mempool} :
           seen' = [x \in Txids |-> IF x \in confirmed THEN btcTip + 1 ELSE seen[x]]
    BY <1>3 DEF MineBtc
  <2>2. btcTip' = btcTip + 1 /\ btcTip < MaxBtcHeight /\ unwinds' = unwinds
    BY <1>3 DEF MineBtc
  <2>3. \A x \in Txids : seen'[x] # Absent => seen[x] # Absent
    BY <2>1
  <2>4. BtcTypeOK' /\ \A x \in Txids : seen'[x] <= btcTip'
    BY <2>1, <2>2
  <2> QED BY <2>2, <2>3, <2>4
<1>4. CASE BtcReorg
  <2>1. \A x \in Txids : seen'[x] # Absent => seen[x] # Absent
    BY <1>4 DEF BtcReorg
  <2>2. BtcTypeOK' /\ btcTip' = btcTip /\ \A x \in Txids : seen'[x] <= btcTip'
    BY <1>4 DEF BtcReorg
  <2> QED BY <2>1, <2>2
<1>5. CASE UNCHANGED btcVars
  BY <1>5 DEF btcVars
<1> QED BY <1>1, <1>2, <1>3, <1>4, <1>5 DEF BtcMoves, BtcNext

\* Until it is unwound a transaction that was seen stays, and a height is kept.
LEMMA SeenStays ==
    ASSUME BtcInv, BtcMoves
    PROVE  /\ unwinds' = 0 => unwinds = 0
           /\ unwinds' = 0 => \A x \in Txids :
                 /\ seen[x] # Absent => seen'[x] # Absent
                 /\ seen[x] > 0 => seen'[x] = seen[x]
BY DEF BtcInv, BtcTypeOK, BtcMoves, BtcNext, btcVars, Broadcast, Replace, MineBtc, BtcReorg,
       Absent, Mempool

\* What was true of a spend stays true.
LEMMA TruthStays ==
    ASSUME BtcInv, BtcMoves
    PROVE  /\ \A o, a : Real(o, a) => Real(o, a)'
           /\ \A o, x : DeepSpend(o, x) => DeepSpend(o, x)'
<1>1. btcTip <= btcTip' /\ btcTip \in Int /\ btcTip' \in Int /\ seen \in [Txids -> Int]
  BY BtcStep DEF BtcInv, BtcTypeOK, Absent
<1>2. \A o : \A x \in Txids : unwinds' = 0 /\ SpentBy(o, x) => SpentBy(o, x)'
  BY SeenStays DEF SpentBy
<1>3. ASSUME NEW o, NEW a, Real(o, a) PROVE Real(o, a)'
  BY <1>1, <1>2, <1>3, SeenStays DEF Real, IsSpent
<1>4. ASSUME NEW o, NEW x, DeepSpend(o, x) PROVE DeepSpend(o, x)'
  BY <1>1, <1>2, <1>4, SeenStays DEF DeepSpend
<1> QED BY <1>3, <1>4

\* What a source answers truthfully.
LEMMA TrueAnswer ==
    ASSUME BtcInv, NEW o
    PROVE  /\ Real(o, OutpointStatus(o)) /\ OutpointStatus(o).status # "error"
           /\ \A x \in Txids : SpentBy(o, x) =>
                 OutpointStatus(o).spender = x /\ IsSpent(OutpointStatus(o))
           /\ \A x \in Txids : SpentBy(o, x) /\ seen[x] > 0 =>
                 OutpointStatus(o).status = "spent_confirmed" /\ OutpointStatus(o).height = seen[x]
<1>1. CASE \E x \in Txids : SpentBy(o, x)
  <2> DEFINE x == CHOOSE x \in Txids : SpentBy(o, x)
  <2>1. x \in Txids /\ SpentBy(o, x)
    BY <1>1
  <2>2. \A y \in Txids : SpentBy(o, y) => y = x
    BY <2>1 DEF SpentBy, BtcInv
  <2>3. OutpointStatus(o) = IF seen[x] = Mempool THEN Answer("spent_unconfirmed", x, 0)
                            ELSE Answer("spent_confirmed", x, seen[x])
    BY <1>1 DEF OutpointStatus
  <2>4. seen[x] \in Nat
    BY <2>1 DEF SpentBy, BtcInv, BtcTypeOK, Absent
  <2> HIDE DEF x
  <2>5. CASE seen[x] = Mempool
    <3>1. OutpointStatus(o) = [status |-> "spent_unconfirmed", spender |-> x, height |-> 0]
      BY <2>3, <2>5 DEF Answer
    <3> QED BY <2>1, <2>2, <2>5, <3>1 DEF Real, Answers, IsSpent, SpentStatuses, Mempool
  <2>6. CASE seen[x] # Mempool
    <3>1. OutpointStatus(o) = [status |-> "spent_confirmed", spender |-> x, height |-> seen[x]]
      BY <2>3, <2>6 DEF Answer
    <3> QED BY <2>1, <2>2, <2>4, <2>6, <3>1 DEF Real, Answers, IsSpent, SpentStatuses, Mempool
  <2> QED BY <2>5, <2>6
<1>2. CASE ~ \E x \in Txids : SpentBy(o, x)
  <2>1. OutpointStatus(o) = [status |-> "unspent", spender |-> NoTx, height |-> 0]
    BY <1>2 DEF OutpointStatus, Answer
  <2> QED BY <1>2, <2>1 DEF Real, Answers, IsSpent, SpentStatuses
<1> QED BY <1>1, <1>2

\* An answer that names no spend.
LEMMA NoSpend ==
    ASSUME NEW o, NEW s \in {"unspent", "unknown", "error"}
    PROVE  Real(o, Answer(s, NoTx, 0))
BY DEF Real, Answer, Answers, IsSpent, SpentStatuses

-----------------------------------------------------------------------------
(* The tables *)

\* Queueing and deleting.
LEMMA EnqueueKeeps ==
    ASSUME QueueInv, NEW S \in SUBSET Outpoints, Enqueue(S)
    PROVE  QueueInv' /\ DOMAIN queue \subseteq DOMAIN queue'
<1>1. PICK s \in Orders(S \ InLine) : line' = line \o s
  BY DEF Enqueue
<1> DEFINE T == S \ InLine
<1>2. T \in SUBSET Outpoints /\ IsFiniteSet(T) /\ Cardinality(T) \in Nat
  BY FS_Subset, FS_CardinalityType
<1>3. s \in [1 .. Cardinality(T) -> T] /\ \A i, k \in DOMAIN s : s[i] = s[k] => i = k
  BY <1>1 DEF Orders
<1> HIDE DEF T
<1>4. s \in Seq(Outpoints) /\ Len(s) = Cardinality(T)
  <2>1. PICK n \in Nat : n = Cardinality(T)
    BY <1>2
  <2>2. s \in [1 .. n -> Outpoints]
    BY <1>2, <1>3, <2>1
  <2>3. s \in Seq(Outpoints)
    BY <2>2
  <2>4. Len(s) = n
    BY <2>2, <2>3
  <2> QED BY <2>1, <2>3, <2>4
<1>5. line \in Seq(Outpoints) /\ \A i, k \in DOMAIN line : line[i] = line[k] => i = k
  BY DEF QueueInv
<1>6. /\ line' \in Seq(Outpoints) /\ Len(line') = Len(line) + Len(s)
      /\ \A i \in 1 .. Len(line) : line'[i] = line[i]
      /\ \A i \in Len(line) + 1 .. Len(line) + Len(s) : line'[i] = s[i - Len(line)]
  <2>1. /\ line \o s \in Seq(Outpoints) /\ Len(line \o s) = Len(line) + Len(s)
        /\ \A i \in 1 .. Len(line) + Len(s) :
              (line \o s)[i] = IF i <= Len(line) THEN line[i] ELSE s[i - Len(line)]
    BY <1>4, <1>5, ConcatProperties
  <2>2. Len(line) \in Nat /\ Len(s) \in Nat
    BY <1>4, <1>5
  <2>3. /\ line' \in Seq(Outpoints) /\ Len(line') = Len(line) + Len(s)
        /\ \A i \in 1 .. Len(line) + Len(s) :
              line'[i] = IF i <= Len(line) THEN line[i] ELSE s[i - Len(line)]
    BY <1>1, <2>1
  <2>4. ASSUME NEW i \in 1 .. Len(line) PROVE line'[i] = line[i]
    <3>1. i \in 1 .. Len(line) + Len(s) /\ i <= Len(line)
      BY <2>2
    <3> QED BY <2>3, <3>1
  <2>5. ASSUME NEW i \in Len(line) + 1 .. Len(line) + Len(s) PROVE line'[i] = s[i - Len(line)]
    <3>1. i \in 1 .. Len(line) + Len(s) /\ ~(i <= Len(line))
      BY <2>2
    <3> QED BY <2>3, <3>1
  <2> QED BY <2>3, <2>4, <2>5
<1>7. \A i \in 1 .. Len(line) : line[i] \in InLine
  BY <1>5 DEF InLine
<1>8. \A i \in 1 .. Len(s) : s[i] \in S /\ s[i] \notin InLine
  BY <1>3, <1>4 DEF T
<1>9. \A i \in DOMAIN line' : i \in 1 .. Len(line) \/ (i \in Len(line) + 1 .. Len(line) + Len(s)
                                                      /\ i - Len(line) \in 1 .. Len(s))
  BY <1>4, <1>5, <1>6
<1>10. \A i, k \in DOMAIN line' : line'[i] = line'[k] => i = k
  <2> SUFFICES ASSUME NEW i \in DOMAIN line', NEW k \in DOMAIN line', line'[i] = line'[k]
               PROVE  i = k
    OBVIOUS
  <2>1. CASE i \in 1 .. Len(line) /\ k \in 1 .. Len(line)
    BY <1>5, <1>6, <2>1
  <2>2. CASE i \in 1 .. Len(line) /\ k \notin 1 .. Len(line)
    BY <1>6, <1>7, <1>8, <1>9, <2>2
  <2>3. CASE i \notin 1 .. Len(line) /\ k \in 1 .. Len(line)
    BY <1>6, <1>7, <1>8, <1>9, <2>3
  <2>4. CASE i \notin 1 .. Len(line) /\ k \notin 1 .. Len(line)
    <3>1. s[i - Len(line)] = s[k - Len(line)]
      BY <1>6, <1>9, <2>4
    <3>2. i - Len(line) = k - Len(line)
      BY <1>3, <1>4, <1>9, <2>4, <3>1
    <3>3. i \in Int /\ k \in Int /\ Len(line) \in Int
      BY <1>5, <1>6
    <3> QED BY <3>2, <3>3
  <2> QED BY <2>1, <2>2, <2>3, <2>4
<1>11. queue' = [o \in DOMAIN queue \cup S |-> IF o \in DOMAIN queue THEN queue[o] ELSE 0]
  BY DEF Enqueue
<1>12. DOMAIN queue' = DOMAIN queue \cup S /\ \A o \in DOMAIN queue' : queue'[o] \in Nat
  BY <1>11 DEF QueueInv
<1>13. \A i \in DOMAIN line' : line'[i] \in DOMAIN queue'
  BY <1>5, <1>6, <1>8, <1>9, <1>12 DEF QueueInv
<1> QED BY <1>6, <1>10, <1>12, <1>13 DEF QueueInv

LEMMA DequeueKeeps ==
    ASSUME QueueInv, NEW S, Dequeue(S)
    PROVE  QueueInv' /\ DOMAIN queue \ DOMAIN queue' \subseteq S
<1>1. queue' = [o \in DOMAIN queue \ S |-> queue[o]] /\ line' = Keep(line, S)
  BY DEF Dequeue, Without
<1>2. line \in Seq(Outpoints) /\ \A i, k \in DOMAIN line : line[i] = line[k] => i = k
  BY DEF QueueInv
<1>3. /\ line' \in Seq(Outpoints)
      /\ \A n \in DOMAIN line' : \E i \in DOMAIN line : line'[n] = line[i] /\ line[i] \notin S
      /\ \A n, m \in DOMAIN line' : line'[n] = line'[m] => n = m
  BY <1>1, <1>2, Kept
<1>4. DOMAIN queue' = DOMAIN queue \ S /\ \A o \in DOMAIN queue' : queue'[o] \in Nat
  BY <1>1 DEF QueueInv
<1>5. \A n \in DOMAIN line' : line'[n] \in DOMAIN queue'
  BY <1>3, <1>4 DEF QueueInv
<1> QED BY <1>3, <1>4, <1>5 DEF QueueInv

\* The cache as Bitcoin moves, and as addresses are written to it.
LEMMA ObsKept ==
    ASSUME BtcInv, ObsInv, BtcMoves, obs' = obs
    PROVE  ObsInv'
BY TruthStays DEF ObsInv

LEMMA LabelledKeeps ==
    ASSUME BtcInv, ObsInv, UNCHANGED btcVars, CkbInv, NEW S, obs' = Labelled(S)
    PROVE  ObsInv' /\ DOMAIN obs \subseteq DOMAIN obs'
<1> DEFINE bound == S \cap (live \cup moved) \cap Addressable
<1>1. /\ DOMAIN obs' = DOMAIN obs \cup bound
      /\ \A o \in DOMAIN obs' : obs'[o] =
            IF o \notin DOMAIN obs
            THEN [is |-> Unknown, by |-> "label", fresh |-> TRUE, address |-> TRUE]
            ELSE [obs[o] EXCEPT !.address = @ \/ o \in bound]
  BY DEF Labelled
<1>2. bound \subseteq Outpoints
  BY DEF CkbInv
<1> HIDE DEF bound
<1>3. ASSUME NEW o \in DOMAIN obs'
      PROVE  obs'[o] \in ObsRows /\ obs'[o].is.status # "error" /\ Real(o, obs'[o].is)
  <2>1. CASE o \notin DOMAIN obs
    <3>1. Real(o, Unknown) /\ Unknown.status = "unknown" /\ Unknown \in Answers
      BY NoSpend DEF Unknown, Answer, Real
    <3>2. obs'[o] = [is |-> Unknown, by |-> "label", fresh |-> TRUE, address |-> TRUE]
      BY <1>1, <2>1
    <3> QED BY <3>1, <3>2 DEF ObsRows
  <2>2. CASE o \in DOMAIN obs
    <3>1. obs[o] \in ObsRows /\ obs[o].is.status # "error" /\ Real(o, obs[o].is)
      BY <2>2 DEF ObsInv
    <3>2. obs'[o] = [obs[o] EXCEPT !.address = @ \/ o \in bound]
      BY <1>1, <2>2
    <3>3. obs'[o] \in ObsRows /\ obs'[o].is = obs[o].is
      BY <3>1, <3>2 DEF ObsRows
    <3> QED BY <3>1, <3>3
  <2> QED BY <2>1, <2>2
<1>4. \A o, a : Real(o, a) => Real(o, a)'
  BY TruthStays DEF BtcMoves
<1> QED BY <1>1, <1>2, <1>3, <1>4 DEF ObsInv

\* refresh_btc_tx.
LEMMA RefreshTxKeeps ==
    ASSUME SweepInv, UNCHANGED btcVars, NEW x \in Txids, RefreshBtcTx(x)
    PROVE  ObsInv' /\ DOMAIN obs \subseteq DOMAIN obs' /\ DOMAIN btcTxs' \subseteq Txids
<1>1. obs' = obs \/ obs' = Labelled(Creates[x])
  BY DEF RefreshBtcTx
<1>2. ObsInv' /\ DOMAIN obs \subseteq DOMAIN obs'
  BY <1>1, ObsKept, LabelledKeeps DEF SweepInv, BtcMoves
<1>3. DOMAIN btcTxs' \subseteq Txids
  BY DEF RefreshBtcTx, With, SweepInv, FindingsInv
<1> QED BY <1>2, <1>3

-----------------------------------------------------------------------------
(* Processes *)

LEMMA RowsWithout ==
    ASSUME NEW V, NEW f \in Rows(V), NEW S
    PROVE  /\ Without(f, S) \in Rows(V)
           /\ DOMAIN Without(f, S) = DOMAIN f \ S
           /\ \A o \in DOMAIN f \ S : Without(f, S)[o] = f[o]
<1>1. PICK D \in SUBSET Outpoints : f \in [D -> V]
  BY DEF Rows
<1>2. Without(f, S) = [o \in D \ S |-> f[o]]
  BY <1>1 DEF Without
<1>3. Without(f, S) \in [D \ S -> V] /\ D \ S \in SUBSET Outpoints
  BY <1>1, <1>2
<1> QED BY <1>1, <1>2, <1>3 DEF Rows

\* The same of answers that may be recorded.
LEMMA AnswersWithout ==
    ASSUME NEW f \in Rows(Answers), \A o \in DOMAIN f : Real(o, f[o]), NEW S
    PROVE  /\ Without(f, S) \in Rows(Answers)
           /\ \A o \in DOMAIN Without(f, S) : Real(o, Without(f, S)[o])
<1>1. Without(f, S) \in Rows(Answers) /\ DOMAIN Without(f, S) = DOMAIN f \ S
  BY RowsWithout
<1>2. \A o \in DOMAIN f \ S : Without(f, S)[o] = f[o]
  BY RowsWithout
<1> QED BY <1>1, <1>2

LEMMA AnswersWith ==
    ASSUME NEW f \in Rows(Answers), \A o \in DOMAIN f : Real(o, f[o]),
           NEW o \in Outpoints, NEW a \in Answers, Real(o, a)
    PROVE  /\ With(f, o, a) \in Rows(Answers)
           /\ \A k \in DOMAIN With(f, o, a) : Real(k, With(f, o, a)[k])
<1>1. PICK D \in SUBSET Outpoints : f \in [D -> Answers]
  BY DEF Rows
<1> DEFINE g == With(f, o, a)
<1>2. g = [k \in D \cup {o} |-> IF k = o THEN a ELSE f[k]]
  BY <1>1 DEF With
<1>3. \A k \in D \cup {o} : (IF k = o THEN a ELSE f[k]) \in Answers
  BY <1>1
<1>4. g \in [D \cup {o} -> Answers] /\ D \cup {o} \in SUBSET Outpoints
  BY <1>2, <1>3
<1>5. g \in Rows(Answers)
  BY <1>4 DEF Rows
<1>6. \A k \in D \cup {o} : Real(k, IF k = o THEN a ELSE f[k])
  BY <1>1
<1> HIDE DEF g
<1>7. \A k \in DOMAIN g : Real(k, g[k])
  BY <1>2, <1>6
<1> QED BY <1>5, <1>7 DEF g

LEMMA RowsEmpty ==
    ASSUME NEW V
    PROVE  NoRows \in Rows(V) /\ DOMAIN NoRows = {}
<1>1. NoRows \in [{} -> V]
  BY DEF NoRows
<1> QED BY <1>1 DEF Rows, NoRows

\* Labels at which nothing in particular is held.
Plain == PcLabels \ {"follow", "fetch", "spender", "close", "late", "uncommitted"}

LEMMA HeldEmpty ==
    ASSUME BtcInv, NEW l \in Plain
    PROVE  HeldInv(l, EmptyJob) /\ HasRows(EmptyJob)
<1>1. NoRows \in Rows(Answers) /\ NoRows \in Rows(Txids) /\ DOMAIN NoRows = {}
  BY RowsEmpty
<1> QED BY <1>1 DEF HeldInv, HasRows, EmptyJob, Jobs, Plain, BtcInv, BtcTypeOK

\* A process that stays where it is keeps what it holds, whatever Bitcoin does
\* and whatever rows are added.
LEMMA HeldStays ==
    ASSUME BtcInv, BtcMoves, DOMAIN obs \subseteq DOMAIN obs', NEW l, NEW j,
           HeldInv(l, j), HasRows(j)
    PROVE  HeldInv(l, j)' /\ HasRows(j)'
<1>1. \A o, a : Real(o, a) => Real(o, a)'
  BY TruthStays
<1>2. \A o, x : DeepSpend(o, x) => DeepSpend(o, x)'
  BY TruthStays
<1>3. j.tip <= btcTip'
  BY BtcStep DEF HeldInv, Jobs, BtcInv, BtcTypeOK
<1> QED BY <1>1, <1>2, <1>3 DEF HeldInv, HasRows

LEMMA ProcsStay ==
    ASSUME BtcInv, BtcMoves, DOMAIN obs \subseteq DOMAIN obs', ProcInv, UNCHANGED <<pc, job>>
    PROVE  ProcInv'
<1>1. \A q \in Procs : HeldInv(pc[q], job[q])' /\ HasRows(job[q])'
  BY HeldStays DEF ProcInv
<1> QED BY <1>1 DEF ProcInv

\* The step of one process.
LEMMA ProcStep ==
    ASSUME BtcInv, UNCHANGED btcVars, DOMAIN obs \subseteq DOMAIN obs', ProcInv,
           NEW p \in Procs, NEW l \in PcLabels, NEW j,
           pc' = [pc EXCEPT ![p] = l], job' = [job EXCEPT ![p] = j],
           HeldInv(l, j), j.done \subseteq DOMAIN obs', j.fresh \subseteq DOMAIN obs'
    PROVE  ProcInv'
<1>1. BtcMoves
  BY DEF BtcMoves
<1>2. pc' \in [Procs -> PcLabels] /\ job' \in [Procs -> Jobs]
  BY DEF ProcInv, HeldInv
<1>3. ASSUME NEW q \in Procs \ {p} PROVE HeldInv(pc[q], job[q])' /\ HasRows(job[q])'
  <2>1. pc'[q] = pc[q] /\ job'[q] = job[q]
    BY DEF ProcInv
  <2>2. HeldInv(pc[q], job[q]) /\ HasRows(job[q])
    BY DEF ProcInv
  <2> QED BY <1>1, <2>1, <2>2, HeldStays
<1>4. HeldInv(pc[p], job[p])' /\ HasRows(job[p])'
  <2>1. pc'[p] = l /\ job'[p] = j
    BY DEF ProcInv
  <2>2. \A o, a : Real(o, a) => Real(o, a)'
    BY <1>1, TruthStays
  <2>3. \A o, x : DeepSpend(o, x) => DeepSpend(o, x)'
    BY <1>1, TruthStays
  <2>4. btcTip' = btcTip
    BY DEF btcVars
  <2> QED BY <2>1, <2>2, <2>3, <2>4 DEF HeldInv, HasRows
<1> QED BY <1>2, <1>3, <1>4 DEF ProcInv

\* Only the process and its locals change.
LEMMA QuietStep ==
    ASSUME SweepInv, UNCHANGED <<btcVars, ckbVars, queueVars, obs, btcTxs, anomalies>>,
           NEW p \in Procs, NEW l \in PcLabels, NEW j,
           pc' = [pc EXCEPT ![p] = l], job' = [job EXCEPT ![p] = j],
           HeldInv(l, j), HasRows(j)
    PROVE  SweepInv'
<1>1. ProcInv'
  BY ProcStep DEF SweepInv, HasRows
<1>2. BtcInv'
  BY BtcStep DEF SweepInv, BtcMoves
<1>3. ObsInv'
  BY ObsKept DEF SweepInv, BtcMoves
<1>4. CkbInv' /\ QueueInv' /\ FindingsInv'
  BY DEF SweepInv, CkbInv, QueueInv, FindingsInv, ckbVars, queueVars
<1> QED BY <1>1, <1>2, <1>3, <1>4 DEF SweepInv

\* What else a step of a process may change.
LEMMA ProcessStep ==
    ASSUME SweepInv, UNCHANGED <<btcVars, ckbVars>>,
           QueueInv', ObsInv', FindingsInv', DOMAIN obs \subseteq DOMAIN obs',
           NEW p \in Procs, NEW l \in PcLabels, NEW j,
           pc' = [pc EXCEPT ![p] = l], job' = [job EXCEPT ![p] = j],
           HeldInv(l, j), j.done \subseteq DOMAIN obs', j.fresh \subseteq DOMAIN obs'
    PROVE  SweepInv'
<1>1. ProcInv'
  BY ProcStep DEF SweepInv
<1>2. BtcInv'
  BY BtcStep DEF SweepInv, BtcMoves
<1>3. CkbInv'
  BY DEF SweepInv, CkbInv, ckbVars
<1> QED BY <1>1, <1>2, <1>3 DEF SweepInv

\* The start of a refresh.
LEMMA Begun ==
    ASSUME SweepInv, NEW p \in Procs, NEW m, NEW j, HeldInv(m, j), HasRows(j),
           NEW want \in SUBSET Outpoints, BeginRefresh(p, j, want)
    PROVE  \E l \in PcLabels : \E k \in Jobs :
              /\ pc' = [pc EXCEPT ![p] = l] /\ job' = [job EXCEPT ![p] = k]
              /\ HeldInv(l, k) /\ HasRows(k)
<1> DEFINE l == IF want = {} THEN AfterRefresh(p)
                ELSE IF Capped(want) # want THEN "overflow" ELSE "observe"
           k == [j EXCEPT !.want = want, !.todo = Capped(want), !.answers = NoRows, !.done = {}]
<1>1. l \in Plain
  BY DEF AfterRefresh, Plain, PcLabels
<1>2. pc' = [pc EXCEPT ![p] = l] /\ job' = [job EXCEPT ![p] = k]
  BY DEF BeginRefresh, Goto
<1>3. Capped(want) \in SUBSET Outpoints
  BY DEF Capped
<1>4. j \in Jobs
  BY DEF HeldInv
<1>5. NoRows \in Rows(Answers) /\ DOMAIN NoRows = {}
  BY RowsEmpty
<1>6. /\ k \in Jobs /\ k.answers = NoRows /\ k.done = {} /\ k.fresh = j.fresh
      /\ k.tip = j.tip /\ k.pending = j.pending
  BY <1>3, <1>4, <1>5 DEF Jobs
<1> HIDE DEF k, l
<1>7. HeldInv(l, k) /\ HasRows(k)
  BY <1>1, <1>5, <1>6 DEF HeldInv, HasRows, Plain
<1> QED BY <1>1, <1>2, <1>6, <1>7 DEF Plain

\* The end of an answer.
LEMMA Continued ==
    ASSUME SweepInv, NEW p \in Procs, NEW left \in Rows(Answers),
           \A o \in DOMAIN left : Real(o, left[o]),
           NEW done \in SUBSET Outpoints, NextAnswer(p, left, done)
    PROVE  \E l \in PcLabels : \E k \in Jobs :
              /\ pc' = [pc EXCEPT ![p] = l] /\ job' = [job EXCEPT ![p] = k]
              /\ HeldInv(l, k) /\ k.done \subseteq done /\ k.fresh \subseteq DOMAIN obs
<1>0. job[p] \in Jobs /\ HeldInv(pc[p], job[p]) /\ HasRows(job[p]) /\ job \in [Procs -> Jobs]
  BY DEF SweepInv, ProcInv
<1>1. CASE left # NoRows
  <2> DEFINE k == [job[p] EXCEPT !.answers = left, !.done = done, !.cur = 0, !.spender = NoTx]
  <2>1. job' = [job EXCEPT ![p] = k]
    BY <1>0, <1>1 DEF NextAnswer
  <2>2. pc' = [pc EXCEPT ![p] = "record"] /\ "record" \in Plain
    BY <1>1 DEF NextAnswer, Goto, Plain, PcLabels
  <2>3. /\ k \in Jobs /\ k.answers = left /\ k.done = done /\ k.fresh = job[p].fresh
        /\ k.tip = job[p].tip /\ k.pending = job[p].pending
    BY <1>0 DEF Jobs
  <2> HIDE DEF k
  <2>4. HeldInv("record", k) /\ k.fresh \subseteq DOMAIN obs
    BY <1>0, <2>2, <2>3 DEF HeldInv, HasRows, Plain
  <2> QED BY <2>1, <2>2, <2>3, <2>4 DEF Plain
<1>2. CASE left = NoRows
  <2> DEFINE d == IF p \in Drainers THEN done ELSE {}
             k == [EmptyJob EXCEPT !.done = d, !.cursor = job[p].cursor]
  <2>1. job' = [job EXCEPT ![p] = k]
    BY <1>2 DEF NextAnswer
  <2>2. pc' = [pc EXCEPT ![p] = AfterRefresh(p)] /\ AfterRefresh(p) \in Plain
    BY <1>2 DEF NextAnswer, Goto, Plain, PcLabels, AfterRefresh
  <2>3. HeldInv(AfterRefresh(p), EmptyJob) /\ HasRows(EmptyJob) /\ EmptyJob \in Jobs
    BY <2>2, HeldEmpty DEF SweepInv, HeldInv
  <2>4. d \in SUBSET done
    OBVIOUS
  <2> HIDE DEF d
  <2>5. /\ k \in Jobs /\ k.answers = EmptyJob.answers /\ k.done = d /\ k.fresh = EmptyJob.fresh
        /\ k.tip = EmptyJob.tip /\ k.pending = EmptyJob.pending
    BY <1>0, <2>3, <2>4 DEF Jobs
  <2> HIDE DEF k
  <2>6. HeldInv(AfterRefresh(p), k) /\ k.fresh \subseteq DOMAIN obs
    BY <2>2, <2>3, <2>5 DEF HeldInv, HasRows, Plain
  <2> QED BY <2>1, <2>2, <2>4, <2>5, <2>6 DEF Plain
<1> QED BY <1>1, <1>2

-----------------------------------------------------------------------------
(* refresh_outpoints *)

\* What a process holds before its step.
LEMMA Holds ==
    ASSUME SweepInv, NEW p \in Procs
    PROVE  /\ job \in [Procs -> Jobs] /\ job[p] \in Jobs
           /\ HeldInv(pc[p], job[p]) /\ HasRows(job[p])
           /\ BtcInv /\ CkbInv /\ QueueInv /\ ObsInv /\ FindingsInv
BY DEF SweepInv, ProcInv

LEMMA OverflowKeeps ==
    ASSUME SweepInv, NEW p \in Procs, Overflow(p)
    PROVE  SweepInv'
<1>1. /\ job[p] \in Jobs /\ HeldInv(pc[p], job[p]) /\ HasRows(job[p])
      /\ job \in [Procs -> Jobs]
  BY Holds
<1>2. job[p].want \ job[p].todo \in SUBSET Outpoints
  BY <1>1 DEF Jobs
<1>3. QueueInv'
  BY <1>2, EnqueueKeeps DEF Overflow, SweepInv
<1>4. ObsInv' /\ FindingsInv' /\ obs' = obs /\ UNCHANGED <<btcVars, ckbVars>>
  BY ObsKept DEF Overflow, SweepInv, BtcMoves, FindingsInv
<1>5. pc' = [pc EXCEPT ![p] = "observe"] /\ job' = [job EXCEPT ![p] = job[p]]
  BY <1>1 DEF Overflow, Goto
<1>6. HeldInv("observe", job[p]) /\ "observe" \in PcLabels
  BY <1>1 DEF HeldInv, PcLabels
<1> QED BY <1>1, <1>3, <1>4, <1>5, <1>6, ProcessStep DEF HasRows

LEMMA ObserveKeeps ==
    ASSUME SweepInv, NEW p \in Procs, Observe(p)
    PROVE  SweepInv'
<1>1. /\ job[p] \in Jobs /\ HeldInv(pc[p], job[p]) /\ HasRows(job[p])
      /\ job \in [Procs -> Jobs] /\ BtcInv
  BY Holds
<1>2. PICK o \in job[p].todo :
         \E a \in {OutpointStatus(o), Unknown, Answer("error", NoTx, 0)} :
            /\ job' = [job EXCEPT ![p].todo = @ \ {o}, ![p].answers = With(@, o, a)]
            /\ Goto(p, IF job[p].todo = {o} THEN "record" ELSE "observe")
  BY DEF Observe
<1>3. PICK a \in {OutpointStatus(o), Unknown, Answer("error", NoTx, 0)} :
            /\ job' = [job EXCEPT ![p].todo = @ \ {o}, ![p].answers = With(@, o, a)]
            /\ Goto(p, IF job[p].todo = {o} THEN "record" ELSE "observe")
  BY <1>2
<1>4. Real(o, a) /\ a \in Answers
  BY <1>1, TrueAnswer, NoSpend DEF Unknown, Real
<1> DEFINE f == With(job[p].answers, o, a)
           rest == job[p].todo \ {o}
           k == [job[p] EXCEPT !.todo = rest, !.answers = f]
           l == IF job[p].todo = {o} THEN "record" ELSE "observe"
<1>5. job' = [job EXCEPT ![p] = k] /\ pc' = [pc EXCEPT ![p] = l]
  BY <1>1, <1>3 DEF Goto
<1>6. o \in Outpoints /\ job[p].answers \in Rows(Answers) /\ rest \in SUBSET Outpoints
  BY <1>1 DEF Jobs
<1>7. f \in Rows(Answers) /\ \A i \in DOMAIN f : Real(i, f[i])
  <2>1. PICK g \in Rows(Answers) : g = job[p].answers
    BY <1>6
  <2>2. \A i \in DOMAIN g : Real(i, g[i])
    BY <1>1, <2>1 DEF HeldInv
  <2>3. With(g, o, a) \in Rows(Answers) /\ \A i \in DOMAIN With(g, o, a) : Real(i, With(g, o, a)[i])
    BY <1>4, <1>6, <2>2, AnswersWith
  <2> QED BY <2>1, <2>3
<1> HIDE DEF f, rest
<1>8. /\ k \in Jobs /\ k.answers = f /\ k.done = job[p].done /\ k.fresh = job[p].fresh
      /\ k.tip = job[p].tip /\ k.pending = job[p].pending
  BY <1>1, <1>6, <1>7 DEF Jobs
<1>9. l \in Plain
  BY DEF Plain, PcLabels
<1> HIDE DEF k, l
<1>10. HeldInv(l, k) /\ HasRows(k)
  BY <1>1, <1>7, <1>8, <1>9 DEF HeldInv, HasRows, Plain
<1>11. UNCHANGED <<btcVars, ckbVars, queueVars, obs, btcTxs, anomalies>>
  BY DEF Observe
<1> QED BY <1>5, <1>9, <1>10, <1>11, QuietStep DEF Plain

LEMMA RecordKeeps ==
    ASSUME SweepInv, NEW p \in Procs, Record(p)
    PROVE  SweepInv'
<1>1. /\ job[p] \in Jobs /\ HeldInv(pc[p], job[p]) /\ HasRows(job[p])
      /\ job \in [Procs -> Jobs] /\ BtcInv /\ ObsInv
  BY Holds
<1>2. UNCHANGED <<btcVars, ckbVars>> /\ FindingsInv'
  BY DEF Record, SweepInv, FindingsInv
<1>3. PICK o \in DOMAIN job[p].answers : RecordError(p, o) \/ RecordAnswer(p, o)
  BY DEF Record
<1> DEFINE a == job[p].answers[o]
           left == Without(job[p].answers, {o})
<1>4. job[p].answers \in Rows(Answers) /\ job[p].done \in SUBSET Outpoints
  BY <1>1 DEF Jobs
<1>5. o \in Outpoints /\ a \in Answers /\ Real(o, a)
  <2>1. PICK D \in SUBSET Outpoints : job[p].answers \in [D -> Answers]
    BY <1>4 DEF Rows
  <2>2. \A i \in DOMAIN job[p].answers : Real(i, job[p].answers[i])
    BY <1>1 DEF HeldInv
  <2> QED BY <1>3, <2>1, <2>2
<1>6. left \in Rows(Answers) /\ \A i \in DOMAIN left : Real(i, left[i])
  <2>1. PICK g \in Rows(Answers) : g = job[p].answers
    BY <1>4
  <2>2. \A i \in DOMAIN g : Real(i, g[i])
    BY <1>1, <2>1 DEF HeldInv
  <2>3. Without(g, {o}) \in Rows(Answers) /\ \A i \in DOMAIN Without(g, {o}) : Real(i, Without(g, {o})[i])
    BY <2>2, AnswersWithout
  <2> QED BY <2>1, <2>3
<1>7. CASE RecordError(p, o)
  <2>1. QueueInv' /\ obs' = obs /\ NextAnswer(p, left, job[p].done)
    BY <1>5, <1>7, EnqueueKeeps DEF RecordError, SweepInv
  <2>2. ObsInv'
    BY <1>1, <1>2, <2>1, ObsKept DEF BtcMoves
  <2> HIDE DEF left
  <2>3. PICK l \in PcLabels : \E k \in Jobs :
              /\ pc' = [pc EXCEPT ![p] = l] /\ job' = [job EXCEPT ![p] = k]
              /\ HeldInv(l, k) /\ k.done \subseteq job[p].done /\ k.fresh \subseteq DOMAIN obs
    BY <1>4, <1>6, <2>1, Continued
  <2>4. job[p].done \subseteq DOMAIN obs
    BY <1>1 DEF HasRows
  <2> QED BY <1>2, <2>1, <2>2, <2>3, <2>4, ProcessStep
<1>8. CASE RecordAnswer(p, o)
  <2> DEFINE row == [is |-> a, by |-> "source", fresh |-> TRUE,
                     address |-> o \in DOMAIN obs /\ obs[o].address]
  <2>1. obs' = With(obs, o, row) /\ UNCHANGED queueVars /\ a.status # "error"
    BY <1>8 DEF RecordAnswer
  <2>2. DOMAIN obs' = DOMAIN obs \cup {o} /\ obs'[o] = row
        /\ \A i \in DOMAIN obs' \ {o} : obs'[i] = obs[i]
    BY <2>1 DEF With
  <2>3. row \in ObsRows /\ row.is = a
    BY <1>1, <1>5 DEF ObsInv, ObsRows
  <2> HIDE DEF row, a, left
  <2>4. \A i, b : Real(i, b) => Real(i, b)'
    BY <1>1, <1>2, TruthStays DEF BtcMoves
  <2>5. ObsInv'
    BY <1>1, <1>5, <2>1, <2>2, <2>3, <2>4 DEF ObsInv
  <2>6. QueueInv'
    BY <2>1 DEF SweepInv, QueueInv, queueVars
  <2> DEFINE done == job[p].done \cup {o}
  <2>7. done \in SUBSET Outpoints /\ done \subseteq DOMAIN obs'
    BY <1>1, <1>4, <1>5, <2>2 DEF HasRows
  <2>8. CASE IsSpent(a) /\ ~ Changed(o, a)
    <3>1. NextAnswer(p, left, done)
      BY <1>8, <2>8 DEF RecordAnswer, a, left
    <3> HIDE DEF done
    <3>2. PICK l \in PcLabels : \E k \in Jobs :
              /\ pc' = [pc EXCEPT ![p] = l] /\ job' = [job EXCEPT ![p] = k]
              /\ HeldInv(l, k) /\ k.done \subseteq done /\ k.fresh \subseteq DOMAIN obs
      BY <1>6, <2>7, <3>1, Continued
    <3> QED BY <1>2, <2>2, <2>5, <2>6, <2>7, <3>2, ProcessStep
  <2>9. CASE ~ (IsSpent(a) /\ ~ Changed(o, a))
    <3> DEFINE k == [job[p] EXCEPT !.answers = left, !.cur = o, !.spender = a.spender,
                                   !.done = done]
               l == IF IsSpent(a) THEN "follow" ELSE "resolve"
    <3>1. pc' = [pc EXCEPT ![p] = l]
      BY <1>8, <2>9 DEF RecordAnswer, a, Goto
    <3>2. job' = [job EXCEPT ![p] = k]
      BY <1>1, <1>8, <2>9 DEF RecordAnswer, a, left
    <3>3. a.spender \in Txids \cup {NoTx} /\ (IsSpent(a) => a.spender \in Txids)
      BY <1>5 DEF Answers, Real
    <3> HIDE DEF done
    <3>4. /\ k \in Jobs /\ k.answers = left /\ k.done = done /\ k.fresh = job[p].fresh
          /\ k.tip = job[p].tip /\ k.pending = job[p].pending /\ k.spender = a.spender
      BY <1>1, <1>5, <1>6, <2>7, <3>3 DEF Jobs
    <3> HIDE DEF k
    <3>5. HeldInv(l, k) /\ l \in PcLabels
      BY <1>1, <1>6, <3>3, <3>4 DEF HeldInv, PcLabels
    <3>6. k.fresh \subseteq DOMAIN obs'
      BY <1>1, <2>2, <3>4 DEF HasRows
    <3> HIDE DEF l
    <3> QED BY <1>2, <2>2, <2>5, <2>6, <2>7, <3>1, <3>2, <3>4, <3>5, <3>6, ProcessStep
  <2> QED BY <2>8, <2>9
<1> QED BY <1>3, <1>7, <1>8

LEMMA FollowKeeps ==
    ASSUME SweepInv, NEW p \in Procs, Follow(p)
    PROVE  SweepInv'
<1>1. /\ job[p] \in Jobs /\ HeldInv(pc[p], job[p]) /\ HasRows(job[p])
      /\ BtcInv /\ ObsInv
  BY Holds
<1>2. UNCHANGED <<btcVars, ckbVars, queueVars, anomalies>> /\ pc[p] = "follow"
  BY DEF Follow
<1>3. job[p].spender \in Txids /\ RefreshBtcTx(job[p].spender)
  BY <1>1, <1>2 DEF HeldInv, Follow
<1>4. ObsInv' /\ DOMAIN obs \subseteq DOMAIN obs' /\ DOMAIN btcTxs' \subseteq Txids
  BY <1>2, <1>3, RefreshTxKeeps
<1>5. QueueInv' /\ FindingsInv'
  BY <1>2, <1>4 DEF SweepInv, QueueInv, FindingsInv, queueVars
<1>6. job[p].answers \in Rows(Answers) /\ job[p].done \in SUBSET Outpoints
  BY <1>1 DEF Jobs
<1>7. NextAnswer(p, job[p].answers, job[p].done) /\ job[p].done \subseteq DOMAIN obs
      /\ \A o \in DOMAIN job[p].answers : Real(o, job[p].answers[o])
  BY <1>1 DEF Follow, HasRows, HeldInv
<1>8. PICK l \in PcLabels : \E k \in Jobs :
         /\ pc' = [pc EXCEPT ![p] = l] /\ job' = [job EXCEPT ![p] = k]
         /\ HeldInv(l, k) /\ k.done \subseteq job[p].done /\ k.fresh \subseteq DOMAIN obs
  BY <1>6, <1>7, Continued
<1> QED BY <1>2, <1>4, <1>5, <1>7, <1>8, ProcessStep

LEMMA ResolveKeeps ==
    ASSUME SweepInv, NEW p \in Procs, Resolve(p)
    PROVE  SweepInv'
<1>1. /\ job[p] \in Jobs /\ HeldInv(pc[p], job[p]) /\ HasRows(job[p])
      /\ BtcInv /\ ObsInv
  BY Holds
<1>2. UNCHANGED <<btcVars, ckbVars, queueVars, obs, btcTxs>>
  BY DEF Resolve
<1>3. ObsInv'
  BY <1>1, <1>2, ObsKept DEF BtcMoves
<1>4. QueueInv' /\ FindingsInv'
  BY <1>2 DEF SweepInv, QueueInv, FindingsInv, queueVars, Resolve, ResolvedFor
<1>5. job[p].answers \in Rows(Answers) /\ job[p].done \in SUBSET Outpoints
  BY <1>1 DEF Jobs
<1>6. NextAnswer(p, job[p].answers, job[p].done) /\ job[p].done \subseteq DOMAIN obs
      /\ \A o \in DOMAIN job[p].answers : Real(o, job[p].answers[o])
  BY <1>1 DEF Resolve, HasRows, HeldInv
<1>7. PICK l \in PcLabels : \E k \in Jobs :
         /\ pc' = [pc EXCEPT ![p] = l] /\ job' = [job EXCEPT ![p] = k]
         /\ HeldInv(l, k) /\ k.done \subseteq job[p].done /\ k.fresh \subseteq DOMAIN obs
  BY <1>5, <1>6, Continued
<1> QED BY <1>2, <1>3, <1>4, <1>6, <1>7, ProcessStep

-----------------------------------------------------------------------------
(* The drain worker *)

LEMMA DropExhaustedKeeps ==
    ASSUME SweepInv, NEW p \in Procs, DropExhausted(p)
    PROVE  SweepInv'
<1>1. /\ HeldInv(pc[p], job[p]) /\ HasRows(job[p]) /\ job \in [Procs -> Jobs] /\ BtcInv
  BY Holds
<1>2. UNCHANGED <<btcVars, ckbVars, obs, btcTxs, anomalies>>
  BY DEF DropExhausted
<1>3. QueueInv'
  BY DequeueKeeps DEF DropExhausted, SweepInv
<1>4. ObsInv' /\ FindingsInv'
  BY <1>2, ObsKept DEF SweepInv, BtcMoves, FindingsInv
<1>5. pc' = [pc EXCEPT ![p] = "claim"] /\ job' = [job EXCEPT ![p] = job[p]]
  BY <1>1 DEF DropExhausted, Goto
<1>6. HeldInv("claim", job[p]) /\ "claim" \in PcLabels
  BY <1>1 DEF HeldInv, PcLabels
<1> QED BY <1>1, <1>2, <1>3, <1>4, <1>5, <1>6, ProcessStep DEF HasRows

LEMMA ClaimKeeps ==
    ASSUME SweepInv, NEW p \in Procs, Claim(p)
    PROVE  SweepInv' /\ DOMAIN queue' = DOMAIN queue
<1>1. /\ job[p] \in Jobs /\ HeldInv(pc[p], job[p]) /\ HasRows(job[p])
      /\ job \in [Procs -> Jobs] /\ BtcInv /\ QueueInv
  BY Holds
<1>2. UNCHANGED <<btcVars, ckbVars, obs, btcTxs, anomalies>>
  BY DEF Claim
<1> DEFINE picked == {line[i] : i \in 1 .. ClaimSize}
<1>3. /\ queue' = [o \in DOMAIN queue |-> IF o \in picked THEN queue[o] + 1 ELSE queue[o]]
      /\ line' = SubSeq(line, ClaimSize + 1, Len(line))
  BY DEF Claim
<1>4. line \in Seq(Outpoints) /\ Len(line) \in Nat /\ ClaimSize \in 0 .. Len(line)
  BY <1>1 DEF QueueInv, ClaimSize
<1>5. picked \in SUBSET Outpoints
  BY <1>4
<1>6. DOMAIN queue' = DOMAIN queue /\ \A o \in DOMAIN queue' : queue'[o] \in Nat
  <2> HIDE DEF picked
  <2> QED BY <1>1, <1>3 DEF QueueInv
<1> DEFINE c == ClaimSize
<1> HIDE DEF c
<1>7. /\ line' \in Seq(Outpoints) /\ Len(line') = Len(line) - c
      /\ \A i \in 1 .. Len(line') : i + c \in 1 .. Len(line) /\ line'[i] = line[i + c]
  <2>1. c \in Nat /\ c <= Len(line) /\ line' = SubSeq(line, c + 1, Len(line))
    BY <1>3, <1>4 DEF c
  <2>2. \A i \in c + 1 .. Len(line) : line[i] \in Outpoints
    BY <1>4, <2>1
  <2>3. /\ line' \in Seq(Outpoints)
        /\ Len(line') = IF c + 1 <= Len(line) THEN Len(line) - (c + 1) + 1 ELSE 0
        /\ \A i \in 1 .. Len(line) - (c + 1) + 1 : line'[i] = line[c + 1 + i - 1]
    BY <1>4, <2>1, <2>2, SubSeqProperties
  <2>4. Len(line') = Len(line) - c
    BY <1>4, <2>1, <2>3
  <2>5. \A i \in 1 .. Len(line') : /\ i \in 1 .. Len(line) - (c + 1) + 1
                                   /\ c + 1 + i - 1 = i + c /\ i + c \in 1 .. Len(line)
    BY <1>4, <2>1, <2>4
  <2>6. \A i \in 1 .. Len(line') : line'[i] = line[i + c]
    BY <2>3, <2>5
  <2> QED BY <2>3, <2>4, <2>5, <2>6
<1>8. \A i \in DOMAIN line' : line'[i] \in DOMAIN queue'
  BY <1>1, <1>4, <1>6, <1>7 DEF QueueInv
<1>9. \A i, k \in DOMAIN line' : line'[i] = line'[k] => i = k
  <2> TAKE i, k \in DOMAIN line'
  <2> HAVE line'[i] = line'[k]
  <2>1. i \in Nat /\ k \in Nat /\ c \in Nat
    BY <1>4, <1>7 DEF c
  <2>2. i + c \in DOMAIN line /\ k + c \in DOMAIN line /\ line[i + c] = line[k + c]
    BY <1>4, <1>7
  <2>3. i + c = k + c
    BY <1>1, <2>2 DEF QueueInv
  <2> QED BY <2>1, <2>3
<1>10. QueueInv'
  BY <1>1, <1>6, <1>7, <1>8, <1>9 DEF QueueInv
<1>11. ObsInv' /\ FindingsInv'
  BY <1>2, ObsKept DEF SweepInv, BtcMoves, FindingsInv
<1> DEFINE k == [job[p] EXCEPT !.want = picked]
           l == IF picked = {} THEN "idle" ELSE "fresh"
<1>12. pc' = [pc EXCEPT ![p] = l] /\ job' = [job EXCEPT ![p] = k]
  BY <1>1 DEF Claim, Goto
<1>13. l \in Plain
  BY DEF Plain, PcLabels
<1> HIDE DEF picked, l
<1>14. /\ k \in Jobs /\ k.answers = job[p].answers /\ k.done = job[p].done
       /\ k.fresh = job[p].fresh /\ k.tip = job[p].tip /\ k.pending = job[p].pending
  BY <1>1, <1>5 DEF Jobs
<1> HIDE DEF k
<1>15. HeldInv(l, k) /\ HasRows(k)
  BY <1>1, <1>13, <1>14 DEF HeldInv, HasRows, Plain
<1> QED BY <1>2, <1>6, <1>10, <1>11, <1>12, <1>13, <1>15, ProcessStep DEF HasRows, Plain

LEMMA FilterFreshKeeps ==
    ASSUME SweepInv, NEW p \in Procs, FilterFresh(p)
    PROVE  SweepInv'
<1>1. /\ job[p] \in Jobs /\ HeldInv(pc[p], job[p]) /\ HasRows(job[p])
      /\ job \in [Procs -> Jobs]
  BY Holds
<1>2. UNCHANGED <<btcVars, ckbVars, queueVars, obs, btcTxs, anomalies>>
  BY DEF FilterFresh
<1> DEFINE fresh == {o \in job[p].want : o \in DOMAIN obs /\ obs[o].fresh}
<1>3. job[p].want \in SUBSET Outpoints
  BY <1>1 DEF Jobs
<1>4. fresh \in SUBSET Outpoints /\ fresh \subseteq DOMAIN obs
  BY <1>3
<1>5. CASE fresh = {}
  <2>1. BeginRefresh(p, job[p], job[p].want)
    BY <1>5 DEF FilterFresh
  <2>2. PICK l \in PcLabels : \E k \in Jobs :
              /\ pc' = [pc EXCEPT ![p] = l] /\ job' = [job EXCEPT ![p] = k]
              /\ HeldInv(l, k) /\ HasRows(k)
    BY <1>1, <1>3, <2>1, Begun
  <2> QED BY <1>2, <2>2, QuietStep
<1>6. CASE fresh # {}
  <2> DEFINE k == [job[p] EXCEPT !.fresh = fresh]
  <2>1. pc' = [pc EXCEPT ![p] = "clear"] /\ job' = [job EXCEPT ![p] = k]
    BY <1>1, <1>6 DEF FilterFresh, Goto
  <2> HIDE DEF fresh
  <2>2. /\ k \in Jobs /\ k.answers = job[p].answers /\ k.done = job[p].done
        /\ k.fresh = fresh /\ k.tip = job[p].tip /\ k.pending = job[p].pending
    BY <1>1, <1>4 DEF Jobs
  <2> HIDE DEF k
  <2>3. HeldInv("clear", k) /\ HasRows(k) /\ "clear" \in PcLabels
    BY <1>1, <1>4, <2>2 DEF HeldInv, HasRows, PcLabels
  <2> QED BY <1>2, <2>1, <2>3, QuietStep
<1> QED BY <1>5, <1>6

LEMMA ClearFreshKeeps ==
    ASSUME SweepInv, NEW p \in Procs, ClearFresh(p)
    PROVE  /\ SweepInv'
           /\ \A o \in DOMAIN queue \ DOMAIN queue' : o \in DOMAIN obs
<1>1. /\ job[p] \in Jobs /\ HeldInv(pc[p], job[p]) /\ HasRows(job[p])
      /\ job \in [Procs -> Jobs] /\ BtcInv
  BY Holds
<1>2. UNCHANGED <<btcVars, ckbVars, obs, btcTxs, anomalies>> /\ pc[p] = "clear"
  BY DEF ClearFresh
<1> DEFINE j == job[p]
<1>3. PICK o \in j.fresh :
         /\ Dequeue({o})
         /\ IF j.fresh # {o}
            THEN job' = [job EXCEPT ![p].fresh = @ \ {o}, ![p].want = @ \ {o}] /\ UNCHANGED pc
            ELSE IF j.want = {o}
            THEN job' = [job EXCEPT ![p] = EmptyJob] /\ Goto(p, "idle")
            ELSE BeginRefresh(p, [j EXCEPT !.fresh = {}], j.want \ {o})
  BY DEF ClearFresh
<1>4. QueueInv' /\ DOMAIN queue \ DOMAIN queue' \subseteq {o} /\ o \in DOMAIN obs
  BY <1>1, <1>3, DequeueKeeps DEF SweepInv, HasRows
<1>5. ObsInv' /\ FindingsInv'
  BY <1>2, ObsKept DEF SweepInv, BtcMoves, FindingsInv
<1>6. \E l \in PcLabels : \E k \in Jobs :
         /\ pc' = [pc EXCEPT ![p] = l] /\ job' = [job EXCEPT ![p] = k]
         /\ HeldInv(l, k) /\ HasRows(k)
  <2>1. CASE j.fresh # {o}
    <3> DEFINE f == j.fresh \ {o}
               w == j.want \ {o}
               k == [job[p] EXCEPT !.fresh = f, !.want = w]
    <3>1. job' = [job EXCEPT ![p] = k]
      BY <1>1, <1>3, <2>1
    <3>2. pc' = [pc EXCEPT ![p] = "clear"] /\ "clear" \in PcLabels
      BY <1>2, <1>3, <2>1 DEF SweepInv, ProcInv, PcLabels
    <3>3. f \in SUBSET Outpoints /\ w \in SUBSET Outpoints /\ f \subseteq DOMAIN obs
      BY <1>1 DEF Jobs, HasRows
    <3> HIDE DEF f, w
    <3>4. /\ k \in Jobs /\ k.answers = job[p].answers /\ k.done = job[p].done
          /\ k.fresh = f /\ k.tip = job[p].tip /\ k.pending = job[p].pending
      BY <1>1, <3>3 DEF Jobs
    <3> HIDE DEF k
    <3>5. HeldInv("clear", k) /\ HasRows(k)
      BY <1>1, <3>3, <3>4 DEF HeldInv, HasRows
    <3> QED BY <3>1, <3>2, <3>4, <3>5
  <2>2. CASE j.fresh = {o} /\ j.want = {o}
    <3>1. "idle" \in Plain
      BY DEF Plain, PcLabels
    <3>2. HeldInv("idle", EmptyJob) /\ HasRows(EmptyJob)
      BY <1>1, <3>1, HeldEmpty
    <3>3. pc' = [pc EXCEPT ![p] = "idle"] /\ job' = [job EXCEPT ![p] = EmptyJob]
      BY <1>3, <2>2 DEF Goto
    <3> QED BY <3>1, <3>2, <3>3 DEF Plain, HeldInv
  <2>3. CASE j.fresh = {o} /\ j.want # {o}
    <3> DEFINE w == j.want \ {o}
               k == [job[p] EXCEPT !.fresh = {}]
    <3>1. BeginRefresh(p, k, w)
      BY <1>3, <2>3
    <3>2. w \in SUBSET Outpoints
      BY <1>1 DEF Jobs
    <3>3. /\ k \in Jobs /\ k.answers = job[p].answers /\ k.done = job[p].done
          /\ k.fresh = {} /\ k.tip = job[p].tip /\ k.pending = job[p].pending
      BY <1>1 DEF Jobs
    <3> HIDE DEF k, w
    <3>4. HeldInv("clear", k) /\ HasRows(k)
      BY <1>1, <3>3 DEF HeldInv, HasRows
    <3> QED BY <3>1, <3>2, <3>4, Begun
  <2> QED BY <2>1, <2>2, <2>3
<1>7. PICK l \in PcLabels : \E k \in Jobs :
         /\ pc' = [pc EXCEPT ![p] = l] /\ job' = [job EXCEPT ![p] = k]
         /\ HeldInv(l, k) /\ HasRows(k)
  BY <1>6
<1>8. SweepInv'
  BY <1>2, <1>4, <1>5, <1>7, ProcessStep DEF HasRows
<1> QED BY <1>4, <1>8

LEMMA SettleKeeps ==
    ASSUME SweepInv, NEW p \in Procs, Settle(p)
    PROVE  /\ SweepInv'
           /\ \A o \in DOMAIN queue \ DOMAIN queue' : o \in DOMAIN obs
<1>1. /\ job[p] \in Jobs /\ HeldInv(pc[p], job[p]) /\ HasRows(job[p])
      /\ job \in [Procs -> Jobs] /\ BtcInv
  BY Holds
<1>2. UNCHANGED <<btcVars, ckbVars, obs, btcTxs, anomalies>> /\ pc[p] = "settle"
  BY DEF Settle
<1>3. CASE job[p].done = {}
  <2>1. pc' = [pc EXCEPT ![p] = "idle"] /\ job' = [job EXCEPT ![p] = EmptyJob]
        /\ UNCHANGED queueVars
    BY <1>3 DEF Settle, Goto
  <2>2. "idle" \in Plain
    BY DEF Plain, PcLabels
  <2>3. HeldInv("idle", EmptyJob) /\ HasRows(EmptyJob)
    BY <1>1, <2>2, HeldEmpty
  <2>4. SweepInv'
    BY <1>2, <2>1, <2>2, <2>3, QuietStep DEF Plain
  <2> QED BY <2>1, <2>4 DEF queueVars
<1>4. CASE job[p].done # {}
  <2>1. PICK o \in job[p].done : /\ Dequeue({o})
                                 /\ job' = [job EXCEPT ![p].done = @ \ {o}]
                                 /\ UNCHANGED pc
    BY <1>4 DEF Settle
  <2> DEFINE d == job[p].done \ {o}
             k == [job[p] EXCEPT !.done = d]
  <2>2. QueueInv' /\ DOMAIN queue \ DOMAIN queue' \subseteq {o} /\ o \in DOMAIN obs
    BY <1>1, <2>1, DequeueKeeps DEF SweepInv, HasRows
  <2>3. ObsInv' /\ FindingsInv'
    BY <1>2, ObsKept DEF SweepInv, BtcMoves, FindingsInv
  <2>4. job' = [job EXCEPT ![p] = k]
    BY <1>1, <2>1
  <2>5. pc' = [pc EXCEPT ![p] = "settle"] /\ "settle" \in PcLabels
    BY <1>2, <2>1 DEF SweepInv, ProcInv, PcLabels
  <2>6. d \in SUBSET Outpoints /\ d \subseteq DOMAIN obs
    BY <1>1 DEF Jobs, HasRows
  <2> HIDE DEF d
  <2>7. /\ k \in Jobs /\ k.answers = job[p].answers /\ k.done = d
        /\ k.fresh = job[p].fresh /\ k.tip = job[p].tip /\ k.pending = job[p].pending
    BY <1>1, <2>6 DEF Jobs
  <2> HIDE DEF k
  <2>8. HeldInv("settle", k) /\ HasRows(k)
    BY <1>1, <2>6, <2>7 DEF HeldInv, HasRows
  <2>9. SweepInv'
    BY <1>2, <2>2, <2>3, <2>4, <2>5, <2>8, ProcessStep DEF HasRows
  <2> QED BY <2>2, <2>9
<1> QED BY <1>3, <1>4

-----------------------------------------------------------------------------
(* Requests *)

\* Everything but the queue stays.
LEMMA RequestQueuedKeeps ==
    ASSUME SweepInv, NEW S \in SUBSET Outpoints, RequestQueued(S)
    PROVE  SweepInv' /\ DOMAIN queue \subseteq DOMAIN queue'
<1>1. UNCHANGED <<btcVars, ckbVars, obs, btcTxs, anomalies, pc, job>> /\ BtcMoves
  BY DEF RequestQueued, BtcMoves
<1>2. QueueInv' /\ DOMAIN queue \subseteq DOMAIN queue'
  BY EnqueueKeeps DEF RequestQueued, SweepInv
<1>3. BtcInv' /\ ObsInv' /\ ProcInv'
  BY <1>1, BtcStep, ObsKept, ProcsStay DEF SweepInv
<1>4. CkbInv' /\ FindingsInv'
  BY <1>1 DEF SweepInv, CkbInv, FindingsInv, ckbVars
<1> QED BY <1>2, <1>3, <1>4 DEF SweepInv

LEMMA RequestNowKeeps ==
    ASSUME SweepInv, NEW p \in Procs, RequestNow(p)
    PROVE  SweepInv'
<1>1. UNCHANGED <<btcVars, ckbVars, queueVars, obs, btcTxs, anomalies>>
  BY DEF RequestNow
<1>2. PICK S \in SUBSET Outpoints : BeginRefresh(p, EmptyJob, S)
  BY DEF RequestNow
<1>3. "idle" \in Plain /\ BtcInv
  BY DEF Plain, PcLabels, SweepInv
<1>4. HeldInv("idle", EmptyJob) /\ HasRows(EmptyJob)
  BY <1>3, HeldEmpty
<1>5. PICK l \in PcLabels : \E k \in Jobs :
         /\ pc' = [pc EXCEPT ![p] = l] /\ job' = [job EXCEPT ![p] = k]
         /\ HeldInv(l, k) /\ HasRows(k)
  BY <1>2, <1>4, Begun
<1> QED BY <1>1, <1>5, QuietStep

LEMMA RequestAddressKeeps ==
    ASSUME SweepInv, NEW p \in Procs, RequestAddress(p)
    PROVE  SweepInv'
<1>1. UNCHANGED <<btcVars, ckbVars, queueVars, obs, btcTxs, anomalies>>
  BY DEF RequestAddress
<1>2. PICK listed \in SUBSET Addressable :
         job' = [job EXCEPT ![p] = [EmptyJob EXCEPT !.want = listed]]
  BY DEF RequestAddress
<1>3. pc' = [pc EXCEPT ![p] = "label"] /\ "label" \in Plain /\ BtcInv
  BY DEF RequestAddress, Goto, Plain, PcLabels, SweepInv
<1>4. HeldInv("label", EmptyJob) /\ HasRows(EmptyJob) /\ EmptyJob \in Jobs
  BY <1>3, HeldEmpty DEF HeldInv
<1> DEFINE k == [EmptyJob EXCEPT !.want = listed]
<1>5. /\ k \in Jobs /\ k.answers = EmptyJob.answers /\ k.done = EmptyJob.done
      /\ k.fresh = EmptyJob.fresh /\ k.tip = EmptyJob.tip /\ k.pending = EmptyJob.pending
  BY <1>4 DEF Jobs
<1>6. job' = [job EXCEPT ![p] = k]
  BY <1>2
<1> HIDE DEF k
<1>7. HeldInv("label", k) /\ HasRows(k)
  BY <1>4, <1>5 DEF HeldInv, HasRows
<1> QED BY <1>1, <1>3, <1>6, <1>7, QuietStep DEF Plain

LEMMA LabelAddressKeeps ==
    ASSUME SweepInv, NEW p \in Procs, LabelAddress(p)
    PROVE  SweepInv'
<1>1. /\ HeldInv(pc[p], job[p]) /\ HasRows(job[p]) /\ job \in [Procs -> Jobs]
      /\ BtcInv /\ CkbInv /\ ObsInv
  BY Holds
<1>2. UNCHANGED <<btcVars, ckbVars, queueVars, btcTxs, anomalies>>
  BY DEF LabelAddress
<1>3. ObsInv' /\ DOMAIN obs \subseteq DOMAIN obs'
  BY <1>1, <1>2, LabelledKeeps DEF LabelAddress
<1>4. QueueInv' /\ FindingsInv'
  BY <1>2 DEF SweepInv, QueueInv, FindingsInv, queueVars
<1>5. pc' = [pc EXCEPT ![p] = "diff"] /\ job' = [job EXCEPT ![p] = job[p]]
  BY <1>1 DEF LabelAddress, Goto
<1>6. HeldInv("diff", job[p]) /\ "diff" \in PcLabels
  BY <1>1 DEF HeldInv, PcLabels
<1>7. job[p].done \subseteq DOMAIN obs' /\ job[p].fresh \subseteq DOMAIN obs'
  BY <1>1, <1>3 DEF HasRows
<1> QED BY <1>2, <1>3, <1>4, <1>5, <1>6, <1>7, ProcessStep

LEMMA DiffAddressKeeps ==
    ASSUME SweepInv, NEW p \in Procs, DiffAddress(p)
    PROVE  SweepInv'
<1> DEFINE disappeared  == {o \in live \cap DOMAIN obs : obs[o].address} \ job[p].want
           contradicted == {o \in job[p].want \cap DOMAIN obs : IsSpent(obs[o].is)}
           S == disappeared \cup contradicted
<1>1. UNCHANGED <<btcVars, ckbVars, queueVars, obs, btcTxs, anomalies>>
      /\ BeginRefresh(p, EmptyJob, S)
  BY DEF DiffAddress
<1>2. S \in SUBSET Outpoints
  BY DEF SweepInv, ObsInv
<1> HIDE DEF S
<1>3. "idle" \in Plain /\ BtcInv
  BY DEF Plain, PcLabels, SweepInv
<1>4. HeldInv("idle", EmptyJob) /\ HasRows(EmptyJob)
  BY <1>3, HeldEmpty
<1>5. PICK l \in PcLabels : \E k \in Jobs :
         /\ pc' = [pc EXCEPT ![p] = l] /\ job' = [job EXCEPT ![p] = k]
         /\ HeldInv(l, k) /\ HasRows(k)
  BY <1>1, <1>2, <1>4, Begun
<1> QED BY <1>1, <1>5, QuietStep

LEMMA RequestTransitionKeeps ==
    ASSUME SweepInv, NEW p \in Procs, RequestTransition(p)
    PROVE  SweepInv'
<1>1. /\ job[p] \in Jobs /\ HeldInv(pc[p], job[p]) /\ HasRows(job[p])
      /\ job \in [Procs -> Jobs]
  BY Holds
<1>2. UNCHANGED <<btcVars, ckbVars, queueVars, obs, btcTxs, anomalies>>
  BY DEF RequestTransition
<1>3. PICK x \in Txids : job' = [job EXCEPT ![p].spender = x]
  BY DEF RequestTransition
<1> DEFINE k == [job[p] EXCEPT !.spender = x]
<1>4. pc' = [pc EXCEPT ![p] = "fetch"] /\ job' = [job EXCEPT ![p] = k]
  BY <1>1, <1>3 DEF RequestTransition, Goto
<1>5. /\ k \in Jobs /\ k.answers = job[p].answers /\ k.done = job[p].done
      /\ k.fresh = job[p].fresh /\ k.tip = job[p].tip /\ k.pending = job[p].pending
      /\ k.spender = x
  BY <1>1 DEF Jobs
<1> HIDE DEF k
<1>6. HeldInv("fetch", k) /\ HasRows(k) /\ "fetch" \in PcLabels
  BY <1>1, <1>5 DEF HeldInv, HasRows, PcLabels
<1> QED BY <1>2, <1>4, <1>6, QuietStep

LEMMA FetchTransitionKeeps ==
    ASSUME SweepInv, NEW p \in Procs, FetchTransition(p)
    PROVE  SweepInv'
<1>1. HeldInv(pc[p], job[p]) /\ BtcInv
  BY Holds
<1>2. UNCHANGED <<btcVars, ckbVars, queueVars, anomalies>> /\ pc[p] = "fetch"
  BY DEF FetchTransition
<1> DEFINE x == job[p].spender
           S == IF seen[x] = Absent THEN {} ELSE Spends[x]
<1>3. x \in Txids /\ RefreshBtcTx(x) /\ BeginRefresh(p, EmptyJob, S)
  BY <1>1, <1>2 DEF HeldInv, FetchTransition
<1>4. ObsInv' /\ DOMAIN obs \subseteq DOMAIN obs' /\ DOMAIN btcTxs' \subseteq Txids
  BY <1>2, <1>3, RefreshTxKeeps
<1>5. QueueInv' /\ FindingsInv'
  BY <1>2, <1>4 DEF SweepInv, QueueInv, FindingsInv, queueVars
<1>6. S \in SUBSET Outpoints
  BY <1>3
<1> HIDE DEF S
<1>7. "idle" \in Plain
  BY DEF Plain, PcLabels
<1>8. HeldInv("idle", EmptyJob) /\ HasRows(EmptyJob)
  BY <1>1, <1>7, HeldEmpty
<1>9. PICK l \in PcLabels : \E k \in Jobs :
         /\ pc' = [pc EXCEPT ![p] = l] /\ job' = [job EXCEPT ![p] = k]
         /\ HeldInv(l, k) /\ HasRows(k)
  BY <1>3, <1>6, <1>8, Begun
<1>10. PICK k \in Jobs :
         /\ pc' = [pc EXCEPT ![p] = l] /\ job' = [job EXCEPT ![p] = k]
         /\ HeldInv(l, k) /\ HasRows(k)
  BY <1>9
<1>11. k.done \subseteq DOMAIN obs' /\ k.fresh \subseteq DOMAIN obs'
  BY <1>4, <1>10 DEF HasRows
<1> QED BY <1>2, <1>4, <1>5, <1>10, <1>11, ProcessStep

LEMMA AbortKeeps ==
    ASSUME SweepInv, NEW p \in Procs, Abort(p)
    PROVE  SweepInv'
<1>1. UNCHANGED <<btcVars, ckbVars, queueVars, obs, btcTxs, anomalies>>
  BY DEF Abort
<1>2. pc' = [pc EXCEPT ![p] = "idle"] /\ job' = [job EXCEPT ![p] = EmptyJob]
  BY DEF Abort, Goto
<1>3. "idle" \in Plain /\ BtcInv
  BY DEF Plain, PcLabels, SweepInv
<1>4. HeldInv("idle", EmptyJob) /\ HasRows(EmptyJob)
  BY <1>3, HeldEmpty
<1> QED BY <1>1, <1>2, <1>3, <1>4, QuietStep DEF Plain

-----------------------------------------------------------------------------
(* The sweeper *)

LEMMA LastOfPage ==
    ASSUME NEW K \in SUBSET Outpoints, K # {}
    PROVE  (CHOOSE o \in K : \A k \in K : k <= o) \in K
<1>1. K \in SUBSET Nat /\ IsFiniteSet(K) /\ Cardinality(K) \in Nat
  BY FS_Subset, FS_CardinalityType
<1>2. Cardinality(K) # 0
  BY <1>1, FS_EmptySet
<1>3. Cardinality(K) \in 1 .. Cardinality(K)
  BY <1>1, <1>2
<1>4. PICK i \in K : Cardinality({k \in K : k <= i}) = Cardinality(K)
  BY <1>1, <1>3, Ranked
<1> DEFINE B == {k \in K : k <= i}
<1>5. B \in SUBSET K
  OBVIOUS
<1>6. B = K
  BY <1>1, <1>4, <1>5, FS_Subset
<1>7. \A k \in K : k <= i
  BY <1>6
<1> QED BY <1>7

LEMMA StartSweepKeeps ==
    ASSUME SweepInv, NEW p \in Procs, StartSweep(p)
    PROVE  SweepInv'
<1>1. UNCHANGED <<btcVars, ckbVars, queueVars, obs, btcTxs, anomalies>>
  BY DEF StartSweep
<1>2. pc' = [pc EXCEPT ![p] = "page"] /\ job' = [job EXCEPT ![p] = EmptyJob]
  BY DEF StartSweep, Goto
<1>3. "page" \in Plain /\ BtcInv
  BY DEF Plain, PcLabels, SweepInv
<1>4. HeldInv("page", EmptyJob) /\ HasRows(EmptyJob)
  BY <1>3, HeldEmpty
<1> QED BY <1>1, <1>2, <1>3, <1>4, QuietStep DEF Plain

LEMMA PageKeeps ==
    ASSUME SweepInv, NEW p \in Procs, Page(p)
    PROVE  SweepInv'
<1>1. UNCHANGED <<btcVars, ckbVars, queueVars, obs, btcTxs, anomalies>>
  BY DEF Page
<1> DEFINE page == PageAfter(job[p].cursor)
<1>2. page \in SUBSET Outpoints
  BY DEF PageAfter, SweepInv, CkbInv
<1>3. "page" \in Plain /\ "caught_up" \in Plain /\ BtcInv
  BY DEF Plain, PcLabels, SweepInv
<1>4. CASE page = {}
  <2>1. pc' = [pc EXCEPT ![p] = "caught_up"] /\ job' = [job EXCEPT ![p] = EmptyJob]
    BY <1>4 DEF Page, Goto
  <2>2. HeldInv("caught_up", EmptyJob) /\ HasRows(EmptyJob)
    BY <1>3, HeldEmpty
  <2> QED BY <1>1, <1>3, <2>1, <2>2, QuietStep DEF Plain
<1>5. CASE page # {}
  <2> DEFINE c == CHOOSE o \in page : \A i \in page : i <= o
             j == [EmptyJob EXCEPT !.cursor = c]
  <2>1. BeginRefresh(p, j, page)
    BY <1>5 DEF Page
  <2> HIDE DEF page
  <2>2. c \in page
    BY <1>2, <1>5, LastOfPage
  <2> HIDE DEF c
  <2>3. c \in Int
    BY <1>2, <2>2
  <2>4. HeldInv("page", EmptyJob) /\ HasRows(EmptyJob) /\ EmptyJob \in Jobs
    BY <1>3, HeldEmpty DEF HeldInv
  <2>5. /\ j \in Jobs /\ j.answers = EmptyJob.answers /\ j.done = EmptyJob.done
        /\ j.fresh = EmptyJob.fresh /\ j.tip = EmptyJob.tip /\ j.pending = EmptyJob.pending
    BY <2>3, <2>4 DEF Jobs
  <2> HIDE DEF j
  <2>6. HeldInv("page", j) /\ HasRows(j)
    BY <2>4, <2>5 DEF HeldInv, HasRows
  <2>7. PICK l \in PcLabels : \E k \in Jobs :
              /\ pc' = [pc EXCEPT ![p] = l] /\ job' = [job EXCEPT ![p] = k]
              /\ HeldInv(l, k) /\ HasRows(k)
    BY <1>2, <2>1, <2>6, Begun
  <2> QED BY <1>1, <2>7, QuietStep
<1> QED BY <1>4, <1>5

LEMMA CheckCaughtUpKeeps ==
    ASSUME SweepInv, NEW p \in Procs, CheckCaughtUp(p)
    PROVE  SweepInv'
<1>1. HeldInv(pc[p], job[p]) /\ HasRows(job[p]) /\ job \in [Procs -> Jobs]
  BY Holds
<1> DEFINE l == IF CaughtUp THEN "tip" ELSE "idle"
<1>2. UNCHANGED <<btcVars, ckbVars, queueVars, obs, btcTxs, anomalies>>
  BY DEF CheckCaughtUp
<1>3. pc' = [pc EXCEPT ![p] = l] /\ job' = [job EXCEPT ![p] = job[p]]
  BY <1>1 DEF CheckCaughtUp, Goto
<1>4. HeldInv(l, job[p]) /\ l \in PcLabels
  BY <1>1 DEF HeldInv, PcLabels
<1> HIDE DEF l
<1> QED BY <1>1, <1>2, <1>3, <1>4, QuietStep

LEMMA ReadTipKeeps ==
    ASSUME SweepInv, NEW p \in Procs, ReadTip(p)
    PROVE  SweepInv'
<1>1. /\ job[p] \in Jobs /\ HeldInv(pc[p], job[p]) /\ HasRows(job[p])
      /\ job \in [Procs -> Jobs] /\ btcTip \in Nat
  BY Holds DEF BtcInv, BtcTypeOK
<1>2. UNCHANGED <<btcVars, ckbVars, queueVars, obs, btcTxs, anomalies>>
  BY DEF ReadTip
<1> DEFINE k == [job[p] EXCEPT !.tip = btcTip]
<1>3. pc' = [pc EXCEPT ![p] = "pending"] /\ job' = [job EXCEPT ![p] = k]
  BY <1>1 DEF ReadTip, Goto
<1>4. /\ k \in Jobs /\ k.answers = job[p].answers /\ k.done = job[p].done
      /\ k.fresh = job[p].fresh /\ k.tip = btcTip /\ k.pending = job[p].pending
  BY <1>1 DEF Jobs
<1> HIDE DEF k
<1>5. HeldInv("pending", k) /\ HasRows(k) /\ "pending" \in PcLabels
  BY <1>1, <1>4 DEF HeldInv, HasRows, PcLabels
<1> QED BY <1>2, <1>3, <1>5, QuietStep

\* An observation that is ripe at a tip already passed is a deep spend.
LEMMA RipeIsDeep ==
    ASSUME BtcInv, NEW o, NEW a, Real(o, a), NEW tip \in Nat, tip <= btcTip, Ripe(a, tip)
    PROVE  a.spender \in Txids /\ DeepSpend(o, a.spender)
<1>1. a.status = "spent_confirmed" /\ IsSpent(a) /\ a.spender \in Txids /\ a.height \in Nat
  BY DEF Ripe, IsSpent, SpentStatuses, Real, Answers
<1>2. Confirmations(tip, a.height) >= Grace
  BY DEF Ripe
<1>3. btcTip \in Nat /\ seen[a.spender] \in Int /\ seen[a.spender] <= btcTip
  BY <1>1 DEF BtcInv, BtcTypeOK, Absent
<1>4. ASSUME unwinds = 0
      PROVE  SpentBy(o, a.spender) /\ seen[a.spender] > 0 /\ seen[a.spender] + Grace <= btcTip + 1
  <2>1. SpentBy(o, a.spender) /\ a.height = seen[a.spender] /\ a.height > 0
    BY <1>1, <1>4 DEF Real
  <2>2. a.height + Grace <= btcTip + 1
    BY <1>1, <1>2, <1>3, <2>1 DEF Confirmations
  <2> QED BY <2>1, <2>2
<1> QED BY <1>1, <1>4 DEF DeepSpend

LEMMA ReadPendingKeeps ==
    ASSUME SweepInv, NEW p \in Procs, ReadPending(p)
    PROVE  SweepInv'
<1>1. /\ job[p] \in Jobs /\ HeldInv(pc[p], job[p]) /\ HasRows(job[p])
      /\ job \in [Procs -> Jobs] /\ BtcInv /\ ObsInv /\ CkbInv
  BY Holds
<1>2. UNCHANGED <<btcVars, ckbVars, queueVars, obs, btcTxs, anomalies>>
  BY DEF ReadPending
<1>3. PICK rows \in SUBSET Pending :
        LET ripe == {o \in rows : Ripe(obs[o].is, job[p].tip)} IN
        /\ job' = [job EXCEPT ![p].pending = [o \in ripe |-> obs[o].is.spender]]
        /\ Goto(p, IF ripe = {} THEN "idle" ELSE "match")
  BY DEF ReadPending
<1>4. rows \subseteq live \cap DOMAIN obs
  BY DEF Pending
<1> DEFINE ripe == {o \in rows : Ripe(obs[o].is, job[p].tip)}
           f == [o \in ripe |-> obs[o].is.spender]
           k == [job[p] EXCEPT !.pending = f]
           l == IF ripe = {} THEN "idle" ELSE "match"
<1>5. pc' = [pc EXCEPT ![p] = l] /\ job' = [job EXCEPT ![p] = k]
  BY <1>1, <1>3 DEF Goto
<1>6. l \in Plain
  BY DEF Plain, PcLabels
<1>7. job[p].tip \in Nat /\ job[p].tip <= btcTip
  BY <1>1 DEF Jobs, HeldInv
<1>8. \A o \in ripe : obs[o].is.spender \in Txids /\ DeepSpend(o, obs[o].is.spender)
  BY <1>1, <1>7, <1>4, RipeIsDeep DEF ObsInv
<1>9. ripe \in SUBSET Outpoints
  BY <1>1, <1>4 DEF CkbInv
<1> HIDE DEF ripe
<1>10. f \in [ripe -> Txids] /\ \A o \in DOMAIN f : DeepSpend(o, f[o])
  BY <1>8
<1>11. f \in Rows(Txids)
  BY <1>9, <1>10 DEF Rows
<1> HIDE DEF f, l
<1>12. /\ k \in Jobs /\ k.answers = job[p].answers /\ k.done = job[p].done
       /\ k.fresh = job[p].fresh /\ k.tip = job[p].tip /\ k.pending = f
  BY <1>1, <1>11 DEF Jobs
<1> HIDE DEF k
<1>13. HeldInv(l, k) /\ HasRows(k)
  BY <1>1, <1>6, <1>10, <1>12 DEF HeldInv, HasRows, Plain
<1> QED BY <1>2, <1>5, <1>6, <1>13, QuietStep DEF Plain

LEMMA MatchKeeps ==
    ASSUME SweepInv, NEW p \in Procs, Match(p)
    PROVE  SweepInv'
<1>1. /\ job[p] \in Jobs /\ HeldInv(pc[p], job[p]) /\ HasRows(job[p])
      /\ job \in [Procs -> Jobs]
  BY Holds
<1>2. UNCHANGED <<btcVars, ckbVars, queueVars, obs, btcTxs, anomalies>>
  BY DEF Match
<1>3. PICK o \in DOMAIN job[p].pending :
         /\ job' = [job EXCEPT ![p].cur = o, ![p].spender = job[p].pending[o]]
         /\ Goto(p, IF job[p].pending[o] \in transitions THEN "close" ELSE "spender")
  BY DEF Match
<1> DEFINE x == job[p].pending[o]
           k == [job[p] EXCEPT !.cur = o, !.spender = x]
           l == IF x \in transitions THEN "close" ELSE "spender"
<1>4. pc' = [pc EXCEPT ![p] = l] /\ job' = [job EXCEPT ![p] = k]
  BY <1>1, <1>3 DEF Goto
<1>5. o \in Nat /\ x \in Txids
  <2>1. job[p].pending \in Rows(Txids)
    BY <1>1 DEF Jobs
  <2>2. PICK D \in SUBSET Outpoints : job[p].pending \in [D -> Txids]
    BY <2>1 DEF Rows
  <2> QED BY <1>3, <2>2
<1> HIDE DEF x
<1>6. /\ k \in Jobs /\ k.answers = job[p].answers /\ k.done = job[p].done
      /\ k.fresh = job[p].fresh /\ k.tip = job[p].tip /\ k.pending = job[p].pending
      /\ k.cur = o /\ k.spender = x
  BY <1>1, <1>5 DEF Jobs
<1> HIDE DEF k
<1>7. HeldInv(l, k) /\ HasRows(k) /\ l \in PcLabels
  BY <1>1, <1>3, <1>5, <1>6 DEF HeldInv, HasRows, PcLabels
<1> HIDE DEF l
<1> QED BY <1>2, <1>4, <1>7, QuietStep

\* The rest of the rows.
LEMMA NextRowHeld ==
    ASSUME SweepInv, NEW p \in Procs, NextRow(p)
    PROVE  \E l \in PcLabels : \E k \in Jobs :
              /\ pc' = [pc EXCEPT ![p] = l] /\ job' = [job EXCEPT ![p] = k]
              /\ HeldInv(l, k) /\ HasRows(k)
<1>1. job[p] \in Jobs /\ HeldInv(pc[p], job[p]) /\ BtcInv
  BY Holds
<1> DEFINE left == Without(job[p].pending, {job[p].cur})
<1>2. "idle" \in Plain /\ "match" \in Plain
  BY DEF Plain, PcLabels
<1>3. /\ HeldInv("idle", EmptyJob) /\ HeldInv("match", EmptyJob) /\ HasRows(EmptyJob)
      /\ EmptyJob \in Jobs
  BY <1>1, <1>2, HeldEmpty DEF HeldInv
<1>4. CASE left = NoRows
  <2>1. pc' = [pc EXCEPT ![p] = "idle"] /\ job' = [job EXCEPT ![p] = EmptyJob]
    BY <1>4 DEF NextRow, Goto
  <2> QED BY <1>2, <1>3, <2>1 DEF Plain
<1>5. CASE left # NoRows
  <2> DEFINE k == [EmptyJob EXCEPT !.pending = left, !.tip = job[p].tip]
  <2>1. pc' = [pc EXCEPT ![p] = "match"] /\ job' = [job EXCEPT ![p] = k]
    BY <1>5 DEF NextRow, Goto
  <2>2. left \in Rows(Txids) /\ \A o \in DOMAIN left : DeepSpend(o, left[o])
    <3>1. job[p].pending \in Rows(Txids)
      BY <1>1 DEF Jobs
    <3>2. PICK D \in SUBSET Outpoints : job[p].pending \in [D -> Txids]
      BY <3>1 DEF Rows
    <3> DEFINE E == D \ {job[p].cur}
    <3>3. left = [o \in E |-> job[p].pending[o]]
      BY <3>2 DEF Without
    <3>4. \A o \in E : job[p].pending[o] \in Txids /\ DeepSpend(o, job[p].pending[o])
      BY <1>1, <3>2 DEF HeldInv
    <3>5. E \in SUBSET Outpoints
      OBVIOUS
    <3> HIDE DEF left, E
    <3>6. left \in [E -> Txids] /\ \A o \in DOMAIN left : DeepSpend(o, left[o])
      BY <3>3, <3>4
    <3> QED BY <3>5, <3>6 DEF Rows
  <2>3. job[p].tip \in Nat /\ job[p].tip <= btcTip
    BY <1>1 DEF Jobs, HeldInv
  <2> HIDE DEF left
  <2>4. /\ k \in Jobs /\ k.answers = EmptyJob.answers /\ k.done = EmptyJob.done
        /\ k.fresh = EmptyJob.fresh /\ k.tip = job[p].tip /\ k.pending = left
    BY <1>3, <2>2, <2>3 DEF Jobs
  <2> HIDE DEF k
  <2>5. HeldInv("match", k) /\ HasRows(k)
    BY <1>3, <2>2, <2>3, <2>4 DEF HeldInv, HasRows
  <2> QED BY <1>2, <2>1, <2>4, <2>5 DEF Plain
<1> QED BY <1>4, <1>5

\* A report, or a closed finding, and the rest of the rows.
LEMMA ReportKeeps ==
    ASSUME SweepInv, NEW p \in Procs, NextRow(p),
           UNCHANGED <<btcVars, ckbVars, queueVars, obs, btcTxs>>,
           anomalies' \subseteq [kind : Kinds, outpoint : Outpoints]
    PROVE  SweepInv'
<1>1. PICK l \in PcLabels : \E k \in Jobs :
         /\ pc' = [pc EXCEPT ![p] = l] /\ job' = [job EXCEPT ![p] = k]
         /\ HeldInv(l, k) /\ HasRows(k)
  BY NextRowHeld
<1>2. ObsInv'
  BY ObsKept DEF SweepInv, BtcMoves
<1>3. QueueInv' /\ FindingsInv'
  BY DEF SweepInv, QueueInv, FindingsInv, queueVars
<1> QED BY <1>1, <1>2, <1>3, ProcessStep DEF HasRows

LEMMA CloseKeeps ==
    ASSUME SweepInv, NEW p \in Procs, Close(p)
    PROVE  SweepInv'
<1>1. NextRow(p) /\ UNCHANGED <<btcVars, ckbVars, queueVars, obs, btcTxs>>
  BY DEF Close
<1>2. anomalies' \subseteq [kind : Kinds, outpoint : Outpoints]
  BY DEF Close, ResolvedFor, SweepInv, FindingsInv
<1> QED BY <1>1, <1>2, ReportKeeps

LEMMA FetchSpenderKeeps ==
    ASSUME SweepInv, NEW p \in Procs, FetchSpender(p)
    PROVE  SweepInv'
<1>1. HeldInv(pc[p], job[p]) /\ HasRows(job[p]) /\ job \in [Procs -> Jobs]
  BY Holds
<1>2. UNCHANGED <<btcVars, ckbVars, queueVars, anomalies, job>> /\ pc[p] = "spender"
  BY DEF FetchSpender
<1>3. job[p].spender \in Txids /\ RefreshBtcTx(job[p].spender)
  BY <1>1, <1>2 DEF HeldInv, FetchSpender
<1>4. ObsInv' /\ DOMAIN obs \subseteq DOMAIN obs' /\ DOMAIN btcTxs' \subseteq Txids
  BY <1>2, <1>3, RefreshTxKeeps
<1>5. QueueInv' /\ FindingsInv'
  BY <1>2, <1>4 DEF SweepInv, QueueInv, FindingsInv, queueVars
<1>6. PICK l \in {"late", "uncommitted"} : pc' = [pc EXCEPT ![p] = l]
  BY DEF FetchSpender, Goto
<1>7. HeldInv(l, job[p]) /\ l \in PcLabels /\ job' = [job EXCEPT ![p] = job[p]]
  BY <1>1, <1>2 DEF HeldInv, PcLabels
<1>8. job[p].done \subseteq DOMAIN obs' /\ job[p].fresh \subseteq DOMAIN obs'
  BY <1>1, <1>4 DEF HasRows
<1> QED BY <1>2, <1>4, <1>5, <1>6, <1>7, <1>8, ProcessStep

\* A finding is about a deep spend.
LEMMA RecordFindingKeeps ==
    ASSUME SweepInv, NEW p \in Procs, RecordLate(p) \/ RecordUncommitted(p)
    PROVE  /\ SweepInv'
           /\ \A f \in anomalies' \ anomalies :
                 \E x \in Txids : DeepSpend(f.outpoint, x)
<1>1. job[p] \in Jobs /\ HeldInv(pc[p], job[p])
  BY Holds
<1> DEFINE o == job[p].cur
<1>2. /\ pc[p] \in {"late", "uncommitted"} /\ NextRow(p)
      /\ UNCHANGED <<btcVars, ckbVars, queueVars, obs, btcTxs>>
  BY DEF RecordLate, RecordUncommitted, RecordFinding
<1>3. PICK kind \in Kinds : anomalies' = anomalies \cup {Finding(kind, o)}
  BY DEF RecordLate, RecordUncommitted, RecordFinding, Kinds
<1>4. o \in DOMAIN job[p].pending
  BY <1>1, <1>2 DEF HeldInv
<1>5. o \in Outpoints
  <2>1. job[p].pending \in Rows(Txids)
    BY <1>1 DEF Jobs
  <2>2. PICK D \in SUBSET Outpoints : job[p].pending \in [D -> Txids]
    BY <2>1 DEF Rows
  <2> QED BY <1>4, <2>2
<1>6. \E x \in Txids : DeepSpend(o, x)
  BY <1>1, <1>4 DEF HeldInv, DeepSpend
<1> HIDE DEF o
<1>7. anomalies' \subseteq [kind : Kinds, outpoint : Outpoints]
  BY <1>3, <1>5 DEF Finding, SweepInv, FindingsInv
<1>8. \A f \in anomalies' \ anomalies : f.outpoint = o
  BY <1>3 DEF Finding
<1>9. SweepInv'
  BY <1>2, <1>7, ReportKeeps
<1> QED BY <1>6, <1>8, <1>9

-----------------------------------------------------------------------------
(* Time, and the CKB side *)

\* What happens around the processes touches none of them.
LEMMA AroundStep ==
    ASSUME SweepInv, BtcMoves, UNCHANGED <<btcTxs, anomalies, pc, job>>,
           DOMAIN obs' = DOMAIN obs, CkbInv', QueueInv', ObsInv'
    PROVE  SweepInv'
<1>1. BtcInv' /\ ProcInv'
  BY BtcStep, ProcsStay DEF SweepInv
<1>2. FindingsInv'
  BY DEF SweepInv, FindingsInv
<1> QED BY <1>1, <1>2 DEF SweepInv

LEMMA BackoffEndsKeeps ==
    ASSUME SweepInv, NEW o \in Outpoints, BackoffEnds(o)
    PROVE  SweepInv'
<1>1. /\ UNCHANGED <<queue, btcVars, ckbVars, obs, btcTxs, anomalies, pc, job>> /\ BtcMoves
      /\ o \in DOMAIN queue /\ o \notin InLine /\ line' = Append(line, o)
  BY DEF BackoffEnds, BtcMoves
<1>2. line \in Seq(Outpoints) /\ QueueInv
  BY DEF SweepInv, QueueInv
<1>3. /\ line' \in Seq(Outpoints) /\ Len(line') = Len(line) + 1 /\ line'[Len(line) + 1] = o
      /\ \A i \in 1 .. Len(line) : line'[i] = line[i]
  BY <1>1, <1>2, AppendProperties
<1>4. \A i \in DOMAIN line' : i \in 1 .. Len(line) \/ i = Len(line) + 1
  BY <1>2, <1>3
<1>5. \A i \in 1 .. Len(line) : line[i] # o /\ line[i] \in DOMAIN queue
  BY <1>1, <1>2 DEF InLine, QueueInv
<1>6. \A i \in DOMAIN line' : line'[i] \in DOMAIN queue'
  BY <1>1, <1>3, <1>4, <1>5
<1>7. \A i, k \in DOMAIN line' : line'[i] = line'[k] => i = k
  BY <1>2, <1>3, <1>4, <1>5, SMTT(30) DEF QueueInv
<1>8. QueueInv'
  BY <1>1, <1>2, <1>3, <1>6, <1>7 DEF QueueInv
<1>9. ObsInv' /\ CkbInv'
  BY <1>1, ObsKept DEF SweepInv, CkbInv, ckbVars
<1> QED BY <1>1, <1>8, <1>9, AroundStep

LEMMA GoesStaleKeeps ==
    ASSUME SweepInv, NEW o \in Outpoints, GoesStale(o)
    PROVE  SweepInv'
<1>1. UNCHANGED <<btcVars, ckbVars, queueVars, btcTxs, anomalies, pc, job>> /\ BtcMoves
  BY DEF GoesStale, BtcMoves
<1>2. /\ DOMAIN obs' = DOMAIN obs
      /\ \A i \in DOMAIN obs \ {o} : obs'[i] = obs[i]
      /\ o \in DOMAIN obs /\ obs'[o] = [obs[o] EXCEPT !.fresh = FALSE]
  BY DEF GoesStale
<1>3. obs[o] \in ObsRows /\ obs[o].is.status # "error" /\ Real(o, obs[o].is)
  BY <1>2 DEF SweepInv, ObsInv
<1>4. obs'[o] \in ObsRows /\ obs'[o].is = obs[o].is
  BY <1>2, <1>3 DEF ObsRows
<1>5. \A i, a : Real(i, a) => Real(i, a)'
  BY <1>1, TruthStays DEF SweepInv
<1>6. ObsInv'
  BY <1>2, <1>3, <1>4, <1>5 DEF SweepInv, ObsInv
<1>7. QueueInv' /\ CkbInv'
  BY <1>1 DEF SweepInv, QueueInv, CkbInv, ckbVars, queueVars
<1> QED BY <1>1, <1>2, <1>6, <1>7, AroundStep

LEMMA CkbKeeps ==
    ASSUME SweepInv, NEW x \in Txids, CkbSettles(x) \/ IndexTransition(x)
    PROVE  SweepInv'
<1>1. UNCHANGED <<btcVars, queueVars, obs, btcTxs, anomalies, pc, job>> /\ BtcMoves
  BY DEF CkbSettles, IndexTransition, BtcMoves
<1>2. CkbInv'
  BY DEF SweepInv, CkbInv, CkbSettles, IndexTransition
<1>3. QueueInv' /\ ObsInv'
  BY <1>1, ObsKept DEF SweepInv, QueueInv, queueVars
<1> QED BY <1>1, <1>2, <1>3, AroundStep

LEMMA ProgressKeeps ==
    ASSUME SweepInv, NEW t \in 0 .. Settled, RecordProgress(t)
    PROVE  SweepInv'
<1>1. UNCHANGED <<btcVars, queueVars, obs, btcTxs, anomalies, pc, job>> /\ BtcMoves
  BY DEF RecordProgress, BtcMoves
<1>2. t \in Nat
  OBVIOUS
<1>3. CkbInv'
  BY <1>2 DEF SweepInv, CkbInv, RecordProgress
<1>4. QueueInv' /\ ObsInv'
  BY <1>1, ObsKept DEF SweepInv, QueueInv, queueVars
<1> QED BY <1>1, <1>3, <1>4, AroundStep

LEMMA BtcNextKeeps ==
    ASSUME SweepInv, BtcMoves,
           UNCHANGED <<ckbVars, queueVars, obs, btcTxs, anomalies, pc, job>>
    PROVE  SweepInv'
<1>1. CkbInv' /\ QueueInv'
  BY DEF SweepInv, CkbInv, QueueInv, ckbVars, queueVars
<1>2. ObsInv'
  BY ObsKept DEF SweepInv
<1> QED BY <1>1, <1>2, AroundStep

-----------------------------------------------------------------------------
(* The invariant *)

LEMMA SweepInit == Init => SweepInv
<1> SUFFICES ASSUME Init PROVE SweepInv
  OBVIOUS
<1>1. BtcInv
  BY DEF Init, BtcInit, BtcInv, BtcTypeOK, Absent
<1>2. CkbInv
  BY DEF Init, CkbInv
<1>3. QueueInv
  BY DEF Init, QueueInv, NoRows
<1>4. ObsInv /\ FindingsInv
  BY DEF Init, ObsInv, FindingsInv, NoRows
<1>5. ProcInv
  <2>1. "idle" \in Plain
    BY DEF Plain, PcLabels
  <2>2. HeldInv("idle", EmptyJob) /\ HasRows(EmptyJob) /\ EmptyJob \in Jobs
    BY <1>1, <2>1, HeldEmpty DEF HeldInv
  <2>3. pc = [p \in Procs |-> "idle"] /\ job = [p \in Procs |-> EmptyJob]
    BY DEF Init
  <2> QED BY <2>1, <2>2, <2>3 DEF ProcInv, Plain
<1> QED BY <1>1, <1>2, <1>3, <1>4, <1>5 DEF SweepInv

LEMMA SweepNext == SweepInv /\ [Next]_vars => SweepInv'
<1> SUFFICES ASSUME SweepInv, [Next]_vars PROVE SweepInv'
  OBVIOUS
<1>1. CASE UNCHANGED vars
  <2>1. BtcMoves /\ UNCHANGED <<ckbVars, queueVars, obs, btcTxs, anomalies, pc, job>>
    BY <1>1 DEF vars, BtcMoves
  <2> QED BY <2>1, BtcNextKeeps
<1>2. CASE Passing
  <2>1. CASE BtcNext /\ UNCHANGED <<ckbVars, queueVars, obs, btcTxs, anomalies, pc, job, bounds>>
    BY <2>1, BtcNextKeeps DEF BtcMoves
  <2>2. CASE \E o \in Outpoints : BackoffEnds(o) \/ GoesStale(o)
    BY <2>2, BackoffEndsKeeps, GoesStaleKeeps
  <2>3. CASE \E x \in Txids : CkbSettles(x) \/ IndexTransition(x)
    BY <2>3, CkbKeeps
  <2>4. CASE \E t \in 0 .. Settled : RecordProgress(t)
    BY <2>4, ProgressKeeps
  <2> QED BY <1>2, <2>1, <2>2, <2>3, <2>4 DEF Passing
<1>3. CASE \E S \in SUBSET Outpoints \ {{}} : RequestQueued(S)
  BY <1>3, RequestQueuedKeeps
<1>4. ASSUME NEW p \in Procs, Step(p) PROVE SweepInv'
  <2>1. CASE RefreshStep(p)
    BY <2>1, OverflowKeeps, ObserveKeeps, RecordKeeps, FollowKeeps, ResolveKeeps DEF RefreshStep
  <2>2. CASE DrainStep(p)
    BY <2>2, DropExhaustedKeeps, ClaimKeeps, FilterFreshKeeps, ClearFreshKeeps, SettleKeeps
       DEF DrainStep
  <2>3. CASE SweepStep(p)
    BY <2>3, StartSweepKeeps, PageKeeps, CheckCaughtUpKeeps, ReadTipKeeps, ReadPendingKeeps,
       MatchKeeps, CloseKeeps, FetchSpenderKeeps, RecordFindingKeeps DEF SweepStep
  <2>4. CASE CallerStep(p)
    BY <2>4, RequestNowKeeps, RequestAddressKeeps, LabelAddressKeeps, DiffAddressKeeps,
       RequestTransitionKeeps, FetchTransitionKeeps DEF CallerStep
  <2> QED BY <1>4, <2>1, <2>2, <2>3, <2>4 DEF Step
<1>5. CASE \E p \in Procs : Abort(p)
  BY <1>5, AbortKeeps
<1> QED BY <1>1, <1>2, <1>3, <1>4, <1>5 DEF Next

LEMMA SweepAlways == Spec => []SweepInv
BY SweepInit, SweepNext, PTL DEF Spec

-----------------------------------------------------------------------------
(* The theorems *)

\* A line without duplicates has as many members as places.
LEMMA LineCounts ==
    ASSUME QueueInv
    PROVE  Cardinality(InLine) = Len(line)
<1> DEFINE S == 1 .. Len(line)
           f == [i \in S |-> line[i]]
<1>1. line \in Seq(Outpoints) /\ Len(line) \in Nat /\ DOMAIN line = S
  BY DEF QueueInv
<1>2. InLine = {line[i] : i \in S}
  BY <1>1 DEF InLine
<1>3. f \in Surjection(S, InLine)
  BY <1>2 DEF Surjection
<1>4. f \in Injection(S, InLine)
  BY <1>1, <1>2 DEF Injection, IsInjective, QueueInv
<1>5. IsFiniteSet(S) /\ Cardinality(S) = Len(line)
  <2>1. PICK n \in Nat : n = Len(line)
    BY <1>1
  <2>2. IsFiniteSet(1 .. n) /\ Cardinality(1 .. n) = n
    BY FS_Interval
  <2> QED BY <2>1, <2>2
<1> HIDE DEF f, S
<1> QED BY <1>3, <1>4, <1>5, FS_Surjection

\* The types of the tables and of the processes (reconcile.rs, queue.rs,
\* btc.rs, anomalies.rs, sweeper.rs), and that no entry of the queue is due twice.
THEOREM TypeCorrect == Spec => []TypeOK
<1>1. SweepInv => TypeOK
  <2> SUFFICES ASSUME SweepInv PROVE TypeOK
    OBVIOUS
  <2>1. InLine \subseteq DOMAIN queue /\ Cardinality(InLine) = Len(line)
    BY LineCounts DEF SweepInv, QueueInv, InLine
  <2> QED BY <2>1 DEF SweepInv, BtcInv, CkbInv, QueueInv, ObsInv, ObsRows, FindingsInv,
                      ProcInv, TypeOK
<1> QED BY <1>1, SweepAlways, PTL

\* What the cache says is spent is spent by that transaction, until Bitcoin is
\* unwound: no schedule of the processes that write it (upsert_observation and
\* the two labelling statements) puts anything else there.
THEOREM SpendsAreReal == Spec => []SpendsReal
<1>1. SweepInv => SpendsReal
  <2> SUFFICES ASSUME SweepInv, unwinds = 0, NEW o \in DOMAIN obs, IsSpent(obs[o].is)
               PROVE  obs[o].is.spender = OutpointStatus(o).spender /\ IsSpent(OutpointStatus(o))
    BY DEF SpendsReal
  <2>1. obs[o].is.spender \in Txids /\ SpentBy(o, obs[o].is.spender)
    BY DEF SweepInv, ObsInv, Real
  <2> QED BY <2>1, TrueAnswer DEF SweepInv
<1> QED BY <1>1, SweepAlways, PTL

\* A request is deleted from btc_refresh_queue only when its attempts are used
\* up or a row about it exists, whoever else refreshes or deletes meanwhile.
THEOREM OnlyRecorded == Spec => OnlyRecordedLeave
<1> DEFINE Leaves == \A o \in DOMAIN queue \ DOMAIN queue' :
                        queue[o] >= MaxAttempts \/ o \in DOMAIN obs
<1>1. SweepInv /\ [Next]_vars => [Leaves]_queue
  <2> SUFFICES ASSUME SweepInv, [Next]_vars, queue' # queue PROVE Leaves
    OBVIOUS
  <2>1. ASSUME NEW p \in Procs, Step(p) PROVE Leaves
    <3>1. CASE RefreshStep(p)
      <4>1. \E S : queue' = [o \in DOMAIN queue \cup S |->
                                IF o \in DOMAIN queue THEN queue[o] ELSE 0]
        BY <3>1 DEF RefreshStep, Overflow, Observe, Record, RecordError, RecordAnswer, Follow,
                    Resolve, Enqueue, queueVars
      <4> QED BY <4>1
    <3>2. CASE DrainStep(p)
      <4>1. CASE DropExhausted(p)
        BY <4>1, DequeueKeeps DEF DropExhausted, SweepInv
      <4>2. CASE Claim(p)
        BY <4>2, ClaimKeeps
      <4>3. CASE FilterFresh(p)
        BY <4>3 DEF FilterFresh, queueVars
      <4>4. CASE ClearFresh(p) \/ Settle(p)
        BY <4>4, ClearFreshKeeps, SettleKeeps
      <4> QED BY <3>2, <4>1, <4>2, <4>3, <4>4 DEF DrainStep
    <3>3. CASE SweepStep(p)
      BY <3>3 DEF SweepStep, StartSweep, Page, CheckCaughtUp, ReadTip, ReadPending, Match,
                  Close, FetchSpender, RecordLate, RecordUncommitted, RecordFinding, queueVars
    <3>4. CASE CallerStep(p)
      BY <3>4 DEF CallerStep, RequestNow, RequestAddress, LabelAddress, DiffAddress,
                  RequestTransition, FetchTransition, queueVars
    <3> QED BY <2>1, <3>1, <3>2, <3>3, <3>4 DEF Step
  <2>2. CASE Passing
    BY <2>2 DEF Passing, BackoffEnds, GoesStale, CkbSettles, IndexTransition, RecordProgress,
                queueVars
  <2>3. CASE \E S \in SUBSET Outpoints \ {{}} : RequestQueued(S)
    BY <2>3, RequestQueuedKeeps
  <2>4. CASE \E p \in Procs : Abort(p)
    BY <2>4 DEF Abort, queueVars
  <2> QED BY <2>1, <2>2, <2>3, <2>4 DEF Next, vars, queueVars
<1> QED BY <1>1, SweepAlways, PTL DEF Spec, OnlyRecordedLeave

\* A new finding of detect_misspends is about an outpoint that is spent with
\* Grace confirmations, however old the observation and the tip it was
\* computed from, until Bitcoin is unwound.
THEOREM GraceIsRespected == Spec => GraceRespected
<1> DEFINE Deep == unwinds = 0 => \A f \in anomalies' \ anomalies : SpentDeep(f.outpoint)
<1>1. ASSUME SweepInv, unwinds = 0, NEW o, NEW x \in Txids, DeepSpend(o, x) PROVE SpentDeep(o)
  <2>1. SpentBy(o, x) /\ seen[x] > 0 /\ seen[x] + Grace <= btcTip + 1
    BY <1>1 DEF DeepSpend
  <2> QED BY <1>1, <2>1, TrueAnswer DEF SpentDeep, SweepInv
<1>2. SweepInv /\ [Next]_vars => [Deep]_anomalies
  <2> SUFFICES ASSUME SweepInv, [Next]_vars, anomalies' # anomalies PROVE Deep
    OBVIOUS
  <2>1. ASSUME anomalies' \subseteq anomalies PROVE Deep
    BY <2>1
  <2>2. ASSUME NEW p \in Procs, Step(p) PROVE Deep
    <3>1. CASE RefreshStep(p)
      <4>1. anomalies' \subseteq anomalies
        BY <3>1 DEF RefreshStep, Overflow, Observe, Record, Follow, Resolve, ResolvedFor
      <4> QED BY <2>1, <4>1
    <3>2. CASE DrainStep(p) \/ CallerStep(p)
      BY <3>2 DEF DrainStep, DropExhausted, Claim, FilterFresh, ClearFresh, Settle,
                  CallerStep, RequestNow, RequestAddress, LabelAddress, DiffAddress,
                  RequestTransition, FetchTransition
    <3>3. CASE SweepStep(p)
      <4>1. CASE RecordLate(p) \/ RecordUncommitted(p)
        BY <1>1, <4>1, RecordFindingKeeps
      <4>2. CASE Close(p)
        BY <4>2 DEF Close, ResolvedFor
      <4>3. CASE ~ (RecordLate(p) \/ RecordUncommitted(p) \/ Close(p))
        BY <3>3, <4>3 DEF SweepStep, StartSweep, Page, CheckCaughtUp, ReadTip, ReadPending,
                          Match, FetchSpender
      <4> QED BY <4>1, <4>2, <4>3
    <3> QED BY <2>2, <3>1, <3>2, <3>3 DEF Step
  <2>3. CASE Passing
    BY <2>3 DEF Passing, BackoffEnds, GoesStale, CkbSettles, IndexTransition, RecordProgress
  <2>4. CASE \E S \in SUBSET Outpoints \ {{}} : RequestQueued(S)
    BY <2>4 DEF RequestQueued
  <2>5. CASE \E p \in Procs : Abort(p)
    BY <2>5 DEF Abort
  <2> QED BY <2>2, <2>3, <2>4, <2>5 DEF Next, vars
<1> QED BY <1>2, SweepAlways, PTL DEF Spec, GraceRespected
=============================================================================
