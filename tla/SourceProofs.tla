---------------------------- MODULE SourceProofs ----------------------------
(***************************************************************************)
(* Machine-checked proofs about the throttle of Source and the answers of  *)
(* its two backends, for every number of tasks and permits, every interval *)
(* and page size, any failures and any change of the histories.            *)
(***************************************************************************)
EXTENDS Source, TLAPS, FiniteSetTheorems, WellFoundedInduction

Permits == IF MaxInFlight > 1 THEN MaxInFlight ELSE 1

\* The tasks that hold a permit.
Holders == {g \in Groups : pc[g] \in {"lock", "sleep", "flight"}}

TypeInv ==
    /\ permits \in Nat /\ last \in 0 .. MinInterval
    /\ wake \in 0 .. MinInterval /\ gap \in 0 .. MinInterval
    /\ pc \in [Groups -> PCs]

\* Permits are neither lost nor made.
PermitInv == permits + Cardinality(Holders) = Permits

\* One task holds the lock on last_start, and wakes when its turn has come.
LockInv ==
    /\ gap = last
    /\ \A g, k \in Groups : pc[g] = "sleep" /\ pc[k] = "sleep" => g = k
    /\ \A g \in Groups : pc[g] = "sleep" => wake + last >= MinInterval

ThrottleInv == TypeInv /\ PermitInv /\ LockInv

-----------------------------------------------------------------------------
(* What a step does to the throttle *)

\* An answer or a failure gives the permit back.
Released(g) ==
    /\ pc[g] = "flight"
    /\ permits' = permits + 1
    /\ \E p \in {"permit", "done"} : pc' = [pc EXCEPT ![g] = p]
    /\ UNCHANGED <<last, wake, gap>>

LEMMA ProceedReleases ==
    ASSUME NEW g, NEW j, NEW told, pc[g] = "flight", Proceed(g, j, told)
    PROVE  Released(g)
<1>1. \E p \in {"permit", "done"} : pc' = [pc EXCEPT ![g] = p]
  BY DEF Proceed
<1> QED BY <1>1 DEF Proceed, Released

\* Every way a request ends.
LEMMA AnswerReleases ==
    ASSUME NEW g, Answered(g) \/ RequestFails(g)
    PROVE  Released(g)
<1>1. ASSUME NEW a, NEW found, pc[g] = "flight", EndWalk(g, a, found) PROVE Released(g)
  BY <1>1, ProceedReleases DEF EndWalk, Tell
<1>2. CASE EsploraAnswer(g)
  BY <1>2, ProceedReleases DEF EsploraAnswer, Tell
<1>3. CASE NotFound(g)
  BY <1>3, ProceedReleases DEF NotFound, Tell
<1>4. CASE BlockbookTx(g)
  BY <1>4, ProceedReleases DEF BlockbookTx, Tell
<1>5. CASE BlockbookPage(g)
  BY <1>1, <1>5, ProceedReleases DEF BlockbookPage
<1>6. CASE RequestFails(g)
  BY <1>1, <1>6, ProceedReleases DEF RequestFails, Tell
<1> QED BY <1>2, <1>3, <1>4, <1>5, <1>6 DEF Answered

-----------------------------------------------------------------------------
(* The holders *)

LEMMA HoldersFinite == IsFiniteSet(Holders) /\ Cardinality(Holders) \in Nat
<1>1. Holders \in SUBSET Groups
  BY DEF Holders
<1>2. IsFiniteSet(Holders)
  BY <1>1, FS_Subset, SourceAssumption
<1> QED BY <1>2, FS_CardinalityType

\* A permit taken makes one more holder.
LEMMA TakenPermit ==
    ASSUME TypeInv, NEW g \in Groups, pc[g] = "permit",
           NEW p \in {"lock", "flight"}, pc' = [pc EXCEPT ![g] = p]
    PROVE  Cardinality(Holders') = Cardinality(Holders) + 1
<1>1. g \notin Holders /\ Holders' = Holders \cup {g}
  BY DEF Holders, TypeInv
<1> QED BY <1>1, HoldersFinite, FS_AddElement

\* A permit given back makes one less.
LEMMA ReturnedPermit ==
    ASSUME TypeInv, NEW g \in Groups, pc[g] = "flight",
           NEW p \in {"permit", "done"}, pc' = [pc EXCEPT ![g] = p]
    PROVE  Cardinality(Holders') = Cardinality(Holders) - 1
<1>1. g \in Holders /\ Holders' = Holders \ {g}
  BY DEF Holders, TypeInv
<1> QED BY <1>1, HoldersFinite, FS_RemoveElement

-----------------------------------------------------------------------------
(* The invariant *)

LEMMA ThrottleInit == Init => ThrottleInv
<1> SUFFICES ASSUME Init PROVE ThrottleInv
  OBVIOUS
<1>1. MinInterval \in Nat /\ MaxInFlight \in Nat
  BY SourceAssumption
<1>2. TypeInv
  BY <1>1 DEF Init, TypeInv, PCs
<1>3. Holders = {}
  BY DEF Init, Holders
<1>4. PermitInv
  <2>1. permits = Permits /\ permits \in Nat
    BY <1>1 DEF Init, Permits
  <2> QED BY <1>3, <2>1, FS_EmptySet DEF PermitInv
<1>5. LockInv
  BY DEF Init, LockInv
<1> QED BY <1>2, <1>4, <1>5 DEF ThrottleInv

\* Steps that leave the throttle alone.
LEMMA Untouched ==
    ASSUME ThrottleInv, UNCHANGED <<permits, last, wake, gap, pc>>
    PROVE  ThrottleInv'
BY DEF ThrottleInv, TypeInv, PermitInv, Permits, Holders, LockInv

LEMMA TickKeeps ==
    ASSUME ThrottleInv, Tick
    PROVE  ThrottleInv'
<1> USE DEF ThrottleInv
<1>1. MinInterval \in Nat
  BY SourceAssumption
<1>2. /\ last' = Soon(last) /\ gap' = Soon(gap) /\ permits' = permits /\ pc' = pc
      /\ wake' = (IF wake > 0 THEN wake - 1 ELSE 0)
  BY DEF Tick
<1>3. last \in 0 .. MinInterval /\ wake \in 0 .. MinInterval /\ gap \in 0 .. MinInterval
  BY DEF TypeInv
<1>4. TypeInv'
  BY <1>1, <1>2, <1>3 DEF TypeInv, Soon
<1>5. PermitInv'
  BY <1>2 DEF PermitInv, Permits, Holders
<1>6. wake + last >= MinInterval => wake' + last' >= MinInterval
  BY <1>1, <1>2, <1>3 DEF Soon
<1>7. LockInv'
  BY <1>2, <1>6 DEF LockInv
<1> QED BY <1>4, <1>5, <1>7

LEMMA TakeKeeps ==
    ASSUME ThrottleInv, NEW g \in Groups, TakePermit(g)
    PROVE  ThrottleInv'
<1> USE DEF ThrottleInv
<1>1. MinInterval \in Nat
  BY SourceAssumption
<1>2. PICK p \in {"lock", "flight"} :
          /\ pc' = [pc EXCEPT ![g] = p] /\ pc[g] = "permit"
          /\ permits > 0 /\ permits' = permits - 1
          /\ gap' = (IF MinInterval = 0 THEN 0 ELSE gap) /\ last' = last /\ wake' = wake
  BY DEF TakePermit
<1>3. TypeInv'
  BY <1>1, <1>2 DEF TypeInv, PCs
<1>4. PermitInv'
  <2>1. Cardinality(Holders') = Cardinality(Holders) + 1
    BY <1>2, TakenPermit
  <2>2. permits \in Nat /\ Cardinality(Holders) \in Nat /\ permits + Cardinality(Holders) = Permits
    BY HoldersFinite DEF TypeInv, PermitInv
  <2>3. permits' + Cardinality(Holders') = Permits
    BY <1>2, <2>1, <2>2
  <2> QED BY <2>3 DEF PermitInv, Permits
<1>5. gap' = last'
  BY <1>1, <1>2 DEF LockInv, TypeInv
<1>6. \A k \in Groups : pc'[k] = "sleep" => pc[k] = "sleep"
  BY <1>2 DEF TypeInv
<1>7. LockInv'
  BY <1>2, <1>5, <1>6 DEF LockInv
<1> QED BY <1>3, <1>4, <1>7

\* Steps between the states of a holder.
LEMMA HoldsOn ==
    ASSUME TypeInv, PermitInv, NEW g \in Groups, pc[g] \in {"lock", "sleep"},
           NEW p \in {"sleep", "flight"}, pc' = [pc EXCEPT ![g] = p], permits' = permits
    PROVE  PermitInv'
<1>1. Holders' = Holders
  BY DEF Holders, TypeInv
<1> QED BY <1>1 DEF PermitInv, Permits

LEMMA LockKeeps ==
    ASSUME ThrottleInv, NEW g \in Groups, LockLastStart(g)
    PROVE  ThrottleInv'
<1> USE DEF ThrottleInv
<1>1. MinInterval \in Nat
  BY SourceAssumption
<1>2. /\ pc' = [pc EXCEPT ![g] = "sleep"] /\ pc[g] = "lock"
      /\ \A k \in Groups : pc[k] # "sleep"
      /\ wake' = MinInterval - last /\ last' = last /\ gap' = gap /\ permits' = permits
  BY DEF LockLastStart
<1>3. TypeInv'
  BY <1>1, <1>2 DEF TypeInv, PCs
<1>4. PermitInv'
  BY <1>2, HoldsOn
<1>5. \A k \in Groups : pc'[k] = "sleep" => k = g
  BY <1>2 DEF TypeInv
<1>6. wake' + last' >= MinInterval
  BY <1>1, <1>2 DEF TypeInv
<1>7. LockInv'
  BY <1>2, <1>5, <1>6 DEF LockInv
<1> QED BY <1>3, <1>4, <1>7

LEMMA StartKeeps ==
    ASSUME ThrottleInv, NEW g \in Groups, StartRequest(g)
    PROVE  ThrottleInv'
<1> USE DEF ThrottleInv
<1>1. MinInterval \in Nat
  BY SourceAssumption
<1>2. /\ pc' = [pc EXCEPT ![g] = "flight"] /\ pc[g] = "sleep"
      /\ last' = 0 /\ gap' = 0 /\ wake' = wake /\ permits' = permits
  BY DEF StartRequest
<1>3. TypeInv'
  BY <1>1, <1>2 DEF TypeInv, PCs
<1>4. PermitInv'
  BY <1>2, HoldsOn
<1>5. \A k \in Groups : pc'[k] # "sleep"
  BY <1>2 DEF TypeInv, LockInv
<1>6. LockInv'
  BY <1>2, <1>5 DEF LockInv
<1> QED BY <1>3, <1>4, <1>6

LEMMA ReleaseKeeps ==
    ASSUME ThrottleInv, NEW g \in Groups, Released(g)
    PROVE  ThrottleInv'
<1> USE DEF ThrottleInv
<1>1. PICK p \in {"permit", "done"} :
          /\ pc' = [pc EXCEPT ![g] = p] /\ pc[g] = "flight"
          /\ permits' = permits + 1 /\ last' = last /\ wake' = wake /\ gap' = gap
  BY DEF Released
<1>2. TypeInv'
  BY <1>1 DEF TypeInv, PCs
<1>3. PermitInv'
  <2>1. Cardinality(Holders') = Cardinality(Holders) - 1
    BY <1>1, ReturnedPermit
  <2>2. permits \in Nat /\ Cardinality(Holders) \in Nat /\ permits + Cardinality(Holders) = Permits
    BY HoldersFinite DEF TypeInv, PermitInv
  <2>3. permits' + Cardinality(Holders') = Permits
    BY <1>1, <2>1, <2>2
  <2> QED BY <2>3 DEF PermitInv, Permits
<1>4. \A k \in Groups : pc'[k] = "sleep" => pc[k] = "sleep"
  BY <1>1 DEF TypeInv
<1>5. LockInv'
  BY <1>1, <1>4 DEF LockInv
<1> QED BY <1>2, <1>3, <1>5

\* A group taken up waits for its first permit.
LEMMA QueueKeeps ==
    ASSUME ThrottleInv, NEW g \in Groups, StartGroup(g)
    PROVE  ThrottleInv'
<1> USE DEF ThrottleInv
<1>1. /\ pc' = [pc EXCEPT ![g] = "permit"] /\ pc[g] = "queued"
      /\ permits' = permits /\ last' = last /\ wake' = wake /\ gap' = gap
  BY DEF StartGroup, throttle
<1>2. TypeInv'
  BY <1>1 DEF TypeInv, PCs
<1>3. Holders' = Holders
  BY <1>1 DEF Holders, TypeInv
<1>4. PermitInv'
  BY <1>1, <1>3 DEF PermitInv, Permits
<1>5. \A k \in Groups : pc'[k] = "sleep" => pc[k] = "sleep"
  BY <1>1 DEF TypeInv
<1>6. LockInv'
  BY <1>1, <1>5 DEF LockInv
<1> QED BY <1>2, <1>4, <1>6

LEMMA ThrottleNext ==
    ASSUME ThrottleInv, [Next]_vars
    PROVE  ThrottleInv'
<1>1. CASE \/ \E x \in Spenders : Broadcast(x)
           \/ \E i \in DOMAIN seen : Drop(i)
           \/ MineBtc \/ Returned \/ UNCHANGED vars
  BY <1>1, Untouched DEF Broadcast, Drop, MineBtc, Returned, vars, throttle
<1>2. CASE Tick
  BY <1>2, TickKeeps
<1>3. ASSUME NEW g \in Groups, Task(g) PROVE ThrottleInv'
  BY <1>3, QueueKeeps, TakeKeeps, LockKeeps, StartKeeps, AnswerReleases, ReleaseKeeps DEF Task
<1> QED BY <1>1, <1>2, <1>3 DEF Next

\* The throttle, whatever the tasks do.
LEMMA ThrottleAlways == Spec => []ThrottleInv
BY ThrottleInit, ThrottleNext, PTL DEF Spec

-----------------------------------------------------------------------------
(* The theorems *)

\* throttle.rs: the requests in flight never outnumber max_concurrency (a
\* configured 0 counts as 1), for any number of tasks and failures: a permit is
\* neither lost nor given back twice.
THEOREM BoundedInFlight == Spec => []InFlightBounded
<1>1. ThrottleInv => InFlightBounded
  <2> SUFFICES ASSUME ThrottleInv PROVE InFlightBounded
    OBVIOUS
  <2> DEFINE flight == {g \in Groups : pc[g] = "flight"}
  <2>1. flight \in SUBSET Holders
    BY DEF Holders
  <2>2. IsFiniteSet(flight) /\ Cardinality(flight) \in Nat
        /\ Cardinality(flight) <= Cardinality(Holders)
    BY <2>1, HoldersFinite, FS_Subset, FS_CardinalityType
  <2>3. permits \in Nat /\ Cardinality(Holders) \in Nat /\ permits + Cardinality(Holders) = Permits
    BY HoldersFinite DEF ThrottleInv, TypeInv, PermitInv
  <2>4. MaxInFlight \in Nat
    BY SourceAssumption
  <2> HIDE DEF flight
  <2>5. Cardinality(flight) <= (IF MaxInFlight = 0 THEN 1 ELSE MaxInFlight)
    BY <2>2, <2>3, <2>4 DEF Permits
  <2> QED BY <2>5 DEF InFlightBounded, flight
<1> QED BY <1>1, ThrottleAlways, PTL

\* throttle.rs: acquire lets requests start at least min_interval apart, for every
\* interval and any number of tasks racing for the lock on last_start.
THEOREM SpacedStarts == Spec => StartsSpaced
<1>1. ASSUME ThrottleInv, [Next]_vars, NEW g \in Groups, pc[g] # "flight", pc'[g] = "flight"
      PROVE  gap >= MinInterval
  <2>1. MinInterval \in Nat
    BY SourceAssumption
  <2>2. pc \in [Groups -> PCs] /\ gap \in 0 .. MinInterval /\ last \in 0 .. MinInterval
        /\ wake \in 0 .. MinInterval
    BY <1>1 DEF ThrottleInv, TypeInv
  <2>3. CASE (\E x \in Spenders : Broadcast(x)) \/ (\E i \in DOMAIN seen : Drop(i))
    BY <1>1, <2>3 DEF Broadcast, Drop
  <2>4. CASE MineBtc \/ Tick \/ Returned \/ UNCHANGED vars
    BY <1>1, <2>4 DEF MineBtc, Tick, Returned, vars
  <2>5. ASSUME NEW k \in Groups, Task(k) PROVE gap >= MinInterval
    <3>1. CASE StartGroup(k)
      BY <1>1, <2>2, <3>1 DEF StartGroup
    <3>2. CASE TakePermit(k)
      <4>1. MinInterval = 0
        BY <1>1, <2>2, <3>2 DEF TakePermit
      <4> QED BY <2>2, <4>1
    <3>3. CASE LockLastStart(k)
      BY <1>1, <2>2, <3>3 DEF LockLastStart
    <3>4. CASE StartRequest(k)
      <4>1. pc[k] = "sleep" /\ wake = 0
        BY <3>4 DEF StartRequest
      <4>2. gap = last /\ wake + last >= MinInterval
        BY <1>1, <4>1 DEF ThrottleInv, LockInv
      <4> QED BY <2>1, <2>2, <4>1, <4>2
    <3>5. CASE Answered(k) \/ RequestFails(k)
      <4>1. Released(k)
        BY <3>5, AnswerReleases
      <4> QED BY <1>1, <2>2, <4>1 DEF Released
    <3> QED BY <2>5, <3>1, <3>2, <3>3, <3>4, <3>5 DEF Task
  <2> QED BY <1>1, <2>3, <2>4, <2>5 DEF Next
<1>2. ThrottleInv /\ [Next]_vars =>
          [\A g \in Groups : pc[g] # "flight" /\ pc'[g] = "flight" => gap >= MinInterval]_vars
  BY <1>1
<1> QED BY <1>2, ThrottleAlways, PTL DEF Spec, StartsSpaced

-----------------------------------------------------------------------------
(* The answers *)

Depths == {"spent_confirmed", "spent_unconfirmed"}

\* A transaction was dropped from the history of a.
Thinned(a) == \E x \in dropped : a \in Touched[x]

\* The transactions the source has known.
Known == Range(seen) \cup dropped

\* What excuses an unknown spender, after f failures.
Excused(g, v, f) ==
    \/ f > 0
    \/ OwnerOf[g][v] = NoAddress
    \/ Cardinality(History(OwnerOf[g][v])) > PageSize * MaxAddressPages
    \/ Thinned(OwnerOf[g][v])

EarlySpent(g, v) == \E x \in early[g] : SpentOutput[x] = <<g, v>>

\* What an answer about output v of g may say.
StatusOK(g, v, st, f) ==
    /\ st \in Statuses
    /\ st.status = "unspent" => ~ EarlySpent(g, v)
    /\ \A x \in st.spender : x \in Known /\ SpentOutput[x] = <<g, v>>
    /\ g \notin Unlisted /\ v \in Outs[g] /\ st.status = "unknown" => Excused(g, v, f)

AnswersOK(g, said, f) ==
    /\ said = [v \in DOMAIN said |-> said[v]]
    /\ \A v \in DOMAIN said : v \in Vouts[g] /\ StatusOK(g, v, said[v], f)

Found(g, v, found) == \E x \in DOMAIN found : SpentOutput[x] = <<g, v>>

\* The spender of a flagged output has not been passed by the walk.
Ahead(g, v, walk, page) ==
    /\ OwnerOf[g][v] \in walk
    /\ \E x \in Range(seen) :
          /\ SpentOutput[x] = <<g, v>>
          /\ OwnerOf[g][v] = Least(walk) => Position(OwnerOf[g][v], x) > (page - 1) * PageSize

FoundOK(found) ==
    /\ DOMAIN found \subseteq Known
    /\ \A x \in DOMAIN found : found[x] \in Depths

\* An output asked about that was spent before is among the flagged ones.
FlagsOK(g, scope, spent) ==
    \A v \in scope \cap Outs[g] : EarlySpent(g, v) => v \in spent

JobOK(g, j, f) ==
    /\ DOMAIN j = DOMAIN NoJob
    /\ j.scope \subseteq Vouts[g]
    /\ FoundOK(j.found)
    /\ j.step # "page" => j.page = 1
    /\ j.step = "page" =>
          /\ j.walk \subseteq Addresses /\ j.walk # {} /\ j.page \in Nat \ {0}
          /\ j.spent \subseteq Outs[g]
          /\ FlagsOK(g, j.scope, j.spent)
          /\ \A v \in j.spent :
                Found(g, v, j.found) \/ Excused(g, v, f) \/ Ahead(g, v, j.walk, j.page)

SeenInv ==
    /\ seen \in Seq(Spenders) /\ IsFiniteSet(Range(seen)) /\ mined \subseteq Range(seen)
    /\ dropped \subseteq Spenders
    /\ backend \in Backends /\ faults \in 0 .. MaxFaults
    /\ DOMAIN job = Groups /\ DOMAIN answers = Groups /\ DOMAIN early = Groups

TaskInv(g) ==
    /\ early[g] \subseteq Range(seen)
    /\ pc[g] = "queued" => DOMAIN answers[g] = {}
    /\ AnswersOK(g, answers[g], faults)
    /\ JobOK(g, job[g], faults)

AskInv == SeenInv /\ \A g \in Groups : TaskInv(g)

-----------------------------------------------------------------------------
(* Histories *)

LEMMA LeastIn ==
    ASSUME NEW T \in SUBSET Nat, T # {}
    PROVE  Least(T) \in T
<1>1. \E n \in T : \A m \in T : ~ (<<m, n>> \in OpToRel(<, Nat))
  BY NatLessThanWellFounded, WFMin
<1>2. PICK n \in T : \A m \in T : ~ (<<m, n>> \in OpToRel(<, Nat))
  BY <1>1
<1>3. OpToRel(<, Nat) = {r \in Nat \X Nat : r[1] < r[2]}
  BY DEF OpToRel
<1>4. ASSUME NEW m \in T, m < n PROVE FALSE
  <2>1. <<m, n>> \in {r \in Nat \X Nat : r[1] < r[2]}
    BY <1>4
  <2> QED BY <1>2, <1>3, <2>1, Zenon
<1>5. \A m \in T : n <= m
  BY <1>4
<1> QED BY <1>5 DEF Least

\* What is known stays known, and the histories nothing is dropped from only
\* grow.
Grown ==
    /\ Known \subseteq Known' /\ dropped \subseteq dropped' /\ dropped' \subseteq Spenders
    /\ Range(seen) \subseteq Spenders /\ Range(seen) \subseteq Range(seen)' \cup dropped'
    /\ \A a : /\ Cardinality(History(a)) \in Nat /\ Cardinality(History(a))' \in Nat
              /\ Thinned(a)' \/ Cardinality(History(a)) <= Cardinality(History(a))'
    /\ \A a, y : /\ Position(a, y) \in Nat /\ Position(a, y)' \in Nat
                 /\ a \in Touched[y] => Thinned(a)' \/ Position(a, y) <= Position(a, y)'

\* A new transaction joins at the front: nothing leaves a history, and
\* everything moves back or stays.
LEMMA SeenGrows ==
    ASSUME SeenInv, NEW x \in Spenders, seen' = <<x>> \o seen, dropped' = dropped
    PROVE  /\ seen' \in Seq(Spenders)
           /\ Range(seen)' = Range(seen) \cup {x} /\ IsFiniteSet(Range(seen)')
           /\ Grown
<1>1. /\ seen \in Seq(Spenders) /\ seen' \in Seq(Spenders) /\ Len(seen') = Len(seen) + 1
      /\ seen'[1] = x /\ \A i \in 1 .. Len(seen) : i + 1 \in 1 .. Len(seen') /\ seen'[i + 1] = seen[i]
      /\ \A i \in 1 .. Len(seen') : i = 1 \/ (i - 1 \in 1 .. Len(seen) /\ seen'[i] = seen[i - 1])
  BY DEF SeenInv
<1>2. DOMAIN seen = 1 .. Len(seen) /\ DOMAIN seen' = 1 .. Len(seen') /\ Len(seen) \in Nat
  BY <1>1
<1>3. Range(seen)' = Range(seen) \cup {x}
  <2>1. Range(seen) = {seen[i] : i \in 1 .. Len(seen)}
        /\ Range(seen)' = {seen'[i] : i \in 1 .. Len(seen')}
    BY <1>2 DEF Range
  <2>2. ASSUME NEW y \in Range(seen)' PROVE y \in Range(seen) \cup {x}
    <3>1. PICK i \in 1 .. Len(seen') : y = seen'[i]
      BY <2>1, <2>2
    <3>2. i = 1 \/ (i - 1 \in 1 .. Len(seen) /\ seen'[i] = seen[i - 1])
      BY <1>1
    <3>3. CASE i = 1
      BY <1>1, <3>1, <3>3
    <3>4. CASE i - 1 \in 1 .. Len(seen) /\ seen'[i] = seen[i - 1]
      BY <2>1, <3>1, <3>4
    <3> QED BY <3>2, <3>3, <3>4
  <2>3. ASSUME NEW y \in Range(seen) PROVE y \in Range(seen)'
    <3>1. PICK i \in 1 .. Len(seen) : y = seen[i]
      BY <2>1, <2>3
    <3>2. i + 1 \in 1 .. Len(seen') /\ seen'[i + 1] = y
      BY <1>1, <3>1
    <3> QED BY <2>1, <3>2
  <2>4. x \in Range(seen)'
    <3>1. 1 \in 1 .. Len(seen')
      BY <1>1, <1>2
    <3> QED BY <1>1, <2>1, <3>1
  <2> QED BY <2>2, <2>3, <2>4
<1>4. IsFiniteSet(Range(seen)')
  BY <1>3, FS_AddElement DEF SeenInv
<1>5. ASSUME NEW a
      PROVE  /\ Cardinality(History(a)) \in Nat /\ Cardinality(History(a))' \in Nat
             /\ Cardinality(History(a)) <= Cardinality(History(a))'
  <2>1. History(a)' \in SUBSET Range(seen)' /\ History(a) \in SUBSET History(a)'
    BY <1>3 DEF History
  <2>2. IsFiniteSet(History(a)')
    BY <1>4, <2>1, FS_Subset
  <2> QED BY <2>1, <2>2, FS_Subset, FS_CardinalityType
<1>6. ASSUME NEW a, NEW y
      PROVE  /\ Position(a, y) \in Nat /\ Position(a, y)' \in Nat
             /\ Position(a, y) <= Position(a, y)'
  <2> DEFINE Up == {z \in History(a) :
                       \E i, k \in DOMAIN seen : i <= k /\ seen[i] = z /\ seen[k] = y}
  <2>1. Up' \in SUBSET Range(seen)'
    BY DEF History
  <2>2. ASSUME NEW z \in Up PROVE z \in Up'
    <3>1. PICK i \in DOMAIN seen : \E k \in DOMAIN seen : i <= k /\ seen[i] = z /\ seen[k] = y
      OBVIOUS
    <3>2. PICK k \in DOMAIN seen : i <= k /\ seen[i] = z /\ seen[k] = y
      BY <3>1
    <3>3. /\ i + 1 \in DOMAIN seen' /\ k + 1 \in DOMAIN seen' /\ i + 1 <= k + 1
          /\ seen'[i + 1] = z /\ seen'[k + 1] = y
      <4> HIDE DEF Up
      <4>1. i \in 1 .. Len(seen) /\ k \in 1 .. Len(seen)
        BY <1>2
      <4>2. \A n \in 1 .. Len(seen) : n + 1 \in 1 .. Len(seen') /\ seen'[n + 1] = seen[n]
        BY <1>1
      <4>3. i + 1 \in 1 .. Len(seen') /\ seen'[i + 1] = seen[i]
            /\ k + 1 \in 1 .. Len(seen') /\ seen'[k + 1] = seen[k]
        BY <4>1, <4>2
      <4>4. i + 1 <= k + 1
        BY <1>2, <3>2, <4>1
      <4> QED BY <1>2, <3>2, <4>3, <4>4
    <3>4. z \in History(a)'
      BY <1>3 DEF History
    <3> QED BY <3>3, <3>4
  <2>3. IsFiniteSet(Up')
    BY <1>4, <2>1, FS_Subset
  <2>4. Up \in SUBSET Up'
    BY <2>2
  <2>5. /\ Cardinality(Up) \in Nat /\ Cardinality(Up') \in Nat
        /\ Cardinality(Up) <= Cardinality(Up')
    BY <2>3, <2>4, FS_Subset, FS_CardinalityType
  <2> QED BY <2>5 DEF Position
<1>7. Range(seen) \subseteq Spenders /\ dropped \subseteq Spenders
  BY <1>1 DEF Range, SeenInv
<1> QED BY <1>1, <1>3, <1>4, <1>5, <1>6, <1>7 DEF Grown, Known

\* Positions count from one, up to the length of the history.
LEMMA PositionBounds ==
    ASSUME SeenInv, NEW a, NEW x \in History(a)
    PROVE  /\ Position(a, x) \in Nat /\ Position(a, x) >= 1
           /\ Cardinality(History(a)) \in Nat /\ Position(a, x) <= Cardinality(History(a))
<1> DEFINE Up == {z \in History(a) :
                     \E i, k \in DOMAIN seen : i <= k /\ seen[i] = z /\ seen[k] = x}
<1>1. History(a) \in SUBSET Range(seen) /\ Up \in SUBSET History(a)
  BY DEF History
<1>2. IsFiniteSet(History(a)) /\ IsFiniteSet(Up)
  BY <1>1, FS_Subset DEF SeenInv
<1>3. x \in Up
  <2>1. PICK i \in DOMAIN seen : seen[i] = x
    BY DEF History, Range
  <2>2. i \in Int
    BY <2>1 DEF SeenInv
  <2> QED BY <2>1, <2>2
<1>4. Cardinality(Up) \in Nat /\ Cardinality(Up) # 0 /\ Cardinality(History(a)) \in Nat
      /\ Cardinality(Up) <= Cardinality(History(a))
  BY <1>1, <1>2, <1>3, FS_CardinalityType, FS_EmptySet, FS_Subset
<1>5. Position(a, x) = Cardinality(Up)
  BY DEF Position
<1> HIDE DEF Up
<1> QED BY <1>4, <1>5

-----------------------------------------------------------------------------
(* The answers stay right *)

LEMMA Counts ==
    ASSUME SeenInv
    PROVE  /\ \A a : Cardinality(History(a)) \in Nat
           /\ \A a, y : Position(a, y) \in Nat
<1>1. \A a : History(a) \in SUBSET Range(seen)
  BY DEF History
<1>2. \A a : IsFiniteSet(History(a))
  BY <1>1, FS_Subset DEF SeenInv
<1>3. ASSUME NEW a, NEW y PROVE Position(a, y) \in Nat
  <2> DEFINE Up == {z \in History(a) :
                       \E i, k \in DOMAIN seen : i <= k /\ seen[i] = z /\ seen[k] = y}
  <2>1. Up \in SUBSET History(a)
    OBVIOUS
  <2>2. Cardinality(Up) \in Nat
    BY <1>2, <2>1, FS_Subset, FS_CardinalityType
  <2> QED BY <2>2 DEF Position
<1> QED BY <1>2, <1>3, FS_CardinalityType

LEMMA SameSeen ==
    ASSUME SeenInv, seen' = seen, dropped' = dropped
    PROVE  Grown
<1>1. \A a : History(a)' = History(a)
  BY DEF History
<1>2. \A a, y : Position(a, y)' = Position(a, y)
  BY <1>1 DEF Position
<1>3. Range(seen) \subseteq Spenders /\ dropped \subseteq Spenders
  BY DEF Range, SeenInv
<1> QED BY <1>1, <1>2, <1>3, Counts DEF Grown, Known

\* What was right about g stays right, when histories grow and requests fail.
LEMMA Kept ==
    ASSUME Grown, NEW g \in Groups, early'[g] \subseteq early[g],
           NEW f \in Nat, NEW f2 \in Nat, f <= f2
    PROVE  /\ \A v, st : StatusOK(g, v, st, f) => StatusOK(g, v, st, f2)'
           /\ \A said : AnswersOK(g, said, f) => AnswersOK(g, said, f2)'
           /\ \A j : JobOK(g, j, f) => JobOK(g, j, f2)'
<1>1. PageSize * MaxAddressPages \in Nat /\ PageSize \in Nat
  BY SourceAssumption
<1>2. \A v : Excused(g, v, f) => Excused(g, v, f2)'
  <2>1. \A a : /\ Cardinality(History(a)) \in Nat /\ Cardinality(History(a))' \in Nat
               /\ Thinned(a)' \/ Cardinality(History(a)) <= Cardinality(History(a))'
    BY DEF Grown
  <2>2. \A a : Thinned(a) => Thinned(a)'
    BY DEF Grown, Thinned
  <2> QED BY <1>1, <2>1, <2>2 DEF Excused
<1>3. \A v : EarlySpent(g, v)' => EarlySpent(g, v)
  BY DEF EarlySpent
<1>4. ASSUME NEW v, NEW st, StatusOK(g, v, st, f) PROVE StatusOK(g, v, st, f2)'
  BY <1>2, <1>3, <1>4 DEF StatusOK, Grown
<1>5. ASSUME NEW said, AnswersOK(g, said, f) PROVE AnswersOK(g, said, f2)'
  BY <1>4, <1>5 DEF AnswersOK
<1>6. ASSUME NEW v \in Outs[g], NEW walk, NEW page \in Nat, Ahead(g, v, walk, page)
      PROVE  Excused(g, v, f2)' \/ Ahead(g, v, walk, page)'
  <2> SUFFICES ASSUME ~ Excused(g, v, f2)' PROVE Ahead(g, v, walk, page)'
    OBVIOUS
  <2>1. PICK x \in Range(seen) :
            /\ SpentOutput[x] = <<g, v>>
            /\ OwnerOf[g][v] = Least(walk) => Position(OwnerOf[g][v], x) > (page - 1) * PageSize
    BY <1>6 DEF Ahead
  <2>2. OwnerOf[g][v] # NoAddress /\ ~ Thinned(OwnerOf[g][v])'
    BY DEF Excused
  <2>3. x \in Spenders /\ OwnerOf[g][v] \in Touched[x]
    BY <2>1, <2>2, SourceAssumption DEF Grown
  <2>4. /\ Position(OwnerOf[g][v], x) \in Nat /\ Position(OwnerOf[g][v], x)' \in Nat
        /\ Position(OwnerOf[g][v], x) <= Position(OwnerOf[g][v], x)'
    BY <2>2, <2>3 DEF Grown
  <2>5. (page - 1) * PageSize \in Int
    BY <1>1
  <2>6. OwnerOf[g][v] = Least(walk) => Position(OwnerOf[g][v], x)' > (page - 1) * PageSize
    BY <2>1, <2>4, <2>5
  <2>7. x \in Range(seen)'
    BY <2>2, <2>3 DEF Grown, Thinned
  <2>8. OwnerOf[g][v] \in walk
    BY <1>6 DEF Ahead
  <2> QED BY <2>1, <2>6, <2>7, <2>8 DEF Ahead
<1>7. ASSUME NEW j, JobOK(g, j, f) PROVE JobOK(g, j, f2)'
  <2>1. FoundOK(j.found)'
    BY <1>7 DEF JobOK, FoundOK, Grown
  <2>2. FlagsOK(g, j.scope, j.spent) => FlagsOK(g, j.scope, j.spent)'
    BY <1>3 DEF FlagsOK
  <2>3. ASSUME NEW v \in j.spent, j.step = "page"
        PROVE  (Found(g, v, j.found) \/ Excused(g, v, f2) \/ Ahead(g, v, j.walk, j.page))'
    <3>1. Found(g, v, j.found) \/ Excused(g, v, f) \/ Ahead(g, v, j.walk, j.page)
      BY <1>7, <2>3 DEF JobOK
    <3>2. j.page \in Nat /\ v \in Outs[g]
      BY <1>7, <2>3 DEF JobOK
    <3>3. Found(g, v, j.found) => Found(g, v, j.found)'
      BY DEF Found
    <3> QED BY <1>2, <1>6, <3>1, <3>2, <3>3
  <2> QED BY <1>7, <2>1, <2>2, <2>3 DEF JobOK, NoJob, NewJob
<1> QED BY <1>4, <1>5, <1>7

LEMMA AskBroadcast ==
    ASSUME AskInv, NEW x \in Spenders, Broadcast(x)
    PROVE  AskInv'
<1>1. /\ seen' = <<x>> \o seen /\ mined' = mined /\ backend' = backend /\ faults' = faults
      /\ job' = job /\ answers' = answers /\ early' = early /\ pc' = pc /\ dropped' = dropped
  BY DEF Broadcast
<1>2. SeenInv
  BY DEF AskInv
<1>3. /\ seen' \in Seq(Spenders) /\ Range(seen)' = Range(seen) \cup {x}
      /\ IsFiniteSet(Range(seen)') /\ Grown
  BY <1>1, <1>2, SeenGrows
<1>4. SeenInv'
  BY <1>1, <1>2, <1>3 DEF SeenInv
<1>5. ASSUME NEW g \in Groups PROVE TaskInv(g)'
  <2>1. faults \in Nat /\ faults <= faults
    BY <1>2, SourceAssumption DEF SeenInv
  <2>2. PICK f \in Nat : f = faults
    BY <2>1
  <2>3. PICK j : j = job[g]
    OBVIOUS
  <2>4. PICK said : said = answers[g]
    OBVIOUS
  <2>5. TaskInv(g)
    BY DEF AskInv
  <2>6. AnswersOK(g, said, f) /\ JobOK(g, j, f)
    BY <2>2, <2>3, <2>4, <2>5 DEF TaskInv
  <2>7. AnswersOK(g, said, f)' /\ JobOK(g, j, f)'
    <3>1. early'[g] \subseteq early[g] /\ Grown /\ f <= f
      BY <1>1, <1>3
    <3>2. /\ \A c : AnswersOK(g, c, f) => AnswersOK(g, c, f)'
          /\ \A c : JobOK(g, c, f) => JobOK(g, c, f)'
      BY <3>1, Kept
    <3> QED BY <2>6, <3>2
  <2>8. AnswersOK(g, answers[g], faults)' /\ JobOK(g, job[g], faults)'
    BY <1>1, <2>2, <2>3, <2>4, <2>7
  <2> QED BY <1>1, <1>3, <2>5, <2>8 DEF TaskInv
<1> QED BY <1>4, <1>5 DEF AskInv

\* Dropping the transaction at place n leaves the others in their order.
LEMMA SeenThinned ==
    ASSUME SeenInv, NEW n \in DOMAIN seen, seen' = RemoveAt(seen, n),
           dropped' = dropped \cup {seen[n]}
    PROVE  /\ seen' \in Seq(Spenders) /\ IsFiniteSet(Range(seen)')
           /\ Range(seen) \ {seen[n]} \subseteq Range(seen)'
           /\ Range(seen)' \subseteq Range(seen)
           /\ dropped' \subseteq Spenders
           /\ Grown
<1> DEFINE At(i) == IF i < n THEN i ELSE i + 1
           To(i) == IF i < n THEN i ELSE i - 1
<1>1. seen \in Seq(Spenders) /\ Len(seen) \in Nat /\ DOMAIN seen = 1 .. Len(seen)
      /\ n \in 1 .. Len(seen)
  BY DEF SeenInv
<1>2. /\ seen' \in Seq(Spenders) /\ Len(seen') = Len(seen) - 1
      /\ \A i \in 1 .. Len(seen) - 1 : seen'[i] = seen[At(i)]
  <2>1. /\ SubSeq(seen, 1, n - 1) \in Seq(Spenders) /\ Len(SubSeq(seen, 1, n - 1)) = n - 1
        /\ \A i \in 1 .. n - 1 : SubSeq(seen, 1, n - 1)[i] = seen[i]
    BY <1>1
  <2>2. /\ SubSeq(seen, n + 1, Len(seen)) \in Seq(Spenders)
        /\ Len(SubSeq(seen, n + 1, Len(seen))) = Len(seen) - n
        /\ \A i \in 1 .. Len(seen) - n : SubSeq(seen, n + 1, Len(seen))[i] = seen[n + i]
    BY <1>1
  <2>3. seen' = SubSeq(seen, 1, n - 1) \o SubSeq(seen, n + 1, Len(seen))
    BY DEF RemoveAt
  <2>4. PICK s1 : s1 = SubSeq(seen, 1, n - 1)
    OBVIOUS
  <2>5. PICK s2 : s2 = SubSeq(seen, n + 1, Len(seen))
    OBVIOUS
  <2>6. /\ s1 \in Seq(Spenders) /\ Len(s1) = n - 1 /\ \A i \in 1 .. n - 1 : s1[i] = seen[i]
        /\ s2 \in Seq(Spenders) /\ Len(s2) = Len(seen) - n
        /\ \A i \in 1 .. Len(seen) - n : s2[i] = seen[n + i]
    BY <2>1, <2>2, <2>4, <2>5
  <2>7. /\ seen' \in Seq(Spenders) /\ Len(seen') = Len(s1) + Len(s2)
        /\ \A i \in 1 .. Len(s1) + Len(s2) :
              seen'[i] = IF i <= Len(s1) THEN s1[i] ELSE s2[i - Len(s1)]
    <3>1. s1 \in Seq(Spenders) /\ s2 \in Seq(Spenders) /\ seen' = s1 \o s2
      BY <2>3, <2>4, <2>5, <2>6
    <3> QED BY <3>1
  <2>8. Len(seen') = Len(seen) - 1
    BY <1>1, <2>6, <2>7
  <2>9. ASSUME NEW i \in 1 .. Len(seen) - 1 PROVE seen'[i] = seen[At(i)]
    <3>1. i \in Int /\ n \in Int /\ Len(seen) \in Int /\ 1 <= i /\ i <= Len(seen) - 1
          /\ i \in 1 .. Len(s1) + Len(s2)
      BY <1>1, <2>6
    <3>2. CASE i < n
      <4>1. i \in 1 .. n - 1 /\ i <= Len(s1)
        BY <1>1, <2>6, <3>1, <3>2
      <4> QED BY <2>6, <2>7, <3>1, <3>2, <4>1
    <3>3. CASE ~ (i < n)
      <4>1. ~ (i <= Len(s1)) /\ i - Len(s1) = i - n + 1 /\ i - n + 1 \in 1 .. Len(seen) - n
            /\ n + (i - n + 1) = i + 1
        <5>1. Len(s1) = n - 1
          BY <2>6
        <5> QED BY <3>1, <3>3, <5>1
      <4>2. seen'[i] = s2[i - n + 1]
        BY <2>7, <3>1, <4>1
      <4>3. s2[i - n + 1] = seen[n + (i - n + 1)]
        BY <2>6, <4>1
      <4> QED BY <3>3, <4>1, <4>2, <4>3
    <3> QED BY <3>2, <3>3
  <2> QED BY <2>7, <2>8, <2>9
<1>3. DOMAIN seen' = 1 .. Len(seen) - 1
  BY <1>1, <1>2
<1>4. \A i \in 1 .. Len(seen) : i # n => To(i) \in 1 .. Len(seen) - 1 /\ seen'[To(i)] = seen[i]
  BY <1>1, <1>2
<1>5. \A i, k \in 1 .. Len(seen) : i # n /\ k # n /\ i <= k => To(i) <= To(k)
  BY <1>1
<1>6. Range(seen) = {seen[i] : i \in 1 .. Len(seen)}
      /\ Range(seen)' = {seen'[i] : i \in 1 .. Len(seen) - 1}
  BY <1>1, <1>3 DEF Range
<1>7. \A i \in 1 .. Len(seen) - 1 : At(i) \in 1 .. Len(seen)
  BY <1>1
<1>8. Range(seen)' \subseteq Range(seen)
  BY <1>2, <1>6, <1>7
<1> HIDE DEF At, To
<1>9. Range(seen) \ {seen[n]} \subseteq Range(seen)'
  BY <1>4, <1>6
<1>10. IsFiniteSet(Range(seen)')
  BY <1>8, FS_Subset DEF SeenInv
<1>11. seen[n] \in Spenders /\ Range(seen) \subseteq Spenders /\ dropped' \subseteq Spenders
  BY <1>1, <1>6 DEF SeenInv
<1>12. ASSUME NEW a PROVE IsFiniteSet(History(a)) /\ IsFiniteSet(History(a)')
  <2>1. History(a) \in SUBSET Range(seen) /\ History(a)' \in SUBSET Range(seen)'
    BY DEF History
  <2> QED BY <1>10, <2>1, FS_Subset DEF SeenInv
<1>13. ASSUME NEW a, ~ Thinned(a)' PROVE History(a) \subseteq History(a)' /\ a \notin Touched[seen[n]]
  BY <1>9, <1>13 DEF History, Thinned
<1>14. ASSUME NEW a
       PROVE  /\ Cardinality(History(a)) \in Nat /\ Cardinality(History(a))' \in Nat
              /\ Thinned(a)' \/ Cardinality(History(a)) <= Cardinality(History(a))'
  <2>1. CASE Thinned(a)'
    BY <1>12, <2>1, FS_CardinalityType
  <2>2. CASE ~ Thinned(a)'
    <3>1. History(a) \in SUBSET History(a)'
      BY <1>13, <2>2
    <3> QED BY <1>12, <3>1, FS_Subset, FS_CardinalityType
  <2> QED BY <2>1, <2>2
<1>15. ASSUME NEW a, NEW y
       PROVE  /\ Position(a, y) \in Nat /\ Position(a, y)' \in Nat
              /\ a \in Touched[y] => Thinned(a)' \/ Position(a, y) <= Position(a, y)'
  <2> DEFINE Up == {z \in History(a) :
                       \E i, k \in DOMAIN seen : i <= k /\ seen[i] = z /\ seen[k] = y}
  <2>1. Up \in SUBSET History(a) /\ Up' \in SUBSET History(a)'
    OBVIOUS
  <2>2. IsFiniteSet(Up) /\ IsFiniteSet(Up')
    BY <1>12, <2>1, FS_Subset
  <2>3. Cardinality(Up) \in Nat /\ Cardinality(Up') \in Nat
    BY <2>2, FS_CardinalityType
  <2>4. ASSUME a \in Touched[y], ~ Thinned(a)', NEW z \in Up PROVE z \in Up'
    <3>1. PICK i \in DOMAIN seen : \E k \in DOMAIN seen : i <= k /\ seen[i] = z /\ seen[k] = y
      OBVIOUS
    <3>2. PICK k \in DOMAIN seen : i <= k /\ seen[i] = z /\ seen[k] = y
      BY <3>1
    <3>3. z \in History(a) /\ z \in History(a)'
      BY <1>13, <2>4
    <3>4. i # n /\ k # n
      BY <1>13, <2>4, <3>2, <3>3 DEF History
    <3>5. /\ To(i) \in DOMAIN seen' /\ To(k) \in DOMAIN seen' /\ To(i) <= To(k)
          /\ seen'[To(i)] = z /\ seen'[To(k)] = y
      <4> HIDE DEF Up
      <4> QED BY <1>1, <1>3, <1>4, <1>5, <3>2, <3>4
    <3> QED BY <3>3, <3>5
  <2>5. a \in Touched[y] /\ ~ Thinned(a)' => Cardinality(Up) <= Cardinality(Up')
    <3>1. a \in Touched[y] /\ ~ Thinned(a)' => Up \in SUBSET Up'
      BY <2>4
    <3> QED BY <2>2, <3>1, FS_Subset
  <2> QED BY <2>3, <2>5 DEF Position
<1> QED BY <1>2, <1>8, <1>9, <1>10, <1>11, <1>14, <1>15 DEF Grown, Known

LEMMA AskDrop ==
    ASSUME AskInv, NEW n \in DOMAIN seen, Drop(n)
    PROVE  AskInv'
<1>1. /\ seen' = RemoveAt(seen, n) /\ dropped' = dropped \cup {seen[n]} /\ seen[n] \notin mined
      /\ mined' = mined /\ backend' = backend /\ faults' = faults /\ job' = job
      /\ answers' = answers /\ early' = [g \in Groups |-> early[g] \ {seen[n]}] /\ pc' = pc
  BY DEF Drop
<1>2. SeenInv
  BY DEF AskInv
<1>3. /\ seen' \in Seq(Spenders) /\ IsFiniteSet(Range(seen)')
      /\ Range(seen) \ {seen[n]} \subseteq Range(seen)' /\ dropped' \subseteq Spenders /\ Grown
  BY <1>1, <1>2, SeenThinned
<1>4. SeenInv'
  BY <1>1, <1>2, <1>3 DEF SeenInv
<1>5. ASSUME NEW g \in Groups PROVE TaskInv(g)'
  <2>1. TaskInv(g)
    BY DEF AskInv
  <2>2. PICK f \in Nat : f = faults
    BY <1>2, SourceAssumption DEF SeenInv
  <2>3. PICK j : j = job[g]
    OBVIOUS
  <2>4. PICK said : said = answers[g]
    OBVIOUS
  <2>5. early'[g] = early[g] \ {seen[n]} /\ early'[g] \subseteq early[g] /\ f <= f
    BY <1>1
  <2>6. /\ \A c : AnswersOK(g, c, f) => AnswersOK(g, c, f)'
        /\ \A c : JobOK(g, c, f) => JobOK(g, c, f)'
    BY <1>3, <2>5, Kept
  <2>7. AnswersOK(g, said, f)' /\ JobOK(g, j, f)'
    BY <2>1, <2>2, <2>3, <2>4, <2>6 DEF TaskInv
  <2>8. AnswersOK(g, answers[g], faults)' /\ JobOK(g, job[g], faults)'
    BY <1>1, <2>2, <2>3, <2>4, <2>7
  <2>9. early'[g] \subseteq Range(seen)'
    BY <1>3, <2>1, <2>5 DEF TaskInv
  <2> QED BY <1>1, <2>1, <2>8, <2>9 DEF TaskInv
<1> QED BY <1>4, <1>5 DEF AskInv

\* Steps of the throttle, the clock and the miners.
LEMMA AskIdle ==
    ASSUME AskInv, UNCHANGED <<seen, dropped, backend, faults, job, answers, early>>,
           mined' \subseteq Range(seen),
           \A g \in Groups : pc'[g] = "queued" => pc[g] = "queued"
    PROVE  AskInv'
<1>1. SeenInv'
  BY DEF AskInv, SeenInv
<1>2. ASSUME NEW g \in Groups PROVE TaskInv(g)'
  <2>1. /\ \A v : EarlySpent(g, v)' = EarlySpent(g, v)
        /\ \A a : History(a)' = History(a) /\ Thinned(a)' = Thinned(a)
        /\ Known' = Known
    BY DEF EarlySpent, History, Thinned, Known
  <2>2. \A a, y : Position(a, y)' = Position(a, y)
    BY <2>1 DEF Position
  <2>3. TaskInv(g)
    BY DEF AskInv
  <2>4. AnswersOK(g, answers[g], faults)'
    BY <2>1, <2>3 DEF TaskInv, AnswersOK, StatusOK, Excused
  <2>5. JobOK(g, job[g], faults)'
    BY <2>1, <2>2, <2>3
       DEF TaskInv, JobOK, FoundOK, FlagsOK, Found, Excused, Ahead, NoJob, NewJob
  <2> QED BY <2>3, <2>4, <2>5 DEF TaskInv
<1> QED BY <1>1, <1>2 DEF AskInv

LEMMA NewJobOK ==
    ASSUME NEW g, NEW S, S \subseteq Vouts[g], NEW f
    PROVE  JobOK(g, NewJob(S), f)
<1>1. DOMAIN <<>> = {}
  OBVIOUS
<1>2. /\ NewJob(S).scope = S /\ NewJob(S).step = "tx" /\ NewJob(S).found = <<>>
      /\ NewJob(S).page = 1
      /\ DOMAIN NewJob(S) = DOMAIN NoJob
  BY DEF NewJob, NoJob
<1>3. FoundOK(<<>>)
  BY <1>1 DEF FoundOK
<1> QED BY <1>2, <1>3 DEF JobOK

LEMMA AskStart ==
    ASSUME AskInv, TypeInv, NEW g \in Groups, StartGroup(g)
    PROVE  AskInv'
<1>1. /\ seen' = seen /\ dropped' = dropped /\ mined' = mined
      /\ backend' = backend /\ faults' = faults
      /\ job' = [job EXCEPT ![g] = NewJob(Vouts[g])] /\ answers' = answers
      /\ early' = [early EXCEPT ![g] = Range(seen)]
      /\ pc' = [pc EXCEPT ![g] = "permit"] /\ pc[g] = "queued"
  BY DEF StartGroup, chainVars
<1>2. SeenInv
  BY DEF AskInv
<1>3. SeenInv'
  BY <1>1, <1>2 DEF SeenInv
<1>4. Grown
  BY <1>1, <1>2, SameSeen
<1>5. PICK f \in Nat : f = faults
  BY <1>2, SourceAssumption DEF SeenInv
<1>6. ASSUME NEW k \in Groups, k # g PROVE TaskInv(k)'
  <2>1. TaskInv(k)
    BY DEF AskInv
  <2>2. job'[k] = job[k] /\ early'[k] = early[k] /\ pc'[k] = pc[k]
    BY <1>1, <1>2, <1>6 DEF SeenInv, TypeInv
  <2>3. PICK j : j = job[k]
    OBVIOUS
  <2>4. PICK said : said = answers[k]
    OBVIOUS
  <2>5. f <= f
    OBVIOUS
  <2>6. /\ \A c : AnswersOK(k, c, f) => AnswersOK(k, c, f)'
        /\ \A c : JobOK(k, c, f) => JobOK(k, c, f)'
    BY <1>4, <2>2, <2>5, Kept
  <2>7. AnswersOK(k, said, f)' /\ JobOK(k, j, f)'
    BY <1>5, <2>1, <2>3, <2>4, <2>6 DEF TaskInv
  <2>8. AnswersOK(k, answers[k], faults)' /\ JobOK(k, job[k], faults)'
    BY <1>1, <1>5, <2>2, <2>3, <2>4, <2>7
  <2> QED BY <1>1, <2>1, <2>2, <2>8 DEF TaskInv
<1>7. TaskInv(g)'
  <2>1. TaskInv(g) /\ DOMAIN answers[g] = {}
    BY <1>1 DEF AskInv, TaskInv
  <2>2. /\ early'[g] = Range(seen) /\ job'[g] = NewJob(Vouts[g]) /\ pc'[g] = "permit"
    BY <1>1, <1>2 DEF SeenInv, TypeInv
  <2>3. AnswersOK(g, answers[g], faults)'
    BY <1>1, <2>1 DEF TaskInv, AnswersOK
  <2>4. JobOK(g, job[g], faults)'
    <3>1. DOMAIN <<>> = {}
      OBVIOUS
    <3>2. /\ job'[g].scope = Vouts[g] /\ job'[g].step = "tx" /\ job'[g].found = <<>>
          /\ job'[g].page = 1
          /\ DOMAIN job'[g] = DOMAIN NoJob
      BY <2>2 DEF NewJob, NoJob
    <3> QED BY <3>1, <3>2 DEF JobOK, FoundOK, NoJob, NewJob
  <2> QED BY <1>1, <2>2, <2>3, <2>4 DEF TaskInv
<1> QED BY <1>3, <1>6, <1>7 DEF AskInv

\* The end of a request that answered `told` and goes on with j.
LEMMA AskProceed ==
    ASSUME AskInv, TypeInv, NEW g \in Groups, NEW j, NEW told,
           Proceed(g, j, told), faults' \in 0 .. MaxFaults, faults <= faults',
           AnswersOK(g, told, faults'), JobOK(g, j, faults')
    PROVE  AskInv'
<1> DEFINE left == Vouts[g] \ DOMAIN told
           nj == IF j.scope # {} THEN j ELSE NewJob(IF left = {} THEN {} ELSE {Least(left)})
<1>1. /\ seen' = seen /\ dropped' = dropped /\ mined' = mined
      /\ backend' = backend /\ early' = early
      /\ job' = [job EXCEPT ![g] = nj] /\ answers' = [answers EXCEPT ![g] = told]
  BY DEF Proceed, chainVars
<1>2. pc' = [pc EXCEPT ![g] = IF left = {} THEN "done" ELSE "permit"]
  BY DEF Proceed
<1>3. SeenInv
  BY DEF AskInv
<1>4. SeenInv'
  BY <1>1, <1>3 DEF SeenInv
<1>5. Grown
  BY <1>1, <1>3, SameSeen
<1>6. PICK f \in Nat : f = faults
  BY <1>3, SourceAssumption DEF SeenInv
<1>7. PICK f2 \in Nat : f2 = faults'
  BY SourceAssumption
<1>8. JobOK(g, nj, faults')
  <2>1. CASE j.scope # {}
    BY <2>1
  <2>2. CASE j.scope = {}
    <3>1. left \in SUBSET Nat
      BY SourceAssumption
    <3>2. (IF left = {} THEN {} ELSE {Least(left)}) \subseteq Vouts[g]
      BY <3>1, LeastIn
    <3> QED BY <2>2, <3>2, NewJobOK
  <2> QED BY <2>1, <2>2
<1> HIDE DEF left, nj
<1>9. ASSUME NEW k \in Groups, k # g PROVE TaskInv(k)'
  <2>1. TaskInv(k)
    BY DEF AskInv
  <2>2. job'[k] = job[k] /\ early'[k] = early[k] /\ pc'[k] = pc[k] /\ answers'[k] = answers[k]
    BY <1>1, <1>2, <1>3, <1>9 DEF SeenInv, TypeInv
  <2>3. PICK i : i = job[k]
    OBVIOUS
  <2>4. PICK said : said = answers[k]
    OBVIOUS
  <2>5. f <= f2
    BY <1>6, <1>7
  <2>6. /\ \A c : AnswersOK(k, c, f) => AnswersOK(k, c, f2)'
        /\ \A c : JobOK(k, c, f) => JobOK(k, c, f2)'
    BY <1>5, <2>2, <2>5, Kept
  <2>7. AnswersOK(k, said, f2)' /\ JobOK(k, i, f2)'
    BY <1>6, <2>1, <2>3, <2>4, <2>6 DEF TaskInv
  <2>8. AnswersOK(k, answers[k], faults)' /\ JobOK(k, job[k], faults)'
    BY <1>7, <2>2, <2>3, <2>4, <2>7
  <2> QED BY <1>1, <2>1, <2>2, <2>8 DEF TaskInv
<1>10. TaskInv(g)'
  <2>1. TaskInv(g)
    BY DEF AskInv
  <2>2. job'[g] = nj /\ early'[g] = early[g] /\ pc'[g] # "queued" /\ answers'[g] = told
    BY <1>1, <1>2, <1>3 DEF SeenInv, TypeInv
  <2>3. PICK i : i = nj
    OBVIOUS
  <2>4. f2 <= f2
    OBVIOUS
  <2>5. /\ \A c : AnswersOK(g, c, f2) => AnswersOK(g, c, f2)'
        /\ \A c : JobOK(g, c, f2) => JobOK(g, c, f2)'
    BY <1>5, <2>2, <2>4, Kept
  <2>6. AnswersOK(g, told, f2)' /\ JobOK(g, i, f2)'
    BY <1>7, <1>8, <2>3, <2>5
  <2>7. AnswersOK(g, answers[g], faults)' /\ JobOK(g, job[g], faults)'
    BY <1>7, <2>2, <2>3, <2>6
  <2> QED BY <1>1, <2>1, <2>2, <2>7 DEF TaskInv
<1> QED BY <1>4, <1>9, <1>10 DEF AskInv

-----------------------------------------------------------------------------
(* What a request answers *)

\* A failure excuses more.
LEMMA Later ==
    ASSUME NEW g, NEW f \in Nat, NEW f2 \in Nat, f <= f2
    PROVE  /\ \A v : Excused(g, v, f) => Excused(g, v, f2)
           /\ \A said : AnswersOK(g, said, f) => AnswersOK(g, said, f2)
<1>1. \A v : Excused(g, v, f) => Excused(g, v, f2)
  BY DEF Excused
<1>2. \A v, st : StatusOK(g, v, st, f) => StatusOK(g, v, st, f2)
  BY <1>1 DEF StatusOK
<1> QED BY <1>1, <1>2 DEF AnswersOK

\* Answers are added for the outputs of a scope.
LEMMA TellOK ==
    ASSUME NEW g, NEW f, NEW scope, scope \subseteq Vouts[g], NEW said,
           DOMAIN said = scope, said = [v \in scope |-> said[v]],
           \A v \in scope : StatusOK(g, v, said[v], f),
           AnswersOK(g, answers[g], f)
    PROVE  AnswersOK(g, Tell(g, said), f)
<1> DEFINE old == answers[g]
           told == [k \in DOMAIN said \cup DOMAIN old |->
                       IF k \in DOMAIN said THEN said[k] ELSE old[k]]
<1>1. Tell(g, said) = told
  BY DEF Tell, Merge
<1>2. \A v \in DOMAIN old : v \in Vouts[g] /\ StatusOK(g, v, old[v], f)
  BY DEF AnswersOK
<1>3. ASSUME NEW v \in DOMAIN told PROVE v \in Vouts[g] /\ StatusOK(g, v, told[v], f)
  <2>1. CASE v \in DOMAIN said
    BY <2>1
  <2>2. CASE v \notin DOMAIN said
    <3>1. told[v] = old[v] /\ v \in DOMAIN old
      BY <2>2
    <3> QED BY <1>2, <3>1
  <2> QED BY <2>1, <2>2
<1>4. told = [v \in DOMAIN told |-> told[v]]
  OBVIOUS
<1> HIDE DEF told
<1> QED BY <1>1, <1>3, <1>4 DEF AnswersOK

\* Esplora's answer is what the source has seen.
LEMMA EsploraOK ==
    ASSUME SeenInv, NEW g \in Groups, early[g] \subseteq Range(seen), NEW v, NEW f
    PROVE  StatusOK(g, v, EsploraStatus(g, v), f)
<1>1. Range(seen) \subseteq Spenders
  BY DEF SeenInv, Range
<1>2. CASE v \notin Outs[g]
  <2>1. EsploraStatus(g, v) = Unknown
    BY <1>2 DEF EsploraStatus
  <2> QED BY <1>2, <2>1 DEF StatusOK, Unknown, Statuses
<1>3. CASE v \in Outs[g] /\ SeenSpenders(g, v) = {}
  <2>1. EsploraStatus(g, v) = Unspent
    BY <1>3 DEF EsploraStatus
  <2>2. ~ EarlySpent(g, v)
    BY <1>3 DEF EarlySpent, SeenSpenders
  <2> QED BY <2>1, <2>2 DEF StatusOK, Unspent, Statuses
<1>4. CASE v \in Outs[g] /\ SeenSpenders(g, v) # {}
  <2>1. PICK x \in SeenSpenders(g, v) : EsploraStatus(g, v) = Spent(Depth(x), x)
    BY <1>4 DEF EsploraStatus
  <2>2. x \in Range(seen) /\ SpentOutput[x] = <<g, v>> /\ x \in Spenders
    BY <1>1, <2>1 DEF SeenSpenders
  <2>3. Depth(x) \in Depths
    BY DEF Depth, Depths
  <2>4. /\ Spent(Depth(x), x).status = Depth(x) /\ Spent(Depth(x), x).spender = {x}
        /\ Spent(Depth(x), x) \in Statuses
    BY <2>2, <2>3 DEF Spent, Statuses, Depths
  <2>5. x \in Known
    BY <2>2 DEF Known
  <2> QED BY <2>1, <2>2, <2>3, <2>4, <2>5 DEF StatusOK, Depths
<1> QED BY <1>2, <1>3, <1>4

\* Blockbook's answer is what the flags and the walks say.
LEMMA BlockbookOK ==
    ASSUME SeenInv, NEW g \in Groups, early[g] \subseteq Range(seen), NEW f,
           NEW scope, NEW spent, NEW found, NEW v \in scope,
           FoundOK(found), FlagsOK(g, scope, spent),
           \A u \in spent : Found(g, u, found) \/ Excused(g, u, f)
    PROVE  StatusOK(g, v, StatusOf(g, spent, found, v), f)
<1> DEFINE by == {x \in DOMAIN found : SpentOutput[x] = <<g, v>>}
           st == StatusOf(g, spent, found, v)
<1>1. Known \subseteq Spenders
  BY DEF SeenInv, Range, Known
<1>2. CASE v \in spent /\ by = {}
  <2>1. st = Unknown /\ Excused(g, v, f)
    BY <1>2 DEF StatusOf, Found
  <2> HIDE DEF st
  <2> QED BY <2>1 DEF StatusOK, Unknown, Statuses, st
<1>3. CASE v \in spent /\ by # {}
  <2>1. PICK x \in by : st = Spent(found[x], x)
    BY <1>3 DEF StatusOf
  <2>2. x \in Known /\ SpentOutput[x] = <<g, v>> /\ x \in Spenders /\ found[x] \in Depths
    BY <1>1, <2>1 DEF FoundOK
  <2>3. /\ Spent(found[x], x).status = found[x] /\ Spent(found[x], x).spender = {x}
        /\ Spent(found[x], x) \in Statuses
    BY <2>2 DEF Spent, Statuses, Depths
  <2> HIDE DEF st, by
  <2> QED BY <2>1, <2>2, <2>3 DEF StatusOK, Depths, st
<1>4. CASE v \notin spent /\ v \in Outs[g]
  <2>1. st = Unspent
    BY <1>4 DEF StatusOf
  <2>2. ~ EarlySpent(g, v)
    BY <1>4 DEF FlagsOK
  <2> HIDE DEF st
  <2> QED BY <2>1, <2>2 DEF StatusOK, Unspent, Statuses, st
<1>5. CASE v \notin spent /\ v \notin Outs[g]
  <2>1. st = Unknown
    BY <1>5 DEF StatusOf
  <2> HIDE DEF st
  <2> QED BY <1>5, <2>1 DEF StatusOK, Unknown, Statuses, st
<1> QED BY <1>2, <1>3, <1>4, <1>5

-----------------------------------------------------------------------------
(* The walk through a history *)

\* The spender of a flagged output is in its owner's history, from place one.
LEMMA SpenderListed ==
    ASSUME SeenInv, NEW g \in Groups, NEW v \in Outs[g], NEW x \in Range(seen),
           SpentOutput[x] = <<g, v>>, OwnerOf[g][v] # NoAddress
    PROVE  /\ x \in History(OwnerOf[g][v])
           /\ Position(OwnerOf[g][v], x) \in Nat /\ Position(OwnerOf[g][v], x) >= 1
<1>1. x \in Spenders
  BY DEF SeenInv, Range
<1>2. OwnerOf[g][v] \in Touched[x]
  BY <1>1, SourceAssumption
<1>3. x \in History(OwnerOf[g][v])
  BY <1>2 DEF History
<1> QED BY <1>3, PositionBounds

\* A walk starts with everything ahead of it.
LEMMA WalkStarts ==
    ASSUME SeenInv, NEW g \in Groups, NEW v \in Outs[g], NEW x \in Range(seen),
           SpentOutput[x] = <<g, v>>, NEW walk, OwnerOf[g][v] \in walk, NEW f
    PROVE  Excused(g, v, f) \/ Ahead(g, v, walk, 1)
<1>1. CASE OwnerOf[g][v] = NoAddress
  BY <1>1 DEF Excused
<1>2. CASE OwnerOf[g][v] # NoAddress
  <2>1. Position(OwnerOf[g][v], x) \in Nat /\ Position(OwnerOf[g][v], x) >= 1
    BY <1>2, SpenderListed
  <2>2. (1 - 1) * PageSize = 0
    BY SourceAssumption
  <2>3. Position(OwnerOf[g][v], x) > (1 - 1) * PageSize
    BY <2>1, <2>2
  <2> QED BY <2>3 DEF Ahead
<1> QED BY <1>1, <1>2

\* The walk of address a is over, with `found`.
LEMMA AskEndWalk ==
    ASSUME AskInv, TypeInv, NEW g \in Groups, NEW a, NEW found, EndWalk(g, a, found),
           job[g].step = "page", faults' \in 0 .. MaxFaults, faults <= faults', FoundOK(found),
           \A v \in job[g].spent :
               \/ Found(g, v, found) \/ Excused(g, v, faults')
               \/ /\ OwnerOf[g][v] \in job[g].walk \ {a}
                  /\ \E x \in Range(seen) : SpentOutput[x] = <<g, v>>
    PROVE  AskInv'
<1> DEFINE j == job[g]
           walk == j.walk \ {a}
<1>1. SeenInv /\ TaskInv(g) /\ JobOK(g, j, faults) /\ AnswersOK(g, answers[g], faults)
  BY DEF AskInv, TaskInv
<1>2. /\ j.scope \subseteq Vouts[g] /\ FlagsOK(g, j.scope, j.spent) /\ j.spent \subseteq Outs[g]
      /\ j.walk \subseteq Addresses /\ early[g] \subseteq Range(seen) /\ DOMAIN j = DOMAIN NoJob
  BY <1>1 DEF JobOK, TaskInv
<1>3. PICK f \in Nat : f = faults'
  BY SourceAssumption
<1>4. faults \in Nat
  BY <1>1, SourceAssumption DEF SeenInv
<1>5. AnswersOK(g, answers[g], f)
  BY <1>1, <1>3, <1>4, Later
<1>6. CASE walk = {}
  <2> DEFINE said == [v \in j.scope |-> StatusOf(g, j.spent, found, v)]
  <2>1. Proceed(g, NoJob, Tell(g, said))
    BY <1>6 DEF EndWalk
  <2>2. \A u \in j.spent : Found(g, u, found) \/ Excused(g, u, f)
    BY <1>3, <1>6
  <2>3. \A v \in j.scope : StatusOK(g, v, said[v], f)
    <3> SUFFICES ASSUME NEW v \in j.scope
                 PROVE  StatusOK(g, v, StatusOf(g, j.spent, found, v), f)
      OBVIOUS
    <3>1. PICK scope : scope = j.scope
      OBVIOUS
    <3>2. PICK spent : spent = j.spent
      OBVIOUS
    <3>3. /\ v \in scope /\ FlagsOK(g, scope, spent)
          /\ \A u \in spent : Found(g, u, found) \/ Excused(g, u, f)
      BY <1>2, <2>2, <3>1, <3>2
    <3>4. StatusOK(g, v, StatusOf(g, spent, found, v), f)
      BY <1>1, <1>2, <3>3, BlockbookOK
    <3> QED BY <3>2, <3>4
  <2>4. DOMAIN said = j.scope /\ said = [v \in j.scope |-> said[v]]
    OBVIOUS
  <2> HIDE DEF said
  <2>5. AnswersOK(g, Tell(g, said), f)
    BY <1>2, <1>5, <2>3, <2>4, TellOK
  <2>6. JobOK(g, NoJob, f)
    BY NewJobOK DEF NoJob
  <2> QED BY <1>3, <2>1, <2>5, <2>6, AskProceed
<1>7. CASE walk # {}
  <2> DEFINE nj == [j EXCEPT !.walk = walk, !.page = 1, !.found = found]
  <2>1. Proceed(g, nj, answers[g])
    BY <1>7 DEF EndWalk
  <2>2. /\ DOMAIN nj = DOMAIN NoJob /\ nj.scope = j.scope /\ nj.step = "page"
        /\ nj.spent = j.spent /\ nj.walk = walk /\ nj.page = 1 /\ nj.found = found
    BY <1>2 DEF NoJob, NewJob
  <2>3. ASSUME NEW v \in j.spent
        PROVE  Found(g, v, found) \/ Excused(g, v, f) \/ Ahead(g, v, walk, 1)
    <3>1. v \in Outs[g]
      BY <1>2
    <3> HIDE DEF walk
    <3>2. CASE OwnerOf[g][v] \in walk /\ \E x \in Range(seen) : SpentOutput[x] = <<g, v>>
      BY <1>1, <3>1, <3>2, WalkStarts
    <3> QED BY <1>3, <3>2 DEF walk
  <2>4. JobOK(g, nj, f)
    <3> HIDE DEF nj, walk
    <3>1. \A v \in nj.spent :
              Found(g, v, nj.found) \/ Excused(g, v, f) \/ Ahead(g, v, nj.walk, nj.page)
      BY <2>2, <2>3
    <3>2. FoundOK(nj.found) /\ FlagsOK(g, nj.scope, nj.spent)
      BY <1>2, <2>2
    <3>3. nj.walk \subseteq Addresses /\ nj.walk # {}
      BY <1>2, <1>7, <2>2 DEF walk
    <3>4. nj.page \in Nat \ {0} /\ nj.spent \subseteq Outs[g] /\ nj.scope \subseteq Vouts[g]
      BY <1>2, <2>2
    <3> QED BY <2>2, <3>1, <3>2, <3>3, <3>4 DEF JobOK
  <2> QED BY <1>3, <1>5, <2>1, <2>4, AskProceed
<1> QED BY <1>6, <1>7

-----------------------------------------------------------------------------
(* Pages *)

\* A position between the pages read so far and the end of page p is on page p.
LEMMA PageOfPosition ==
    ASSUME NEW n \in Nat, NEW s \in Nat, s > 0, NEW p \in Nat, p > 0,
           n > (p - 1) * s, n <= p * s
    PROVE  (n - 1) \div s = p - 1
OBVIOUS

\* All pages together hold the whole history.
LEMMA PagesHoldAll ==
    ASSUME NEW n \in Nat, NEW s \in Nat, s > 0, NEW p \in Nat, p >= (n + s - 1) \div s
    PROVE  p * s >= n
<1>1. PICK t \in Nat : t = (n + s - 1) \div s
  OBVIOUS
<1>2. (t + 1) * s > n + s - 1
  BY <1>1
<1>3. t * s >= n
  BY <1>2
<1>4. p * s >= t * s
  BY <1>1
<1> QED BY <1>3, <1>4

LEMMA TimesMonotone ==
    ASSUME NEW p \in Nat, NEW q \in Nat, p >= q, NEW s \in Nat
    PROVE  p * s >= s * q
OBVIOUS

\* Reading page p of a's history: a spender that was ahead is found, or ahead
\* of the next page.
LEMMA PageRead ==
    ASSUME SeenInv, NEW g \in Groups, NEW v \in Outs[g], NEW a, a # NoAddress,
           OwnerOf[g][v] = a, NEW x \in Range(seen), SpentOutput[x] = <<g, v>>,
           NEW p \in Nat, p > 0, Position(a, x) > (p - 1) * PageSize
    PROVE  \/ x \in {y \in OnPage(a, p) : SpentOutput[y][1] = g}
           \/ Position(a, x) > p * PageSize
<1>1. x \in History(a) /\ Position(a, x) \in Nat
  BY SpenderListed
<1>2. PageSize \in Nat /\ PageSize > 0 /\ p * PageSize \in Nat
  BY SourceAssumption
<1>3. CASE Position(a, x) <= p * PageSize
  <2>1. (Position(a, x) - 1) \div PageSize = p - 1
    BY <1>1, <1>2, <1>3, PageOfPosition
  <2>2. SpentOutput[x][1] = g
    OBVIOUS
  <2> QED BY <1>1, <2>1, <2>2 DEF OnPage
<1>4. CASE ~ (Position(a, x) <= p * PageSize)
  BY <1>1, <1>2, <1>4
<1> QED BY <1>3, <1>4

\* After the last page, what was not found lies beyond the page cap.
LEMMA BeyondCap ==
    ASSUME SeenInv, NEW g, NEW v, NEW a, OwnerOf[g][v] = a, NEW x \in History(a),
           NEW p \in Nat, p > 0, LastPage(a, p), Position(a, x) > p * PageSize, NEW f
    PROVE  Excused(g, v, f)
<1>1. /\ Position(a, x) \in Nat /\ Cardinality(History(a)) \in Nat
      /\ Position(a, x) <= Cardinality(History(a))
  BY PositionBounds
<1>2. PageSize \in Nat /\ PageSize > 0 /\ p * PageSize \in Nat /\ MaxAddressPages \in Nat
      /\ PageSize * MaxAddressPages \in Nat
  BY SourceAssumption
<1>3. CASE p >= TotalPages(a)
  <2>1. p * PageSize >= Cardinality(History(a))
    BY <1>1, <1>2, <1>3, PagesHoldAll DEF TotalPages
  <2> QED BY <1>1, <1>2, <2>1
<1>4. CASE p >= MaxAddressPages
  <2>1. p * PageSize >= PageSize * MaxAddressPages
    BY <1>2, <1>4, TimesMonotone
  <2>2. Cardinality(History(a)) > PageSize * MaxAddressPages
    BY <1>1, <1>2, <2>1
  <2> QED BY <2>2 DEF Excused
<1> QED BY <1>3, <1>4 DEF LastPage

LEMMA AskPage ==
    ASSUME AskInv, TypeInv, NEW g \in Groups, BlockbookPage(g)
    PROVE  AskInv'
<1> DEFINE j == job[g]
           a == Least(j.walk)
           p == j.page
           hits == {x \in OnPage(a, p) : SpentOutput[x][1] = g}
           found == Merge([x \in hits |-> Depth(x)], j.found)
<1>1. /\ j.step = "page" /\ faults' = faults
      /\ IF LastPage(a, p) THEN EndWalk(g, a, found)
         ELSE Proceed(g, [j EXCEPT !.page = @ + 1, !.found = found], answers[g])
  BY DEF BlockbookPage
<1>2. SeenInv /\ TaskInv(g) /\ JobOK(g, j, faults) /\ AnswersOK(g, answers[g], faults)
  BY DEF AskInv, TaskInv
<1>3. /\ j.scope \subseteq Vouts[g] /\ FlagsOK(g, j.scope, j.spent) /\ j.spent \subseteq Outs[g]
      /\ j.walk \subseteq Addresses /\ j.walk # {} /\ DOMAIN j = DOMAIN NoJob
      /\ p \in Nat /\ p > 0 /\ FoundOK(j.found)
  BY <1>1, <1>2 DEF JobOK
<1>4. faults \in 0 .. MaxFaults /\ faults \in Nat /\ faults <= faults
  BY <1>2, SourceAssumption DEF SeenInv
<1>5. /\ DOMAIN found = hits \cup DOMAIN j.found
      /\ \A x \in DOMAIN found : found[x] = IF x \in hits THEN Depth(x) ELSE j.found[x]
  BY DEF Merge
<1>6. hits \subseteq Range(seen)
  BY DEF OnPage, History
<1>7. FoundOK(found)
  <2> HIDE DEF hits, found
  <2>1. \A x : Depth(x) \in Depths
    BY DEF Depth, Depths
  <2> QED BY <1>3, <1>5, <1>6, <2>1 DEF FoundOK, Known
<1>8. \A v : Found(g, v, j.found) => Found(g, v, found)
  BY <1>5 DEF Found
<1>9. ASSUME NEW v \in j.spent
      PROVE  \/ Found(g, v, found) \/ Excused(g, v, faults)
             \/ /\ OwnerOf[g][v] \in j.walk \ {a}
                /\ \E x \in Range(seen) : SpentOutput[x] = <<g, v>>
             \/ /\ OwnerOf[g][v] = a /\ a \in j.walk
                /\ \E x \in History(a) : SpentOutput[x] = <<g, v>> /\ Position(a, x) > p * PageSize
  <2>1. v \in Outs[g]
    BY <1>3
  <2>2. Found(g, v, j.found) \/ Excused(g, v, faults) \/ Ahead(g, v, j.walk, p)
    BY <1>1, <1>2 DEF JobOK
  <2>3. CASE Ahead(g, v, j.walk, p) /\ OwnerOf[g][v] # NoAddress
    <3>1. PICK x \in Range(seen) :
              /\ SpentOutput[x] = <<g, v>>
              /\ OwnerOf[g][v] = a => Position(OwnerOf[g][v], x) > (p - 1) * PageSize
      BY <2>3 DEF Ahead
    <3>2. OwnerOf[g][v] \in j.walk
      BY <2>3 DEF Ahead
    <3>3. CASE OwnerOf[g][v] = a
      <4>1. Position(a, x) > (p - 1) * PageSize
        BY <3>1, <3>3
      <4>2. x \in hits \/ Position(a, x) > p * PageSize
        BY <1>2, <1>3, <2>1, <2>3, <3>1, <3>3, <4>1, PageRead
      <4>3. x \in hits => Found(g, v, found)
        BY <1>5, <3>1 DEF Found
      <4>4. x \in History(a)
        BY <1>2, <2>1, <2>3, <3>1, <3>3, SpenderListed
      <4> QED BY <3>1, <3>2, <3>3, <4>2, <4>3, <4>4
    <3>4. CASE OwnerOf[g][v] # a
      BY <3>1, <3>2, <3>4
    <3> QED BY <3>3, <3>4
  <2>4. CASE OwnerOf[g][v] = NoAddress
    BY <2>4 DEF Excused
  <2> QED BY <1>8, <2>2, <2>3, <2>4
<1> HIDE DEF found, hits
<1>10. CASE LastPage(a, p)
  <2>1. EndWalk(g, a, found)
    BY <1>1, <1>10
  <2>2. \A v \in j.spent :
            \/ Found(g, v, found) \/ Excused(g, v, faults')
            \/ /\ OwnerOf[g][v] \in j.walk \ {a}
               /\ \E x \in Range(seen) : SpentOutput[x] = <<g, v>>
    <3> SUFFICES ASSUME NEW v \in j.spent
                 PROVE  \/ Found(g, v, found) \/ Excused(g, v, faults)
                        \/ /\ OwnerOf[g][v] \in j.walk \ {a}
                           /\ \E x \in Range(seen) : SpentOutput[x] = <<g, v>>
      BY <1>1
    <3>1. ASSUME OwnerOf[g][v] = a, NEW x \in History(a), Position(a, x) > p * PageSize
          PROVE  Excused(g, v, faults)
      BY <1>2, <1>3, <1>10, <3>1, BeyondCap
    <3> QED BY <1>9, <3>1
  <2> QED BY <1>1, <1>4, <1>7, <2>1, <2>2, AskEndWalk
<1>11. CASE ~ LastPage(a, p)
  <2> DEFINE nj == [j EXCEPT !.page = @ + 1, !.found = found]
  <2>1. Proceed(g, nj, answers[g])
    BY <1>1, <1>11
  <2>2. /\ DOMAIN nj = DOMAIN NoJob /\ nj.scope = j.scope /\ nj.step = "page"
        /\ nj.spent = j.spent /\ nj.walk = j.walk /\ nj.page = p + 1 /\ nj.found = found
    BY <1>1, <1>3 DEF NoJob, NewJob
  <2>3. ASSUME NEW v \in j.spent
        PROVE  Found(g, v, found) \/ Excused(g, v, faults) \/ Ahead(g, v, j.walk, p + 1)
    <3>1. CASE /\ OwnerOf[g][v] \in j.walk \ {a}
               /\ \E x \in Range(seen) : SpentOutput[x] = <<g, v>>
      BY <3>1 DEF Ahead
    <3>2. ASSUME OwnerOf[g][v] = a, a \in j.walk, NEW x \in History(a),
                 SpentOutput[x] = <<g, v>>, Position(a, x) > p * PageSize
          PROVE  Ahead(g, v, j.walk, p + 1)
      <4>1. x \in Range(seen)
        BY <3>2 DEF History
      <4>2. PICK q : q = p + 1
        OBVIOUS
      <4>3. PICK n : n = Position(OwnerOf[g][v], x)
        OBVIOUS
      <4>4. q - 1 = p
        BY <1>3, <4>2
      <4>5. n > (q - 1) * PageSize
        <5>1. n = Position(a, x)
          BY <3>2, <4>3
        <5> QED BY <3>2, <4>4, <5>1
      <4> HIDE DEF a, p
      <4>6. OwnerOf[g][v] \in j.walk
        BY <3>2
      <4>7. Ahead(g, v, j.walk, q)
        BY <3>2, <4>1, <4>3, <4>5, <4>6 DEF Ahead
      <4> QED BY <4>2, <4>7
    <3> QED BY <1>9, <3>1, <3>2
  <2>4. JobOK(g, nj, faults)
    <3> HIDE DEF nj
    <3>1. \A v \in nj.spent :
              Found(g, v, nj.found) \/ Excused(g, v, faults) \/ Ahead(g, v, nj.walk, nj.page)
      BY <2>2, <2>3
    <3>2. FoundOK(nj.found) /\ FlagsOK(g, nj.scope, nj.spent)
      BY <1>3, <1>7, <2>2
    <3>3. nj.walk \subseteq Addresses /\ nj.walk # {}
      BY <1>3, <2>2
    <3>4. nj.page \in Nat \ {0} /\ nj.spent \subseteq Outs[g] /\ nj.scope \subseteq Vouts[g]
      BY <1>3, <2>2
    <3> QED BY <2>2, <3>1, <3>2, <3>3, <3>4 DEF JobOK
  <2> QED BY <1>1, <1>2, <1>4, <2>1, <2>4, AskProceed
<1> QED BY <1>10, <1>11

-----------------------------------------------------------------------------
(* The other requests *)

\* A request that settles its whole scope with `said`.
LEMMA AskSettled ==
    ASSUME AskInv, TypeInv, NEW g \in Groups, NEW said, DOMAIN said = job[g].scope,
           said = [v \in job[g].scope |-> said[v]],
           faults' \in 0 .. MaxFaults, faults <= faults',
           \A v \in job[g].scope : StatusOK(g, v, said[v], faults'),
           Proceed(g, NoJob, Tell(g, said))
    PROVE  AskInv'
<1>1. SeenInv /\ JobOK(g, job[g], faults) /\ AnswersOK(g, answers[g], faults)
  BY DEF AskInv, TaskInv
<1>2. job[g].scope \subseteq Vouts[g]
  BY <1>1 DEF JobOK
<1>3. PICK f \in Nat : f = faults'
  BY SourceAssumption
<1>4. faults \in Nat
  BY <1>1, SourceAssumption DEF SeenInv
<1>5. AnswersOK(g, answers[g], f)
  BY <1>1, <1>3, <1>4, Later
<1>6. PICK scope : scope = job[g].scope
  OBVIOUS
<1>7. AnswersOK(g, Tell(g, said), f)
  BY <1>2, <1>3, <1>5, <1>6, TellOK
<1>8. JobOK(g, NoJob, f)
  BY NewJobOK DEF NoJob
<1> QED BY <1>3, <1>7, <1>8, AskProceed

\* A request that settles nothing: the next one asks about one output.
LEMMA AskAgain ==
    ASSUME AskInv, TypeInv, NEW g \in Groups, faults' \in 0 .. MaxFaults, faults <= faults',
           Proceed(g, NoJob, answers[g])
    PROVE  AskInv'
<1>1. SeenInv /\ AnswersOK(g, answers[g], faults)
  BY DEF AskInv, TaskInv
<1>2. PICK f \in Nat : f = faults'
  BY SourceAssumption
<1>3. faults \in Nat
  BY <1>1, SourceAssumption DEF SeenInv
<1>4. AnswersOK(g, answers[g], f)
  BY <1>1, <1>2, <1>3, Later
<1>5. JobOK(g, NoJob, f)
  BY NewJobOK DEF NoJob
<1> QED BY <1>2, <1>4, <1>5, AskProceed

LEMMA AskEsplora ==
    ASSUME AskInv, TypeInv, NEW g \in Groups, EsploraAnswer(g)
    PROVE  AskInv'
<1> DEFINE said == [v \in job[g].scope |-> EsploraStatus(g, v)]
<1>1. Proceed(g, NoJob, Tell(g, said)) /\ faults' = faults
  BY DEF EsploraAnswer
<1>2. SeenInv /\ early[g] \subseteq Range(seen)
  BY DEF AskInv, TaskInv
<1>3. faults \in 0 .. MaxFaults /\ faults <= faults
  BY <1>2, SourceAssumption DEF SeenInv
<1>4. \A v \in job[g].scope : StatusOK(g, v, said[v], faults)
  BY <1>2, EsploraOK
<1>5. DOMAIN said = job[g].scope /\ said = [v \in job[g].scope |-> said[v]]
  OBVIOUS
<1> HIDE DEF said
<1> QED BY <1>1, <1>3, <1>4, <1>5, AskSettled

LEMMA AskNotFound ==
    ASSUME AskInv, TypeInv, NEW g \in Groups, NotFound(g)
    PROVE  AskInv'
<1> DEFINE said == [v \in job[g].scope |-> Unknown]
<1>1. /\ g \in Unlisted /\ faults' = faults
      /\ Proceed(g, NoJob, IF IsBatch(g) THEN answers[g] ELSE Tell(g, said))
  BY DEF NotFound
<1>2. faults \in 0 .. MaxFaults /\ faults <= faults
  BY SourceAssumption DEF AskInv, SeenInv
<1>3. \A v \in job[g].scope : StatusOK(g, v, said[v], faults)
  BY <1>1 DEF StatusOK, Unknown, Statuses
<1>4. DOMAIN said = job[g].scope /\ said = [v \in job[g].scope |-> said[v]]
  OBVIOUS
<1> HIDE DEF said
<1>5. CASE IsBatch(g)
  BY <1>1, <1>2, <1>5, AskAgain
<1>6. CASE ~ IsBatch(g)
  <2>1. Proceed(g, NoJob, Tell(g, said))
    BY <1>1, <1>6
  <2> QED BY <1>1, <1>2, <1>3, <1>4, <2>1, AskSettled
<1> QED BY <1>5, <1>6

LEMMA AskFails ==
    ASSUME AskInv, TypeInv, NEW g \in Groups, RequestFails(g)
    PROVE  AskInv'
<1> DEFINE said == [v \in job[g].scope |-> Failed]
           a == Least(job[g].walk)
<1>1. /\ faults < MaxFaults /\ faults' = faults + 1
      /\ IF job[g].step = "page" THEN EndWalk(g, a, job[g].found)
         ELSE IF IsBatch(g) THEN Proceed(g, NoJob, answers[g])
              ELSE Proceed(g, NoJob, Tell(g, said))
  BY DEF RequestFails
<1>2. faults \in 0 .. MaxFaults /\ MaxFaults \in Nat
  BY SourceAssumption DEF AskInv, SeenInv
<1>3. faults' \in 0 .. MaxFaults /\ faults <= faults' /\ faults' > 0
  BY <1>1, <1>2
<1>4. \A v : Excused(g, v, faults')
  BY <1>3 DEF Excused
<1>5. \A v \in job[g].scope : StatusOK(g, v, said[v], faults')
  BY DEF StatusOK, Failed, Statuses
<1>6. DOMAIN said = job[g].scope /\ said = [v \in job[g].scope |-> said[v]]
  OBVIOUS
<1>7. FoundOK(job[g].found)
  BY DEF AskInv, TaskInv, JobOK
<1> HIDE DEF said, a
<1>8. CASE job[g].step = "page"
  <2>1. EndWalk(g, a, job[g].found)
    BY <1>1, <1>8
  <2> QED BY <1>3, <1>4, <1>7, <1>8, <2>1, AskEndWalk
<1>9. CASE job[g].step # "page" /\ IsBatch(g)
  BY <1>1, <1>3, <1>9, AskAgain
<1>10. CASE job[g].step # "page" /\ ~ IsBatch(g)
  <2>1. Proceed(g, NoJob, Tell(g, said))
    BY <1>1, <1>10
  <2> QED BY <1>3, <1>5, <1>6, <2>1, AskSettled
<1> QED BY <1>8, <1>9, <1>10

\* Blockbook's flags: nothing is found yet, and every spender lies ahead.
LEMMA AskTx ==
    ASSUME AskInv, TypeInv, NEW g \in Groups, BlockbookTx(g)
    PROVE  AskInv'
<1> DEFINE j == job[g]
           spent == FlaggedSpent(g)
           walk == {OwnerOf[g][v] : v \in spent} \ {NoAddress}
           said == [v \in j.scope |-> StatusOf(g, spent, <<>>, v)]
           nj == [j EXCEPT !.step = "page", !.spent = spent, !.walk = walk]
<1>1. /\ j.step = "tx" /\ faults' = faults
      /\ IF walk = {} THEN Proceed(g, NoJob, Tell(g, said)) ELSE Proceed(g, nj, answers[g])
  BY DEF BlockbookTx
<1>2. SeenInv /\ JobOK(g, j, faults) /\ AnswersOK(g, answers[g], faults)
      /\ early[g] \subseteq Range(seen)
  BY DEF AskInv, TaskInv
<1>3. faults \in 0 .. MaxFaults /\ faults <= faults
  BY <1>2, SourceAssumption DEF SeenInv
<1>4. j.scope \subseteq Vouts[g] /\ FoundOK(j.found) /\ DOMAIN j = DOMAIN NoJob /\ j.page = 1
  BY <1>1, <1>2 DEF JobOK
<1>5. spent \subseteq Outs[g]
  BY DEF FlaggedSpent
<1>6. FlagsOK(g, j.scope, spent)
  BY <1>2 DEF FlagsOK, FlaggedSpent, EarlySpent, SeenSpenders
<1>7. \A v \in spent : \E x \in Range(seen) : SpentOutput[x] = <<g, v>>
  BY DEF FlaggedSpent, SeenSpenders
<1>8. walk \subseteq Addresses
  BY <1>5, SourceAssumption
<1>9. CASE walk = {}
  <2>1. Proceed(g, NoJob, Tell(g, said))
    BY <1>1, <1>9
  <2>2. \A u \in spent : Found(g, u, <<>>) \/ Excused(g, u, faults)
    BY <1>9 DEF Excused
  <2>3. FoundOK(<<>>)
    <3>1. DOMAIN <<>> = {}
      OBVIOUS
    <3> QED BY <3>1 DEF FoundOK
  <2>4. \A v \in j.scope : StatusOK(g, v, said[v], faults)
    <3> SUFFICES ASSUME NEW v \in j.scope
                 PROVE  StatusOK(g, v, StatusOf(g, spent, <<>>, v), faults)
      OBVIOUS
    <3> HIDE DEF spent
    <3> QED BY <1>2, <1>6, <2>2, <2>3, BlockbookOK
  <2>5. DOMAIN said = j.scope /\ said = [v \in j.scope |-> said[v]]
    OBVIOUS
  <2> HIDE DEF said
  <2> QED BY <1>1, <1>3, <2>1, <2>4, <2>5, AskSettled
<1>10. CASE walk # {}
  <2>1. Proceed(g, nj, answers[g])
    BY <1>1, <1>10
  <2>2. /\ DOMAIN nj = DOMAIN NoJob /\ nj.scope = j.scope /\ nj.step = "page"
        /\ nj.spent = spent /\ nj.walk = walk /\ nj.page = 1 /\ nj.found = j.found
    BY <1>4 DEF NoJob, NewJob
  <2>3. ASSUME NEW v \in spent PROVE Excused(g, v, faults) \/ Ahead(g, v, walk, 1)
    <3>1. PICK x \in Range(seen) : SpentOutput[x] = <<g, v>>
      BY <1>7
    <3>2. v \in Outs[g]
      BY <1>5
    <3>3. CASE OwnerOf[g][v] = NoAddress
      BY <3>3 DEF Excused
    <3>4. CASE OwnerOf[g][v] \in walk
      <4> HIDE DEF walk
      <4> QED BY <1>2, <3>1, <3>2, <3>4, WalkStarts
    <3> QED BY <3>3, <3>4
  <2>4. JobOK(g, nj, faults)
    <3> HIDE DEF nj, walk, spent
    <3>1. \A v \in nj.spent :
              Found(g, v, nj.found) \/ Excused(g, v, faults) \/ Ahead(g, v, nj.walk, nj.page)
      BY <2>2, <2>3
    <3>2. FoundOK(nj.found) /\ FlagsOK(g, nj.scope, nj.spent)
      BY <1>4, <1>6, <2>2
    <3>3. nj.walk \subseteq Addresses /\ nj.walk # {}
      BY <1>8, <1>10, <2>2
    <3>4. nj.page \in Nat \ {0} /\ nj.spent \subseteq Outs[g] /\ nj.scope \subseteq Vouts[g]
      BY <1>4, <1>5, <2>2
    <3> QED BY <2>2, <3>1, <3>2, <3>3, <3>4 DEF JobOK
  <2> QED BY <1>1, <1>2, <1>3, <2>1, <2>4, AskProceed
<1> QED BY <1>9, <1>10

-----------------------------------------------------------------------------
(* The answers are right at every step *)

LEMMA AskInit == Init => AskInv
<1> SUFFICES ASSUME Init PROVE AskInv
  OBVIOUS
<1>1. SeenInv
  <2>1. seen \in Seq(Spenders) /\ mined = Range(seen)
    BY SourceAssumption DEF Init
  <2>2. IsFiniteSet(Range(seen))
    <3>1. Len(seen) \in Nat /\ DOMAIN seen = 1 .. Len(seen)
      BY <2>1
    <3>2. IsFiniteSet(1 .. Len(seen))
      BY <3>1, FS_Interval
    <3>3. \A x \in Range(seen) : \E i \in 1 .. Len(seen) : seen[i] = x
      BY <3>1 DEF Range
    <3>4. seen \in [1 .. Len(seen) -> Range(seen)]
      BY <2>1, <3>1 DEF Range
    <3>5. seen \in Surjection(1 .. Len(seen), Range(seen))
      BY <3>3, <3>4 DEF Surjection
    <3> QED BY <3>2, <3>5, FS_Surjection
  <2>3. faults \in 0 .. MaxFaults
    BY SourceAssumption DEF Init
  <2> QED BY <2>1, <2>2, <2>3 DEF Init, SeenInv
<1>2. ASSUME NEW g \in Groups PROVE TaskInv(g)
  <2>1. /\ early[g] = {} /\ job[g] = NewJob({}) /\ answers[g] = <<>>
    BY DEF Init
  <2>2. DOMAIN <<>> = {} /\ <<>> = [v \in DOMAIN <<>> |-> <<>>[v]]
    OBVIOUS
  <2>3. JobOK(g, job[g], faults)
    BY <2>1, NewJobOK
  <2> QED BY <2>1, <2>2, <2>3 DEF TaskInv, AnswersOK
<1> QED BY <1>1, <1>2 DEF AskInv

LEMMA AskNext == AskInv /\ ThrottleInv /\ [Next]_vars => AskInv'
<1> SUFFICES ASSUME AskInv, ThrottleInv, [Next]_vars PROVE AskInv'
  OBVIOUS
<1>1. TypeInv /\ pc \in [Groups -> PCs] /\ mined \subseteq Range(seen)
  BY DEF ThrottleInv, TypeInv, AskInv, SeenInv
<1>2. ASSUME NEW x \in Spenders, Broadcast(x) PROVE AskInv'
  BY <1>2, AskBroadcast
<1>3. CASE MineBtc
  BY <1>3, AskIdle DEF MineBtc
<1>4. CASE Tick \/ UNCHANGED vars
  BY <1>1, <1>4, AskIdle DEF Tick, vars, chainVars
<1>5. ASSUME NEW g \in Groups, Task(g) PROVE AskInv'
  <2>1. CASE StartGroup(g)
    BY <1>1, <2>1, AskStart
  <2>2. CASE TakePermit(g) \/ LockLastStart(g) \/ StartRequest(g)
    <3>1. /\ UNCHANGED <<seen, dropped, backend, faults, job, answers, early, mined>>
          /\ \E p \in PCs \ {"queued"} : pc' = [pc EXCEPT ![g] = p]
      BY <2>2 DEF TakePermit, LockLastStart, StartRequest, chainVars, PCs
    <3>2. \A k \in Groups : pc'[k] = "queued" => pc[k] = "queued"
      BY <1>1, <3>1
    <3> QED BY <1>1, <3>1, <3>2, AskIdle
  <2>3. CASE EsploraAnswer(g)
    BY <1>1, <2>3, AskEsplora
  <2>4. CASE NotFound(g)
    BY <1>1, <2>4, AskNotFound
  <2>5. CASE BlockbookTx(g)
    BY <1>1, <2>5, AskTx
  <2>6. CASE BlockbookPage(g)
    BY <1>1, <2>6, AskPage
  <2>7. CASE RequestFails(g)
    BY <1>1, <2>7, AskFails
  <2> QED BY <1>5, <2>1, <2>2, <2>3, <2>4, <2>5, <2>6, <2>7 DEF Task, Answered
<1>6. ASSUME NEW i \in DOMAIN seen, Drop(i) PROVE AskInv'
  BY <1>6, AskDrop
<1> QED BY <1>2, <1>3, <1>4, <1>5, <1>6 DEF Next, Returned

LEMMA AskAlways == Spec => [](AskInv /\ ThrottleInv)
<1>1. Init => AskInv /\ ThrottleInv
  BY AskInit, ThrottleInit
<1>2. AskInv /\ ThrottleInv /\ [Next]_vars => (AskInv /\ ThrottleInv)'
  BY AskNext, ThrottleNext
<1> QED BY <1>1, <1>2, PTL DEF Spec

\* Type correctness of the throttle, the tasks and their answers.
THEOREM TypeCorrect == Spec => []TypeOK
<1>1. AskInv /\ ThrottleInv => TypeOK
  <2> SUFFICES ASSUME AskInv, ThrottleInv PROVE TypeOK
    OBVIOUS
  <2>1. Range(seen) \subseteq Spenders
    BY DEF AskInv, SeenInv, Range
  <2>2. ASSUME NEW g \in Groups
        PROVE  /\ answers[g] \in [DOMAIN answers[g] -> Statuses]
               /\ DOMAIN answers[g] \subseteq Vouts[g] /\ early[g] \subseteq Spenders
    <3>1. AnswersOK(g, answers[g], faults) /\ early[g] \subseteq Range(seen)
      BY DEF AskInv, TaskInv
    <3>2. \A v \in DOMAIN answers[g] : v \in Vouts[g] /\ answers[g][v] \in Statuses
      BY <3>1 DEF AnswersOK, StatusOK
    <3>3. answers[g] = [v \in DOMAIN answers[g] |-> answers[g][v]]
      BY <3>1 DEF AnswersOK
    <3> QED BY <2>1, <3>1, <3>2, <3>3
  <2>3. mined \subseteq Spenders /\ dropped \subseteq Spenders /\ backend \in Backends /\ faults \in 0 .. MaxFaults
    BY <2>1 DEF AskInv, SeenInv
  <2> QED BY <2>1, <2>2, <2>3 DEF TypeOK, ThrottleInv, TypeInv
<1> QED BY <1>1, AskAlways, PTL

\* blockbook.rs, outpoint_status: an output whose spender was there before its
\* task started, and stays, is never reported unspent, and a reported spender was
\* known and spends it, for both backends, any pages, any failures and any change
\* of the histories.
THEOREM NoneResurrected == Spec => []NoResurrection
<1>1. AskInv => NoResurrection
  <2> SUFFICES ASSUME AskInv, NEW g \in Groups, NEW v \in DOMAIN answers[g]
               PROVE  /\ answers[g][v].status = "unspent" =>
                            \A x \in early[g] : SpentOutput[x] # <<g, v>>
                      /\ \A x \in answers[g][v].spender :
                            x \in Range(seen) \cup dropped /\ SpentOutput[x] = <<g, v>>
    BY DEF NoResurrection
  <2>1. StatusOK(g, v, answers[g][v], faults)
    BY DEF AskInv, TaskInv, AnswersOK
  <2> QED BY <2>1 DEF StatusOK, EarlySpent, Known
<1> QED BY <1>1, AskAlways, PTL

\* blockbook.rs, resolve_spenders: however the history grows while it is
\* walked, the spender of an output with an address is found unless a request
\* failed, the history is longer than the pages read, or a transaction was
\* dropped from it.
THEOREM UnknownsExplained == Spec => []UnknownExplained
<1>1. AskInv => UnknownExplained
  <2> SUFFICES ASSUME AskInv, NEW g \in Groups \ Unlisted,
                      NEW v \in DOMAIN answers[g] \cap Outs[g],
                      answers[g][v].status = "unknown"
               PROVE  Excused(g, v, faults)
    BY DEF UnknownExplained, Excused, Thinned
  <2>1. StatusOK(g, v, answers[g][v], faults)
    BY DEF AskInv, TaskInv, AnswersOK
  <2> QED BY <2>1 DEF StatusOK
<1> QED BY <1>1, AskAlways, PTL
=============================================================================
