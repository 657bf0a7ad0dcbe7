----------------------------- MODULE PollProofs -----------------------------
(***************************************************************************)
(* Machine-checked proofs about the client that polls the status of a      *)
(* Bitcoin transaction (transaction_status, resolve_transition), for every *)
(* index and any progress of the scanner between the queries of an answer. *)
(***************************************************************************)
EXTENDS ReadApiProofs

\* The transition transitions_by_btc_txid lists first.
First(t, x) ==
    t \in TransitionsOf(x) /\ \A u \in TransitionsOf(x) : ~Before(Pos[u], Pos[t])

\* Of a transaction's cells at height `from`, none is live at height `seen`
\* where the look-up searches.
NoneLeft(x, from, seen) ==
    \A c \in Cells :
        /\ BoundTo[c] = x
        /\ CreatedBy[c] # NoTx => Pos[CreatedBy[c]][1] <= from
        => \/ ConsumedBy[c] # NoTx /\ Pos[ConsumedBy[c]][1] <= seen
           \/ SealOf[c] = NoSeal
           \/ VoutOf[SealOf[c]] >= MaxLookup \/ VoutOf[SealOf[c]] >= OutCount[x]

\* The cells transition t bound to x.
BoundBy(t, x) == {c \in Cells : CreatedBy[c] = t /\ BoundTo[c] = x}

Answered == {"transitions", "cells", "done"}

\* What the last answer named is still first, and the source is only asked when
\* nothing was named.
BeforeInv ==
    /\ poll.before # NoTx => First(poll.before, poll.txid)
    /\ poll.pc \in {"source", "lookup"} => poll.before = NoTx

\* What this answer names is first, and what the last one named.
NamedInv ==
    poll.pc \in Answered =>
        /\ poll.named # NoTx => First(poll.named, poll.txid)
        /\ poll.resolution = "indexed" => poll.named # NoTx
        /\ poll.before # NoTx => poll.named = poll.before

\* The later queries saw at least what the earlier ones did.
ListInv ==
    /\ poll.pc \in {"cells", "done"} =>
          /\ poll.transitions \subseteq TransitionsOf(poll.txid)
          /\ poll.named # NoTx => poll.named \in poll.transitions
    /\ poll.pc = "done" =>
          \A t \in poll.transitions : BoundBy(t, poll.txid) \subseteq poll.cells

AwaitInv ==
    poll.pc \in Answered /\ poll.resolution = "awaiting_ckb" =>
        NoneLeft(poll.txid, poll.from, poll.seen)

PollInv == BeforeInv /\ NamedInv /\ ListInv /\ AwaitInv
-----------------------------------------------------------------------------
\* Blocks are indexed in order: what is indexed later comes later.
LEMMA FirstStays ==
    ASSUME tip \in Int, tip' \in Int, tip <= tip', NEW x
    PROVE  /\ TransitionsOf(x) \subseteq TransitionsOf(x)'
           /\ \A t : First(t, x) => First(t, x)'
<1>1. \A t \in Txs : Indexed(t) <=> Pos[t][1] <= tip
  BY ReadAssumption DEF Indexed
<1>2. \A t \in Txs : Indexed(t)' <=> Pos[t][1] <= tip'
  BY ReadAssumption DEF Indexed
<1>3. \A t \in Txs : Pos[t][1] \in Nat
  BY ReadAssumption
<1>4. TransitionsOf(x) \subseteq TransitionsOf(x)'
  BY <1>1, <1>2, <1>3 DEF TransitionsOf
<1>5. ASSUME NEW t, First(t, x), NEW u \in TransitionsOf(x)'
      PROVE  ~Before(Pos[u], Pos[t])
  <2>1. t \in Txs /\ u \in Txs /\ Pos[t][1] <= tip /\ BtcTxidOf[u] = x
    BY <1>1, <1>5 DEF First, TransitionsOf
  <2>2. CASE Indexed(u)
    <3>1. u \in TransitionsOf(x)
      BY <2>1, <2>2 DEF TransitionsOf
    <3> QED BY <1>5, <3>1 DEF First
  <2>3. CASE ~Indexed(u)
    <3>1. ~(Pos[u][1] <= tip)
      BY <1>1, <2>1, <2>3
    <3> QED BY <1>3, <2>1, <3>1 DEF Before
  <2> QED BY <2>2, <2>3
<1>6. ASSUME NEW t, First(t, x) PROVE First(t, x)'
  <2>1. t \in TransitionsOf(x)'
    BY <1>4, <1>6 DEF First
  <2> QED BY <1>5, <1>6, <2>1 DEF First, TransitionsOf
<1> QED BY <1>4, <1>6

\* There is one first transition.
LEMMA FirstUnique ==
    ASSUME NEW x, NEW t, NEW u, First(t, x), First(u, x)
    PROVE  t = u
<1>1. t \in Txs /\ u \in Txs
  BY DEF First, TransitionsOf
<1>2. ~Before(Pos[t], Pos[u]) /\ ~Before(Pos[u], Pos[t])
  BY DEF First
<1> QED BY <1>1, <1>2, Order

\* The index grows while the client waits.
LEMMA PollFrame ==
    ASSUME PollInv, tip \in Int, tip' \in Int, tip <= tip', poll' = poll
    PROVE  PollInv'
<1>1. PICK x : x = poll.txid
  OBVIOUS
<1>2. /\ TransitionsOf(x) \subseteq TransitionsOf(x)'
      /\ \A t : First(t, x) => First(t, x)'
  BY FirstStays
<1>3. x = poll'.txid
  BY <1>1
<1>4. BeforeInv'
  <2>1. poll.before # NoTx => First(poll.before, x)
    BY <1>1 DEF PollInv, BeforeInv
  <2>2. PICK b : b = poll.before
    OBVIOUS
  <2>3. b # NoTx => First(b, x)'
    BY <1>2, <2>1, <2>2
  <2> QED BY <1>3, <2>2, <2>3 DEF PollInv, BeforeInv
<1>5. NamedInv'
  <2>1. PICK n : n = poll.named
    OBVIOUS
  <2>2. poll.pc \in Answered /\ n # NoTx => First(n, x)'
    BY <1>1, <1>2, <2>1 DEF PollInv, NamedInv
  <2> QED BY <1>3, <2>1, <2>2 DEF PollInv, NamedInv
<1>6. ListInv'
  <2>1. poll.pc \in {"cells", "done"} => poll.transitions \subseteq TransitionsOf(x)'
    BY <1>1, <1>2 DEF PollInv, ListInv
  <2> QED BY <1>3, <2>1 DEF PollInv, ListInv
<1>7. AwaitInv'
  BY DEF PollInv, AwaitInv
<1> QED BY <1>4, <1>5, <1>6, <1>7 DEF PollInv

\* The first query: an indexed transition is named, the first one.
LEMMA IndexedStep ==
    ASSUME TypeInv, PollInv, ResolveIndexed
    PROVE  PollInv'
<1>1. PICK x : x = poll.txid
  OBVIOUS
<1>2. TransitionsOf(x) \in SUBSET Txs /\ NoTx \notin Txs
  BY ReadAssumption DEF TransitionsOf
<1>3. tip' = tip
  BY DEF ResolveIndexed
<1>4. TransitionsOf(x)' = TransitionsOf(x)
  BY <1>3 DEF TransitionsOf, Indexed
<1>5. \A t : First(t, x)' <=> First(t, x)
  BY <1>4 DEF First
<1>6. poll.before # NoTx => First(poll.before, x)
  BY <1>1 DEF PollInv, BeforeInv
<1>7. CASE TransitionsOf(x) = {}
  <2>1. /\ poll'.pc = "source" /\ poll'.txid = x /\ poll'.before = poll.before
    BY <1>1, <1>7 DEF ResolveIndexed, TypeInv, Polls
  <2>2. poll.before = NoTx
    BY <1>6, <1>7 DEF First
  <2> QED BY <2>1, <2>2 DEF PollInv, BeforeInv, NamedInv, ListInv, AwaitInv, Answered
<1>8. CASE TransitionsOf(x) # {}
  <2>1. PICK n : n = Oldest(TransitionsOf(x))
    OBVIOUS
  <2>2. First(n, x) /\ n \in Txs
    BY <1>2, <1>8, <2>1, OldestOf DEF First
  <2>3. poll' = [poll EXCEPT !.pc = "transitions", !.resolution = "indexed", !.named = n]
    BY <1>1, <1>8, <2>1 DEF ResolveIndexed
  <2>4. /\ poll'.pc = "transitions" /\ poll'.txid = x /\ poll'.before = poll.before
        /\ poll'.named = n /\ poll'.resolution = "indexed"
    BY <1>1, <2>3 DEF TypeInv, Polls
  <2>5. PICK b : b = poll.before
    OBVIOUS
  <2>6. b # NoTx => b = n
    BY <1>6, <2>2, <2>5, FirstUnique
  <2>7. First(n, x)' /\ (b # NoTx => First(b, x)')
    BY <1>5, <1>6, <2>2, <2>5
  <2>8. BeforeInv'
    BY <2>4, <2>5, <2>7 DEF BeforeInv
  <2>9. NamedInv'
    BY <1>2, <2>2, <2>4, <2>5, <2>6, <2>7 DEF NamedInv
  <2> QED BY <2>4, <2>8, <2>9 DEF PollInv, ListInv, AwaitInv
<1> QED BY <1>7, <1>8

\* The source knows the transaction, or not.
LEMMA SourceStep ==
    ASSUME TypeInv, PollInv, ResolveSource
    PROVE  PollInv'
<1>1. poll.before = NoTx
  BY DEF ResolveSource, PollInv, BeforeInv
<1>2. /\ poll'.before = poll.before
      /\ \/ poll'.pc = "lookup"
         \/ poll'.pc = "transitions" /\ poll'.resolution = "unknown_btc_tx" /\ poll'.named = NoTx
  BY DEF ResolveSource, Resolved, TypeInv, Polls
<1> QED BY <1>1, <1>2 DEF PollInv, BeforeInv, NamedInv, ListInv, AwaitInv, Answered

\* The look-up of the outputs: what it does not find is not there.
LEMMA LookupStep ==
    ASSUME TypeInv, PollInv, ResolveLookup
    PROVE  PollInv'
<1>1. PICK x : x = poll.txid
  OBVIOUS
<1>2. PICK height \in [LookedUp(x) -> tip .. MaxTip] :
         /\ \A i, j \in LookedUp(x) : i <= j => height[i] <= height[j]
         /\ poll' = [poll EXCEPT
                !.pc = "transitions", !.named = NoTx, !.from = height[0],
                !.seen = height[LastLookedUp(x)],
                !.resolution = IF PointLookup(x, height) # {} THEN "ckb_seen_above_lag"
                               ELSE "awaiting_ckb"]
  BY <1>1 DEF ResolveLookup
<1>3. PICK r : r = IF PointLookup(x, height) # {} THEN "ckb_seen_above_lag" ELSE "awaiting_ckb"
  OBVIOUS
<1>4. PICK a, b : a = height[0] /\ b = height[LastLookedUp(x)]
  OBVIOUS
<1>5. poll' = [poll EXCEPT !.pc = "transitions", !.named = NoTx, !.from = a, !.seen = b,
                           !.resolution = r]
  BY <1>2, <1>3, <1>4
<1>6. /\ poll'.pc = "transitions" /\ poll'.named = NoTx /\ poll'.resolution = r
      /\ poll'.txid = x /\ poll'.before = poll.before /\ poll'.from = a /\ poll'.seen = b
  BY <1>1, <1>5 DEF TypeInv, Polls
<1>7. poll.before = NoTx /\ x \in Txids /\ tip \in Nat
  BY <1>1, ReadAssumption DEF ResolveLookup, PollInv, BeforeInv, TypeInv
<1>8. ASSUME r = "awaiting_ckb" PROVE NoneLeft(x, a, b)
  <2> SUFFICES ASSUME NEW c \in Cells, BoundTo[c] = x,
                      CreatedBy[c] # NoTx => Pos[CreatedBy[c]][1] <= a,
                      SealOf[c] # NoSeal, ~(VoutOf[SealOf[c]] >= MaxLookup),
                      ~(VoutOf[SealOf[c]] >= OutCount[x])
               PROVE  ConsumedBy[c] # NoTx /\ Pos[ConsumedBy[c]][1] <= b
    BY DEF NoneLeft
  <2>1. PICK v \in Nat : v = VoutOf[SealOf[c]]
    BY ReadAssumption
  <2>2. v \in LookedUp(x)
    <3>1. OutCount[x] \in Nat \ {0} /\ MaxLookup \in Nat \ {0}
      BY <1>7, ReadAssumption
    <3>2. v <= LastLookedUp(x) /\ LastLookedUp(x) \in Nat
      BY <2>1, <3>1 DEF LastLookedUp
    <3> QED BY <3>2 DEF LookedUp
  <2>3. 0 \in LookedUp(x) /\ LastLookedUp(x) \in LookedUp(x) /\ 0 <= v /\ v <= LastLookedUp(x)
    BY <1>7, <2>2, LookedUpType DEF LookedUp
  <2>4. a <= height[v] /\ height[v] <= b /\ a \in Int /\ b \in Int /\ height[v] \in Int
    BY <1>2, <1>4, <1>7, <2>2, <2>3
  <2>5. PointLookup(x, height) = {}
    BY <1>3, <1>8
  <2>6. ~LiveAt(c, height[v])
    BY <2>1, <2>2, <2>5 DEF PointLookup
  <2>7. CreatedBy[c] # NoTx => Pos[CreatedBy[c]][1] <= height[v]
    <3>1. CreatedBy[c] # NoTx => Pos[CreatedBy[c]][1] \in Nat
      BY ReadAssumption
    <3> QED BY <2>4, <3>1
  <2>8. ConsumedBy[c] # NoTx /\ ~(Pos[ConsumedBy[c]][1] > height[v])
    BY <2>6, <2>7 DEF LiveAt
  <2>9. Pos[ConsumedBy[c]][1] \in Nat
    BY <2>8, ReadAssumption
  <2> QED BY <2>4, <2>8, <2>9
<1>9. AwaitInv'
  BY <1>6, <1>8 DEF AwaitInv
<1> QED BY <1>3, <1>6, <1>7, <1>9 DEF PollInv, BeforeInv, NamedInv, ListInv

\* The list of transitions.
LEMMA TransitionsStep ==
    ASSUME TypeInv, PollInv, ReadTransitions
    PROVE  PollInv'
<1>1. PICK x : x = poll.txid
  OBVIOUS
<1>2. /\ poll.pc = "transitions" /\ poll'.pc = "cells" /\ poll'.txid = x
      /\ poll'.transitions = TransitionsOf(x) /\ poll'.named = poll.named
      /\ poll'.before = poll.before /\ poll'.resolution = poll.resolution
      /\ poll'.from = poll.from /\ poll'.seen = poll.seen /\ tip' = tip
  BY <1>1 DEF ReadTransitions, TypeInv, Polls
<1>3. TransitionsOf(x)' = TransitionsOf(x)
  BY <1>2 DEF TransitionsOf, Indexed
<1>4. \A t : First(t, x)' <=> First(t, x)
  BY <1>3 DEF First
<1>5. PICK n, b : n = poll.named /\ b = poll.before
  OBVIOUS
<1>6. /\ (n # NoTx => First(n, x)) /\ (b # NoTx => First(b, x) /\ n = b)
      /\ (poll.resolution = "indexed" => n # NoTx)
  BY <1>1, <1>2, <1>5 DEF PollInv, BeforeInv, NamedInv, Answered
<1>7. (n # NoTx => First(n, x)') /\ (b # NoTx => First(b, x)')
  BY <1>4, <1>6
<1>8. BeforeInv' /\ NamedInv'
  BY <1>2, <1>5, <1>6, <1>7 DEF BeforeInv, NamedInv
<1>9. ListInv'
  BY <1>2, <1>3, <1>5, <1>6 DEF ListInv, First
<1>10. AwaitInv'
  BY <1>1, <1>2 DEF PollInv, AwaitInv, Answered
<1> QED BY <1>8, <1>9, <1>10 DEF PollInv

\* The list of cells.
LEMMA TxidCellsStep ==
    ASSUME TypeInv, PollInv, ReadTxidCells
    PROVE  PollInv'
<1>1. PICK x : x = poll.txid
  OBVIOUS
<1>2. /\ poll.pc = "cells" /\ poll'.pc = "done" /\ poll'.txid = x
      /\ poll'.transitions = poll.transitions /\ poll'.named = poll.named
      /\ poll'.before = poll.before /\ poll'.resolution = poll.resolution
      /\ poll'.from = poll.from /\ poll'.seen = poll.seen /\ tip' = tip
      /\ poll'.cells = CellsOfTxid(x)
  BY <1>1 DEF ReadTxidCells, TypeInv, Polls
<1>3. TransitionsOf(x)' = TransitionsOf(x)
  BY <1>2 DEF TransitionsOf, Indexed
<1>4. \A t : First(t, x)' <=> First(t, x)
  BY <1>3 DEF First
<1>5. PICK n, b : n = poll.named /\ b = poll.before
  OBVIOUS
<1>6. /\ (n # NoTx => First(n, x)) /\ (b # NoTx => First(b, x) /\ n = b)
      /\ (poll.resolution = "indexed" => n # NoTx)
  BY <1>1, <1>2, <1>5 DEF PollInv, BeforeInv, NamedInv, Answered
<1>7. (n # NoTx => First(n, x)') /\ (b # NoTx => First(b, x)')
  BY <1>4, <1>6
<1>8. BeforeInv' /\ NamedInv'
  BY <1>2, <1>5, <1>6, <1>7 DEF BeforeInv, NamedInv
<1>9. /\ poll.transitions \subseteq TransitionsOf(x)
      /\ (n # NoTx => n \in poll.transitions)
  BY <1>1, <1>2, <1>5 DEF PollInv, ListInv
<1>10. \A t \in poll.transitions : BoundBy(t, x) \subseteq CellsOfTxid(x)
  <2>1. \A t \in poll.transitions : Indexed(t)
    BY <1>9 DEF TransitionsOf
  <2> QED BY <2>1 DEF BoundBy, CellsOfTxid, CellRows
<1>11. ListInv'
  BY <1>2, <1>3, <1>5, <1>9, <1>10 DEF ListInv
<1>12. AwaitInv'
  BY <1>1, <1>2 DEF PollInv, AwaitInv, Answered
<1> QED BY <1>8, <1>11, <1>12 DEF PollInv

\* The next request keeps what the last one was told.
LEMMA AgainStep ==
    ASSUME TypeInv, PollInv, PollAgain
    PROVE  PollInv'
<1>1. PICK x, n : x = poll.txid /\ n = poll.named
  OBVIOUS
<1>2. poll.pc = "done" /\ poll'.pc = "resolve" /\ poll'.txid = x /\ poll'.before = n /\ tip' = tip
  BY <1>1 DEF PollAgain, NoPoll
<1>3. n # NoTx => First(n, x)
  BY <1>1, <1>2 DEF PollInv, NamedInv, Answered
<1>4. TransitionsOf(x)' = TransitionsOf(x)
  BY <1>2 DEF TransitionsOf, Indexed
<1>5. n # NoTx => First(n, x)'
  BY <1>3, <1>4 DEF First
<1> QED BY <1>2, <1>5 DEF PollInv, BeforeInv, NamedInv, ListInv, AwaitInv, Answered

\* A request that has not started knows nothing.
LEMMA FreshStep ==
    ASSUME poll'.before = NoTx, poll'.pc \in {"idle", "resolve"}
    PROVE  PollInv'
BY DEF PollInv, BeforeInv, NamedInv, ListInv, AwaitInv, Answered

-----------------------------------------------------------------------------
LEMMA PollInit == Init => PollInv
BY DEF Init, NoPoll, PollInv, BeforeInv, NamedInv, ListInv, AwaitInv, Answered

LEMMA PollNext ==
    ASSUME TypeInv, TypeInv', PollInv, [Next]_vars
    PROVE  PollInv'
<1>1. tip \in Int /\ tip' \in Int
  BY DEF TypeInv
<1>2. ASSUME poll' = poll, tip' = tip \/ tip' = tip + 1 PROVE PollInv'
  <2>1. tip <= tip'
    BY <1>1, <1>2
  <2> QED BY <1>1, <1>2, <2>1, PollFrame
<1>3. CASE CommitBlock \/ (\E s \in Seals : Label(s) \/ Observe(s))
  BY <1>2, <1>3 DEF CommitBlock, Label, Observe, Disturb
<1>4. CASE \/ \E a \in Addresses, n \in Limits : StartScroll(a, n)
           \/ ReadRows \/ ReadCells \/ ReadUnresolved \/ Forget
  BY <1>2, <1>4 DEF StartScroll, ReadRows, ReadCells, ReadUnresolved, Forget
<1>5. CASE \/ \E k \in {"all", "udt", "dob", "unknown"}, n \in Limits : StartListing(k, n)
           \/ ListRows \/ ListTotal \/ NextAssets \/ ForgetListing
  BY <1>2, <1>5 DEF StartListing, ListRows, ListTotal, NextAssets, ForgetListing
<1>6. ASSUME NEW x \in Txids, StartPoll(x) PROVE PollInv'
  BY <1>6, FreshStep DEF StartPoll, NoPoll
<1>7. CASE EndPoll
  BY <1>7, FreshStep DEF EndPoll, NoPoll
<1>8. CASE UNCHANGED vars
  BY <1>2, <1>8 DEF vars
<1> QED
  BY <1>3, <1>4, <1>5, <1>6, <1>7, <1>8, IndexedStep, SourceStep, LookupStep, TransitionsStep,
     TxidCellsStep, AgainStep DEF Next

\* The status of one transaction, whatever is indexed meanwhile.
LEMMA PollInductive == Spec => []PollInv
<1>1. ScrollInv => TypeInv
  BY DEF ScrollInv
<1> QED BY <1>1, Inductive, PollInit, PollNext, PTL DEF Spec

\* handlers.rs, transaction_status: the queries of an answer agree, and a poll
\* never takes back the transition an earlier one named, for every index and
\* any number of blocks indexed between the queries.
THEOREM ConsistentPolls == Spec => []PollsConsistent
<1>1. PollInv => PollsConsistent
  BY DEF PollInv, NamedInv, ListInv, Answered, PollsConsistent, First, BoundBy
<1> QED BY <1>1, PollInductive, PTL

\* reconcile.rs, resolve_transition: "awaiting_ckb" is never an artefact of the
\* index and the rich indexer being asked one after the other, nor of the
\* outputs being looked up one by one.
THEOREM AwaitingSound == Spec => []AwaitingExplained
<1>1. PollInv => AwaitingExplained
  BY DEF PollInv, AwaitInv, Answered, NoneLeft, AwaitingExplained
<1> QED BY <1>1, PollInductive, PTL
=============================================================================
