--------------------------- MODULE ReadApiProofs ---------------------------
(***************************************************************************)
(* Machine-checked proofs about ReadApi, for every index, every page size  *)
(* and any interleaving with the writers.                                  *)
(***************************************************************************)
EXTENDS ReadApi, TLAPS, FiniteSetTheorems, WellFoundedInduction

-----------------------------------------------------------------------------
(* Newest-first pages *)

\* A set of natural numbers has a least element.
LEMMA LeastNat ==
    ASSUME NEW T \in SUBSET Nat, T # {}
    PROVE  \E n \in T : \A m \in T : n <= m
<1>1. \E n \in T : \A m \in T : ~(<<m, n>> \in OpToRel(<, Nat))
  BY NatLessThanWellFounded, WFMin
<1>2. PICK n \in T : \A m \in T : ~(<<m, n>> \in OpToRel(<, Nat))
  BY <1>1
<1>3. OpToRel(<, Nat) = {p \in Nat \X Nat : p[1] < p[2]}
  BY DEF OpToRel
<1>4. ASSUME NEW m \in T, m < n PROVE FALSE
  <2>1. <<m, n>> \in {p \in Nat \X Nat : p[1] < p[2]}
    BY <1>4
  <2> QED BY <1>2, <1>3, <2>1, Zenon
<1> QED BY <1>4

\* What a natural number measures has a least case.
LEMMA LeastMeasure ==
    ASSUME NEW S, S # {}, NEW f \in [S -> Nat]
    PROVE  \E x \in S : \A y \in S : f[x] <= f[y]
<1> DEFINE T == {f[x] : x \in S}
<1>1. T \in SUBSET Nat /\ T # {}
  OBVIOUS
<1> HIDE DEF T
<1>2. PICK n \in T : \A m \in T : n <= m
  BY <1>1, LeastNat
<1> QED BY <1>2 DEF T

\* Positions are ordered strictly and totally.
LEMMA Order ==
    /\ \A t \in Txs : ~Before(Pos[t], Pos[t])
    /\ \A t, u \in Txs : t # u => Before(Pos[t], Pos[u]) \/ Before(Pos[u], Pos[t])
    /\ \A t, u \in Txs : Before(Pos[t], Pos[u]) => ~Before(Pos[u], Pos[t])
    /\ \A t, u, v \in Txs :
          Before(Pos[t], Pos[u]) /\ Before(Pos[u], Pos[v]) => Before(Pos[t], Pos[v])
<1>1. \A t \in Txs : Pos[t] = <<Pos[t][1], Pos[t][2]>> /\ Pos[t][1] \in Nat /\ Pos[t][2] \in Nat
  BY ReadAssumption
<1>2. ASSUME NEW t \in Txs, NEW u \in Txs, t # u
      PROVE  Before(Pos[t], Pos[u]) \/ Before(Pos[u], Pos[t])
  <2>1. Pos[t] # Pos[u]
    BY <1>2, ReadAssumption
  <2>2. Pos[t][1] # Pos[u][1] \/ Pos[t][2] # Pos[u][2]
    BY <1>1, <2>1
  <2> QED BY <1>1, <2>2 DEF Before
<1>3. \A t \in Txs : ~Before(Pos[t], Pos[t])
  BY <1>1 DEF Before
<1>4. \A t, u \in Txs : Before(Pos[t], Pos[u]) => ~Before(Pos[u], Pos[t])
  BY <1>1 DEF Before
<1>5. ASSUME NEW t \in Txs, NEW u \in Txs, NEW v \in Txs,
             Before(Pos[t], Pos[u]), Before(Pos[u], Pos[v])
      PROVE  Before(Pos[t], Pos[v])
  BY <1>1, <1>5 DEF Before
<1> QED BY <1>2, <1>3, <1>4, <1>5

\* A non-empty page has a last entry, behind all of its others.
LEMMA OldestOf ==
    ASSUME NEW page \in SUBSET Txs, page # {}
    PROVE  Oldest(page) \in page /\ \A u \in page : ~Before(Pos[u], Pos[Oldest(page)])
<1> DEFINE older == [t \in page |-> {u \in page : Before(Pos[u], Pos[t])}]
           size == [t \in page |-> Cardinality(older[t])]
<1>1. IsFiniteSet(page)
  BY FS_Subset, ReadAssumption
<1>2. \A t \in page : IsFiniteSet(older[t]) /\ size[t] \in Nat
  <2> TAKE t \in page
  <2>1. older[t] \in SUBSET page
    OBVIOUS
  <2>2. IsFiniteSet(older[t])
    BY <1>1, <2>1, FS_Subset
  <2> QED BY <2>2, FS_CardinalityType
<1>3. size \in [page -> Nat]
  BY <1>2
<1> HIDE DEF size
<1>4. PICK t \in page : \A u \in page : size[t] <= size[u]
  BY <1>3, LeastMeasure
<1>5. ASSUME NEW u \in page, Before(Pos[u], Pos[t]) PROVE FALSE
  <2>1. older[u] \subseteq older[t] /\ u \in older[t] /\ u \notin older[u]
    BY <1>5, Order
  <2>2. older[u] \in SUBSET older[t] /\ older[u] # older[t]
    BY <2>1
  <2> HIDE DEF older
  <2>3. Cardinality(older[u]) <= Cardinality(older[t])
        /\ Cardinality(older[t]) # Cardinality(older[u])
    BY <1>2, <2>2, FS_Subset
  <2>4. size[u] = Cardinality(older[u]) /\ size[t] = Cardinality(older[t])
    BY DEF size
  <2> QED BY <1>2, <1>4, <2>3, <2>4
<1>6. \E x \in page : \A u \in page : ~Before(Pos[u], Pos[x])
  BY <1>5
<1> QED BY <1>6 DEF Oldest

LEMMA LastOfPage ==
    ASSUME NEW page \in SUBSET Txs, page # {}
    PROVE  \E t \in page : LastPos(page) = Pos[t] /\ \A u \in page : ~Before(Pos[u], Pos[t])
BY OldestOf DEF LastPos

\* A transition the page leaves out: the page is full, and all of it is newer.
LEMMA LeftOut ==
    ASSUME NEW rest \in SUBSET Txs, NEW limit \in Nat \ {0}, NEW t \in rest,
           NEW page,
           page = {u \in rest : Cardinality({v \in rest : Before(Pos[u], Pos[v])}) < limit},
           t \notin page
    PROVE  /\ ~(Cardinality(page) < limit)
           /\ page # {}
           /\ \A u \in page : Before(Pos[t], Pos[u])
<1> DEFINE newer == [u \in rest |-> {v \in rest : Before(Pos[u], Pos[v])}]
           size == [u \in rest |-> Cardinality(newer[u])]
<1>1. IsFiniteSet(rest)
  BY FS_Subset, ReadAssumption
<1>2. \A u \in rest : newer[u] \in SUBSET rest /\ IsFiniteSet(newer[u]) /\ Cardinality(newer[u]) \in Nat
  <2> TAKE u \in rest
  <2>1. newer[u] \in SUBSET rest
    OBVIOUS
  <2>2. IsFiniteSet(newer[u])
    BY <1>1, <2>1, FS_Subset
  <2> QED BY <2>1, <2>2, FS_CardinalityType
<1>3. page = {u \in rest : Cardinality(newer[u]) < limit}
  OBVIOUS
<1>4. \A u, v \in rest : v \in newer[u] <=> Before(Pos[u], Pos[v])
  OBVIOUS
<1> HIDE DEF newer
<1>5. ASSUME NEW u \in rest, NEW v \in rest, Before(Pos[u], Pos[v])
      PROVE  Cardinality(newer[v]) < Cardinality(newer[u])
  <2>1. newer[v] \in SUBSET newer[u] /\ newer[v] # newer[u]
    BY <1>2, <1>4, <1>5, Order
  <2>2. Cardinality(newer[v]) <= Cardinality(newer[u])
        /\ Cardinality(newer[u]) # Cardinality(newer[v])
    BY <1>2, <2>1, FS_Subset
  <2> QED BY <1>2, <2>2
<1>6. ASSUME NEW u \in page PROVE Before(Pos[t], Pos[u])
  <2>1. u \in rest /\ Cardinality(newer[u]) < limit /\ ~(Cardinality(newer[t]) < limit)
    BY <1>3
  <2>2. u # t
    BY <2>1
  <2>3. CASE Before(Pos[u], Pos[t])
    <3>1. Cardinality(newer[t]) < Cardinality(newer[u])
      BY <1>5, <2>1, <2>3
    <3> QED BY <1>2, <2>1, <3>1
  <2> QED BY <2>1, <2>2, <2>3, Order
<1>7. Cardinality(newer[t]) >= limit
  BY <1>2, <1>3
<1> DEFINE out == {u \in rest : ~(Cardinality(newer[u]) < limit)}
<1>8. t \in out /\ out = rest \ page
  BY <1>3
<1>9. PICK f \in out : \A u \in out : Cardinality(newer[f]) <= Cardinality(newer[u])
  <2> DEFINE m == [u \in out |-> Cardinality(newer[u])]
  <2>1. m \in [out -> Nat] /\ out # {}
    BY <1>2, <1>8
  <2> HIDE DEF m, out
  <2>2. PICK f \in out : \A u \in out : m[f] <= m[u]
    BY <2>1, LeastMeasure
  <2> QED BY <2>2 DEF m
<1>10. newer[f] \in SUBSET page
  <2> SUFFICES ASSUME NEW u \in newer[f], u \notin page PROVE FALSE
    OBVIOUS
  <2>1. u \in rest /\ Before(Pos[f], Pos[u])
    BY <1>2, <1>4
  <2>2. u \in out
    BY <1>8, <2>1
  <2>3. Cardinality(newer[u]) < Cardinality(newer[f])
    BY <1>5, <2>1
  <2> QED BY <1>2, <1>9, <2>1, <2>2, <2>3
<1>11. IsFiniteSet(page)
  BY <1>1, <1>3, FS_Subset
<1>12. Cardinality(newer[f]) <= Cardinality(page) /\ Cardinality(page) \in Nat
  BY <1>10, <1>11, FS_Subset, FS_CardinalityType
<1>13. ~(Cardinality(page) < limit)
  BY <1>2, <1>9, <1>12
<1>14. page # {}
  <2>1. Cardinality({}) = 0 /\ 0 < limit
    BY FS_EmptySet
  <2> QED BY <1>13, <2>1
<1> QED BY <1>6, <1>13, <1>14

-----------------------------------------------------------------------------
(* The inductive invariant of a client's history *)

Scrolls ==
    [pc : {"idle", "rows", "cells", "count", "done"}, address : Addresses \cup {"none"},
     limit : 1 .. MaxPageSize, cursor : {<<>>} \cup (Nat \X Nat), page : SUBSET Txs,
     entries : SUBSET [tx : Txs, received : SUBSET Cells, sent : SUBSET Cells],
     due : SUBSET Txs, quiet : BOOLEAN, whole : BOOLEAN]

Listings ==
    [pc : {"idle", "page", "done"}, kind : {"all", "udt", "dob", "unknown"},
     limit : 1 .. MaxPageSize, offset : Nat, waits : SUBSET Queries, more : BOOLEAN,
     got : SUBSET Assets, again : SUBSET Assets, quiet : BOOLEAN]

Polls ==
    [pc : {"idle", "resolve", "source", "lookup", "transitions", "cells", "done"},
     txid : Txids \cup {NoTxid},
     resolution : {"none", "indexed", "unknown_btc_tx", "ckb_seen_above_lag", "awaiting_ckb"},
     named : Txs \cup {NoTx}, from : 0 .. MaxTip, seen : 0 .. MaxTip,
     transitions : SUBSET Txs, cells : SUBSET Cells, before : Txs \cup {NoTx}]

TypeInv ==
    /\ tip \in 0 .. MaxTip
    /\ labelled \subseteq Seals /\ spent \subseteq Seals
    /\ scroll \in Scrolls
    /\ listing \in Listings
    /\ poll \in Polls /\ (poll.pc # "idle" => poll.txid \in Txids)

\* What was due when the reading began is still there.
DueInv == scroll.due \subseteq Touched(scroll.address)

\* What was sent lies before the cursor, or on the page being sent.
SentInv ==
    /\ scroll.pc \in {"rows", "cells"} =>
          \A t \in EntryTxs(scroll.entries) : ~AfterCursor(t, scroll.cursor)
    /\ scroll.pc = "count" =>
          \A t \in EntryTxs(scroll.entries) : t \in scroll.page \/ ~AfterCursor(t, scroll.cursor)
    /\ scroll.pc \in {"cells", "count"} =>
          \A t \in scroll.page : AfterCursor(t, scroll.cursor)

\* What is due was sent, is on the page, or lies behind it.
AheadInv ==
    \A t \in scroll.due \ EntryTxs(scroll.entries) :
        /\ scroll.pc = "rows" => AfterCursor(t, scroll.cursor)
        /\ scroll.pc = "cells" =>
              \/ t \in scroll.page
              \/ /\ scroll.page # {} /\ ~ReachedEnd(scroll.page, scroll.limit)
                 /\ Before(Pos[t], LastPos(scroll.page))
        /\ scroll.pc = "count" =>
              /\ scroll.page # {} /\ ~ReachedEnd(scroll.page, scroll.limit)
              /\ Before(Pos[t], LastPos(scroll.page))
        /\ scroll.pc # "done"

ScrollInv == TypeInv /\ DueInv /\ SentInv /\ AheadInv

-----------------------------------------------------------------------------
(* The writers *)

\* An address is touched by ever more transitions.
LEMMA TouchedGrows ==
    ASSUME tip \in Int, tip' \in Int, tip <= tip', labelled \subseteq labelled', NEW a
    PROVE  Touched(a) \subseteq Touched(a)'
<1>1. \A t \in Txs : Indexed(t) => Indexed(t)'
  BY ReadAssumption DEF Indexed
<1>2. \A c \in Cells : c \in CellRows => c \in CellRows'
  <2>1. \A c \in Cells : Indexed(CreatedBy[c]) => Indexed(CreatedBy[c])'
    BY <1>1, ReadAssumption DEF Indexed
  <2>2. \A c \in Cells : Indexed(ConsumedBy[c]) => Indexed(ConsumedBy[c])'
    BY <1>1, ReadAssumption DEF Indexed
  <2> QED BY <2>1, <2>2 DEF CellRows
<1>3. Owned(a) \subseteq Owned(a)'
  BY <1>2 DEF Owned, CellRows
<1> QED BY <1>1, <1>3 DEF Touched

\* A step that leaves the client alone and only adds to the index.
LEMMA Frame ==
    ASSUME TypeInv, DueInv, SentInv, AheadInv,
           tip' \in Int, tip <= tip', labelled \subseteq labelled',
           scroll'.pc = scroll.pc, scroll'.address = scroll.address,
           scroll'.limit = scroll.limit, scroll'.cursor = scroll.cursor,
           scroll'.page = scroll.page, scroll'.entries = scroll.entries,
           scroll'.due = scroll.due
    PROVE  DueInv' /\ SentInv' /\ AheadInv'
<1>1. DueInv'
  <2>1. tip \in Int
    BY DEF TypeInv
  <2>2. PICK b : b = scroll.address
    OBVIOUS
  <2>3. Touched(b) \subseteq Touched(b)'
    BY <2>1, TouchedGrows
  <2>4. scroll.due \subseteq Touched(b)
    BY <2>2 DEF DueInv
  <2>5. scroll'.due \subseteq Touched(b)'
    BY <2>3, <2>4
  <2>6. b = scroll'.address
    BY <2>2
  <2> QED BY <2>5, <2>6 DEF DueInv, Touched, Owned
<1>2. SentInv'
  BY DEF SentInv
<1>3. AheadInv'
  BY DEF AheadInv
<1> QED BY <1>1, <1>2, <1>3

-----------------------------------------------------------------------------
(* The client *)

\* A fresh history owes what is there.
LEMMA StartStep ==
    ASSUME TypeInv, NEW a, NEW n, StartScroll(a, n)
    PROVE  DueInv' /\ SentInv' /\ AheadInv'
<1>1. /\ scroll'.pc = "rows" /\ scroll'.address = a /\ scroll'.cursor = <<>>
      /\ scroll'.entries = {} /\ scroll'.due = Touched(a)
      /\ tip' = tip /\ labelled' = labelled
  BY DEF StartScroll, Idle
<1>2. Touched(a)' = Touched(a)
  BY <1>1 DEF Touched, Owned, CellRows, Indexed
<1>3. DueInv'
  BY <1>1, <1>2 DEF DueInv, Touched, Owned
<1>4. EntryTxs(scroll'.entries) = {}
  BY <1>1 DEF EntryTxs
<1>5. SentInv'
  BY <1>1, <1>4 DEF SentInv, EntryTxs
<1>6. AheadInv'
  BY <1>1 DEF AheadInv, AfterCursor
<1> QED BY <1>3, <1>5, <1>6

\* The transitions of a page.
LEMMA RowsStep ==
    ASSUME TypeInv, DueInv, SentInv, AheadInv, ReadRows
    PROVE  /\ scroll'.page \in SUBSET Txs
           /\ DueInv' /\ SentInv' /\ AheadInv'
<1> DEFINE rest == {t \in Touched(scroll.address) : AfterCursor(t, scroll.cursor)}
<1>1. /\ scroll.pc = "rows" /\ scroll'.pc = "cells" /\ scroll'.address = scroll.address
      /\ scroll'.cursor = scroll.cursor /\ scroll'.limit = scroll.limit
      /\ scroll'.entries = scroll.entries /\ scroll'.due = scroll.due
      /\ scroll'.page = ActivityPage(scroll.address, scroll.cursor, scroll.limit)
      /\ tip' = tip /\ labelled' = labelled
  BY DEF ReadRows, TypeInv, Scrolls
<1>2. scroll'.page = {t \in rest : Cardinality({u \in rest : Before(Pos[t], Pos[u])}) < scroll.limit}
  BY <1>1 DEF ActivityPage
<1>3. rest \in SUBSET Txs /\ scroll.limit \in Nat \ {0}
  BY ReadAssumption DEF Touched, TypeInv, Scrolls
<1>4. scroll'.page \subseteq rest
  BY <1>2
<1>5. DueInv'
  <2>1. tip \in Int /\ tip' \in Int /\ tip <= tip'
    BY <1>1, ReadAssumption DEF TypeInv
  <2> QED BY <1>1, <2>1 DEF DueInv, Touched, Owned, CellRows, Indexed
<1>6. SentInv'
  <2>1. \A t \in EntryTxs(scroll.entries) : ~AfterCursor(t, scroll.cursor)
    BY <1>1 DEF SentInv
  <2>2. \A t \in scroll'.page : AfterCursor(t, scroll.cursor)
    BY <1>4
  <2> QED BY <1>1, <2>1, <2>2 DEF SentInv
<1>7. ASSUME NEW t \in scroll.due \ EntryTxs(scroll.entries), t \notin scroll'.page
      PROVE  /\ scroll'.page # {} /\ ~ReachedEnd(scroll'.page, scroll'.limit)
             /\ Before(Pos[t], LastPos(scroll'.page))
  <2>1. t \in rest
    BY <1>1, <1>7 DEF DueInv, AheadInv
  <2> DEFINE limit == scroll.limit
             page == scroll'.page
  <2>2. /\ ~(Cardinality(scroll'.page) < scroll.limit)
        /\ scroll'.page # {}
        /\ \A u \in scroll'.page : Before(Pos[t], Pos[u])
    <3> HIDE DEF rest
    <3> QED BY <1>2, <1>3, <1>7, <2>1, LeftOut
  <2>3. PICK u \in scroll'.page : LastPos(scroll'.page) = Pos[u]
    BY <1>3, <1>4, <2>2, LastOfPage
  <2> QED BY <1>1, <2>2, <2>3 DEF ReachedEnd
<1>8. AheadInv'
  BY <1>1, <1>7 DEF AheadInv
<1> QED BY <1>3, <1>4, <1>5, <1>6, <1>8

\* The cells of a page: its transitions are sent.
LEMMA CellsStep ==
    ASSUME TypeInv, DueInv, SentInv, AheadInv, ReadCells
    PROVE  DueInv' /\ SentInv' /\ AheadInv'
<1>1. /\ scroll.pc = "cells" /\ scroll'.pc = "count" /\ scroll'.address = scroll.address
      /\ scroll'.cursor = scroll.cursor /\ scroll'.limit = scroll.limit
      /\ scroll'.page = scroll.page /\ scroll'.due = scroll.due
      /\ scroll'.entries = scroll.entries \cup {Entry(scroll.address, t) : t \in scroll.page}
      /\ tip' = tip /\ labelled' = labelled
  BY DEF ReadCells, TypeInv, Scrolls
<1>2. \A t \in scroll.page : Entry(scroll.address, t).tx = t
  BY DEF Entry
<1>3. EntryTxs(scroll'.entries) = EntryTxs(scroll.entries) \cup scroll.page
  BY <1>1, <1>2 DEF EntryTxs
<1>4. DueInv'
  BY <1>1 DEF DueInv, Touched, Owned, CellRows, Indexed
<1>5. SentInv'
  BY <1>1, <1>3 DEF SentInv
<1>6. AheadInv'
  BY <1>1, <1>3 DEF AheadInv
<1> QED BY <1>4, <1>5, <1>6

\* The end of a page: the cursor moves to its last entry, or the history ends.
LEMMA CountStep ==
    ASSUME TypeInv, DueInv, SentInv, AheadInv, ReadUnresolved
    PROVE  /\ scroll'.cursor \in {<<>>} \cup (Nat \X Nat)
           /\ DueInv' /\ SentInv' /\ AheadInv'
<1>1. /\ scroll.pc = "count" /\ scroll'.address = scroll.address
      /\ scroll'.limit = scroll.limit /\ scroll'.entries = scroll.entries
      /\ scroll'.page = scroll.page /\ scroll'.due = scroll.due
      /\ scroll'.pc = (IF ReachedEnd(scroll.page, scroll.limit) \/ scroll.page = {}
                       THEN "done" ELSE "rows")
      /\ scroll'.cursor = (IF scroll.page = {} THEN scroll.cursor ELSE LastPos(scroll.page))
      /\ tip' = tip /\ labelled' = labelled
  BY DEF ReadUnresolved, TypeInv, Scrolls
<1>2. /\ scroll.page \in SUBSET Txs /\ scroll.cursor \in {<<>>} \cup (Nat \X Nat)
      /\ EntryTxs(scroll.entries) \subseteq Txs /\ scroll.due \subseteq Txs
  BY DEF TypeInv, Scrolls, EntryTxs
<1>3. DueInv'
  BY <1>1 DEF DueInv, Touched, Owned, CellRows, Indexed
<1>4. CASE ReachedEnd(scroll.page, scroll.limit) \/ scroll.page = {}
  <2>1. scroll'.pc = "done"
    BY <1>1, <1>4
  <2>2. scroll'.cursor \in {<<>>} \cup (Nat \X Nat)
    <3>1. CASE scroll.page = {}
      BY <1>1, <1>2, <3>1
    <3>2. CASE scroll.page # {}
      <4>1. PICK l \in scroll.page : LastPos(scroll.page) = Pos[l]
        BY <1>2, <3>2, LastOfPage
      <4> QED BY <1>1, <1>2, <3>2, <4>1, ReadAssumption
    <3> QED BY <3>1, <3>2
  <2>3. SentInv'
    BY <2>1 DEF SentInv
  <2>4. AheadInv'
    BY <1>1, <1>4, <2>1 DEF AheadInv
  <2> QED BY <1>3, <2>2, <2>3, <2>4
<1>5. CASE ~(ReachedEnd(scroll.page, scroll.limit) \/ scroll.page = {})
  <2>1. PICK l \in scroll.page : /\ LastPos(scroll.page) = Pos[l]
                                 /\ \A u \in scroll.page : ~Before(Pos[u], Pos[l])
    BY <1>2, <1>5, LastOfPage
  <2>2. scroll'.pc = "rows" /\ scroll'.cursor = Pos[l] /\ l \in Txs
    BY <1>1, <1>2, <1>5, <2>1
  <2>3. Pos[l] \in Nat \X Nat /\ Pos[l] # <<>>
    <3>1. Pos[l] \in Nat \X Nat
      BY <2>2, ReadAssumption
    <3>2. \A p \in Nat \X Nat : Len(p) = 2
      OBVIOUS
    <3>3. Len(<<>>) = 0
      OBVIOUS
    <3> QED BY <3>1, <3>2, <3>3, SMTT(30)
  <2>4. ASSUME NEW t \in EntryTxs(scroll.entries) PROVE ~AfterCursor(t, Pos[l])
    <3>1. CASE t \in scroll.page
      BY <2>1, <2>3, <3>1 DEF AfterCursor
    <3>2. CASE ~AfterCursor(t, scroll.cursor)
      <4>1. scroll.cursor # <<>> /\ ~Before(Pos[t], scroll.cursor)
        BY <3>2 DEF AfterCursor
      <4>2. AfterCursor(l, scroll.cursor)
        BY <1>1, <2>1 DEF SentInv
      <4>3. Before(Pos[l], scroll.cursor)
        BY <4>1, <4>2 DEF AfterCursor
      <4>4. scroll.cursor \in Nat \X Nat /\ Pos[t] \in Nat \X Nat
        BY <1>2, <2>4, <4>1, ReadAssumption
      <4>5. ~Before(Pos[t], Pos[l])
        BY <2>3, <4>1, <4>3, <4>4 DEF Before
      <4> QED BY <2>3, <4>5 DEF AfterCursor
    <3> QED BY <1>1, <3>1, <3>2 DEF SentInv
  <2>5. SentInv'
    BY <1>1, <2>2, <2>4 DEF SentInv
  <2>6. AheadInv'
    BY <1>1, <2>1, <2>2 DEF AheadInv, AfterCursor
  <2> QED BY <1>3, <2>2, <2>3, <2>5, <2>6
<1> QED BY <1>4, <1>5

\* A client that is done, or that never came, owes nothing.
LEMMA IdleStep ==
    ASSUME TypeInv', scroll' = Idle
    PROVE  DueInv' /\ SentInv' /\ AheadInv'
<1>1. scroll'.pc = "idle" /\ scroll'.due = {} /\ scroll'.entries = {}
  BY DEF Idle
<1> QED BY <1>1 DEF DueInv, SentInv, AheadInv

-----------------------------------------------------------------------------
(* Types *)

\* AppState::page_size keeps a page between one entry and the maximum.
LEMMA PageSizeType ==
    ASSUME NEW n \in Limits
    PROVE  PageSize(n) \in 1 .. MaxPageSize
<1>1. n \in Int /\ MaxPageSize \in Nat \ {0}
  BY ReadAssumption
<1> QED BY <1>1 DEF PageSize

LEMMA IdleType == Idle \in Scrolls /\ NoListing \in Listings /\ NoPoll \in Polls
<1>1. 1 \in 1 .. MaxPageSize /\ 0 \in 0 .. MaxTip
  BY ReadAssumption
<1>2. Idle \in Scrolls
  BY <1>1 DEF Idle, Scrolls
<1>3. NoListing \in Listings
  BY <1>1 DEF NoListing, Listings, Queries
<1>4. NoPoll \in Polls
  BY <1>1 DEF NoPoll, Polls
<1> QED BY <1>2, <1>3, <1>4

LEMMA InitTypes == Init => TypeInv
<1>1. 0 \in 0 .. MaxTip
  BY ReadAssumption
<1>2. NoPoll.pc = "idle"
  BY DEF NoPoll
<1> QED BY <1>1, <1>2, IdleType DEF Init, TypeInv

\* The writers.
LEMMA WriterTypes ==
    ASSUME TypeInv, CommitBlock \/ \E s \in Seals : Label(s) \/ Observe(s)
    PROVE  TypeInv'
<1>1. ASSUME Disturb PROVE scroll' \in Scrolls /\ listing' \in Listings /\ poll' = poll
  BY <1>1 DEF Disturb, TypeInv, Scrolls, Listings
<1>2. CASE CommitBlock
  <2>1. tip' \in 0 .. MaxTip
    BY <1>2, ReadAssumption DEF CommitBlock, TypeInv
  <2> QED BY <1>1, <1>2, <2>1 DEF CommitBlock, TypeInv
<1>3. ASSUME NEW s \in Seals, Label(s) PROVE TypeInv'
  BY <1>1, <1>3 DEF Label, TypeInv
<1>4. ASSUME NEW s \in Seals, Observe(s) PROVE TypeInv'
  BY <1>4 DEF Observe, TypeInv
<1> QED BY <1>2, <1>3, <1>4

\* The client of a history.
LEMMA ScrollTypes ==
    ASSUME TypeInv, DueInv, SentInv, AheadInv,
           \/ \E a \in Addresses, n \in Limits : StartScroll(a, n)
           \/ ReadRows \/ ReadCells \/ ReadUnresolved \/ Forget
    PROVE  TypeInv'
<1>1. ASSUME scroll' \in Scrolls, UNCHANGED <<tip, labelled, spent, listing, poll>> PROVE TypeInv'
  BY <1>1 DEF TypeInv
<1>2. ASSUME NEW a \in Addresses, NEW n \in Limits, StartScroll(a, n) PROVE TypeInv'
  <2>1. PageSize(n) \in 1 .. MaxPageSize
    BY PageSizeType
  <2>2. Touched(a) \in SUBSET Txs
    BY DEF Touched
  <2>3. scroll' \in Scrolls
    BY <1>2, <2>1, <2>2, IdleType DEF StartScroll, Scrolls
  <2> QED BY <1>1, <1>2, <2>3 DEF StartScroll
<1>3. CASE ReadRows
  <2>1. scroll'.page \in SUBSET Txs
    BY <1>3, RowsStep
  <2>2. scroll' = [scroll EXCEPT !.pc = "cells", !.page = scroll'.page]
    BY <1>3 DEF ReadRows, TypeInv, Scrolls
  <2>3. scroll' \in Scrolls
    BY <2>1, <2>2 DEF TypeInv, Scrolls
  <2> QED BY <1>1, <1>3, <2>3 DEF ReadRows
<1>4. CASE ReadCells
  <2> DEFINE new == {Entry(scroll.address, t) : t \in scroll.page}
  <2>1. scroll.page \in SUBSET Txs
    BY DEF TypeInv, Scrolls
  <2>2. \A t \in Txs : Entry(scroll.address, t) \in
            [tx : Txs, received : SUBSET Cells, sent : SUBSET Cells]
    BY DEF Entry, Owned, CellRows
  <2>3. new \in SUBSET [tx : Txs, received : SUBSET Cells, sent : SUBSET Cells]
    BY <2>1, <2>2
  <2>4. scroll' = [scroll EXCEPT !.pc = "count", !.entries = @ \cup new]
    BY <1>4 DEF ReadCells
  <2> HIDE DEF new
  <2>5. scroll' \in Scrolls
    BY <2>3, <2>4 DEF TypeInv, Scrolls
  <2> QED BY <1>1, <1>4, <2>5 DEF ReadCells
<1>5. CASE ReadUnresolved
  <2>1. scroll'.cursor \in {<<>>} \cup (Nat \X Nat)
    BY <1>5, CountStep
  <2>2. /\ scroll' = [scroll EXCEPT !.pc = scroll'.pc, !.cursor = scroll'.cursor,
                                    !.whole = scroll'.whole]
        /\ scroll'.pc \in {"rows", "done"}
        /\ scroll'.whole = (scroll.whole /\ Unresolved = {})
    BY <1>5 DEF ReadUnresolved, TypeInv, Scrolls
  <2>3. scroll' \in Scrolls
    BY <2>1, <2>2 DEF TypeInv, Scrolls
  <2> QED BY <1>1, <1>5, <2>3 DEF ReadUnresolved
<1>6. CASE Forget
  BY <1>1, <1>6, IdleType DEF Forget
<1> QED BY <1>2, <1>3, <1>4, <1>5, <1>6

\* The client of the asset list.
LEMMA ListingTypes ==
    ASSUME TypeInv,
           \/ \E k \in {"all", "udt", "dob", "unknown"}, n \in Limits : StartListing(k, n)
           \/ ListRows \/ ListTotal \/ NextAssets \/ ForgetListing
    PROVE  /\ TypeInv'
           /\ UNCHANGED <<tip, labelled, spent, scroll, poll>>
<1>1. ASSUME listing' \in Listings, UNCHANGED <<tip, labelled, spent, scroll, poll>> PROVE TypeInv'
  BY <1>1 DEF TypeInv
<1>2. ASSUME NEW k \in {"all", "udt", "dob", "unknown"}, NEW n \in Limits, StartListing(k, n)
      PROVE  listing' \in Listings /\ UNCHANGED <<tip, labelled, spent, scroll, poll>>
  <2>1. PageSize(n) \in 1 .. MaxPageSize
    BY PageSizeType
  <2> QED BY <1>2, <2>1, IdleType DEF StartListing, Listings
<1>3. CASE ListRows
  <2> DEFINE page == AssetPage(KindsOf(listing.kind), listing.limit, listing.offset)
  <2>1. page \subseteq Assets
    BY DEF AssetPage, AssetsOfKinds
  <2>2. listing' = [listing EXCEPT !.waits = @ \ {"rows"}, !.got = @ \cup page,
                                   !.again = @ \cup (listing.got \cap page)]
    BY <1>3 DEF ListRows
  <2> HIDE DEF page
  <2>3. listing' \in Listings
    BY <2>1, <2>2 DEF TypeInv, Listings
  <2> QED BY <1>1, <1>3, <2>3 DEF ListRows
<1>4. CASE ListTotal
  <2> DEFINE more == listing.offset + listing.limit < CountAssets(KindsOf(listing.kind))
  <2>1. more \in BOOLEAN
    OBVIOUS
  <2>2. listing' = [listing EXCEPT !.waits = @ \ {"total"}, !.more = more]
    BY <1>4 DEF ListTotal
  <2> HIDE DEF more
  <2>3. listing' \in Listings
    BY <2>1, <2>2 DEF TypeInv, Listings
  <2> QED BY <1>1, <1>4, <2>3 DEF ListTotal
<1>5. CASE NextAssets
  <2>1. listing.offset + listing.limit \in Nat
    BY DEF TypeInv, Listings
  <2>2. listing' \in Listings
    BY <1>5, <2>1 DEF NextAssets, TypeInv, Listings
  <2> QED BY <1>1, <1>5, <2>2 DEF NextAssets
<1>6. CASE ForgetListing
  BY <1>1, <1>6, IdleType DEF ForgetListing
<1> QED BY <1>1, <1>2, <1>3, <1>4, <1>5, <1>6

\* The outputs looked up are not none.
LEMMA LookedUpType ==
    ASSUME NEW x \in Txids
    PROVE  LastLookedUp(x) \in Nat /\ 0 \in LookedUp(x) /\ LastLookedUp(x) \in LookedUp(x)
<1>1. OutCount[x] \in Nat \ {0} /\ MaxLookup \in Nat \ {0}
  BY ReadAssumption
<1>2. LastLookedUp(x) \in Nat
  BY <1>1 DEF LastLookedUp
<1> QED BY <1>2 DEF LookedUp

\* The client of a transaction's status.
LEMMA PollTypes ==
    ASSUME TypeInv,
           \/ \E x \in Txids : StartPoll(x)
           \/ ResolveIndexed \/ ResolveSource \/ ResolveLookup
           \/ ReadTransitions \/ ReadTxidCells \/ PollAgain \/ EndPoll
    PROVE  /\ TypeInv'
           /\ UNCHANGED <<tip, labelled, spent, scroll, listing>>
<1> DEFINE Typed == poll' \in Polls /\ (poll'.pc # "idle" => poll'.txid \in Txids)
<1>1. UNCHANGED <<tip, labelled, spent, scroll, listing>>
  BY DEF StartPoll, ResolveIndexed, ResolveSource, ResolveLookup, ReadTransitions,
         ReadTxidCells, PollAgain, EndPoll
<1> SUFFICES Typed
  BY <1>1 DEF TypeInv
<1>2. ASSUME NEW x \in Txids, StartPoll(x) PROVE Typed
  BY <1>2, IdleType DEF StartPoll, Polls
<1>3. CASE ResolveIndexed
  <2>1. TransitionsOf(poll.txid) \in SUBSET Txs
    BY DEF TransitionsOf
  <2>2. CASE TransitionsOf(poll.txid) = {}
    BY <1>3, <2>2 DEF ResolveIndexed, TypeInv, Polls
  <2>3. CASE TransitionsOf(poll.txid) # {}
    <3>1. PICK t : t = Oldest(TransitionsOf(poll.txid))
      OBVIOUS
    <3>2. t \in Txs
      BY <2>1, <2>3, <3>1, OldestOf
    <3>3. poll.pc = "resolve" /\ poll' = [poll EXCEPT !.pc = "transitions",
                                              !.resolution = "indexed", !.named = t]
      BY <1>3, <2>3, <3>1 DEF ResolveIndexed
    <3> QED BY <3>2, <3>3 DEF TypeInv, Polls
  <2> QED BY <2>2, <2>3
<1>4. CASE ResolveSource
  BY <1>4 DEF ResolveSource, Resolved, TypeInv, Polls
<1>5. CASE ResolveLookup
  <2>1. PICK height \in [LookedUp(poll.txid) -> tip .. MaxTip],
             r \in {"ckb_seen_above_lag", "awaiting_ckb"} :
           poll' = [poll EXCEPT !.pc = "transitions", !.named = NoTx, !.from = height[0],
                                !.seen = height[LastLookedUp(poll.txid)], !.resolution = r]
    BY <1>5 DEF ResolveLookup
  <2>2. poll.txid \in Txids
    BY <1>5 DEF ResolveLookup, TypeInv
  <2>3. height[0] \in 0 .. MaxTip /\ height[LastLookedUp(poll.txid)] \in 0 .. MaxTip
    <3>1. 0 \in LookedUp(poll.txid) /\ LastLookedUp(poll.txid) \in LookedUp(poll.txid)
      BY <2>2, LookedUpType
    <3>2. tip .. MaxTip \subseteq 0 .. MaxTip
      BY ReadAssumption DEF TypeInv
    <3> QED BY <3>1, <3>2
  <2>4. PICK a, b : a = height[0] /\ b = height[LastLookedUp(poll.txid)]
    OBVIOUS
  <2>5. poll' = [poll EXCEPT !.pc = "transitions", !.named = NoTx, !.from = a, !.seen = b,
                             !.resolution = r]
    BY <2>1, <2>4
  <2>6. a \in 0 .. MaxTip /\ b \in 0 .. MaxTip
    BY <2>3, <2>4
  <2> QED BY <2>1, <2>2, <2>5, <2>6 DEF TypeInv, Polls
<1>6. CASE ReadTransitions
  <2>1. TransitionsOf(poll.txid) \in SUBSET Txs
    BY DEF TransitionsOf
  <2> QED BY <1>6, <2>1 DEF ReadTransitions, TypeInv, Polls
<1>7. CASE ReadTxidCells
  <2>1. CellsOfTxid(poll.txid) \in SUBSET Cells
    BY DEF CellsOfTxid, CellRows
  <2> QED BY <1>7, <2>1 DEF ReadTxidCells, TypeInv, Polls
<1>8. CASE PollAgain
  BY <1>8, IdleType DEF PollAgain, TypeInv, Polls
<1>9. CASE EndPoll
  <2>1. NoPoll.pc = "idle"
    BY DEF NoPoll
  <2> QED BY <1>9, <2>1, IdleType DEF EndPoll
<1> QED BY <1>2, <1>3, <1>4, <1>5, <1>6, <1>7, <1>8, <1>9

-----------------------------------------------------------------------------
(* The theorems *)

LEMMA ScrollInit == Init => ScrollInv
<1> SUFFICES ASSUME Init PROVE ScrollInv
  OBVIOUS
<1>1. TypeInv
  BY InitTypes
<1>2. scroll.pc = "idle" /\ scroll.due = {} /\ scroll.entries = {}
  BY DEF Init, Idle
<1> QED BY <1>1, <1>2 DEF ScrollInv, DueInv, SentInv, AheadInv

LEMMA ScrollNext ==
    ASSUME ScrollInv, [Next]_vars
    PROVE  ScrollInv'
<1> USE DEF ScrollInv
<1>1. ASSUME TypeInv', UNCHANGED <<labelled, scroll>>, tip' = tip PROVE ScrollInv'
  <2>1. tip' \in Int /\ tip <= tip'
    BY <1>1, ReadAssumption DEF TypeInv
  <2> QED BY <1>1, <2>1, Frame
<1>2. CASE CommitBlock
  <2>1. TypeInv'
    BY <1>2, WriterTypes
  <2>2. tip' \in Int /\ tip <= tip' /\ labelled' = labelled
    BY <1>2, ReadAssumption DEF CommitBlock, TypeInv
  <2>3. /\ scroll'.pc = scroll.pc /\ scroll'.address = scroll.address
        /\ scroll'.limit = scroll.limit /\ scroll'.cursor = scroll.cursor
        /\ scroll'.page = scroll.page /\ scroll'.entries = scroll.entries
        /\ scroll'.due = scroll.due
    BY <1>2 DEF CommitBlock, Disturb, TypeInv, Scrolls
  <2> QED BY <2>1, <2>2, <2>3, Frame
<1>3. ASSUME NEW s \in Seals, Label(s) PROVE ScrollInv'
  <2>1. TypeInv'
    BY <1>3, WriterTypes
  <2>2. tip' \in Int /\ tip <= tip' /\ labelled \subseteq labelled'
    BY <1>3, ReadAssumption DEF Label, TypeInv
  <2>3. /\ scroll'.pc = scroll.pc /\ scroll'.address = scroll.address
        /\ scroll'.limit = scroll.limit /\ scroll'.cursor = scroll.cursor
        /\ scroll'.page = scroll.page /\ scroll'.entries = scroll.entries
        /\ scroll'.due = scroll.due
    BY <1>3 DEF Label, Disturb, TypeInv, Scrolls
  <2> QED BY <2>1, <2>2, <2>3, Frame
<1>4. ASSUME NEW s \in Seals, Observe(s) PROVE ScrollInv'
  <2>1. TypeInv'
    BY <1>4, WriterTypes
  <2> QED BY <1>1, <1>4, <2>1 DEF Observe
<1>5. ASSUME NEW a \in Addresses, NEW n \in Limits, StartScroll(a, n) PROVE ScrollInv'
  <2>1. TypeInv'
    BY <1>5, ScrollTypes
  <2> QED BY <1>5, <2>1, StartStep
<1>6. CASE ReadRows
  <2>1. TypeInv'
    BY <1>6, ScrollTypes
  <2> QED BY <1>6, <2>1, RowsStep
<1>7. CASE ReadCells
  <2>1. TypeInv'
    BY <1>7, ScrollTypes
  <2> QED BY <1>7, <2>1, CellsStep
<1>8. CASE ReadUnresolved
  <2>1. TypeInv'
    BY <1>8, ScrollTypes
  <2> QED BY <1>8, <2>1, CountStep
<1>9. CASE Forget
  <2>1. TypeInv'
    BY <1>9, ScrollTypes
  <2>2. scroll' = Idle
    BY <1>9 DEF Forget
  <2> QED BY <2>1, <2>2, IdleStep
<1>10. CASE \/ \E k \in {"all", "udt", "dob", "unknown"}, n \in Limits : StartListing(k, n)
            \/ ListRows \/ ListTotal \/ NextAssets \/ ForgetListing
  <2>1. TypeInv' /\ UNCHANGED <<tip, labelled, spent, scroll>>
    BY <1>10, ListingTypes
  <2> QED BY <1>1, <2>1
<1>11. CASE \/ \E x \in Txids : StartPoll(x)
            \/ ResolveIndexed \/ ResolveSource \/ ResolveLookup
            \/ ReadTransitions \/ ReadTxidCells \/ PollAgain \/ EndPoll
  <2>1. TypeInv' /\ UNCHANGED <<tip, labelled, spent, scroll>>
    BY <1>11, PollTypes
  <2> QED BY <1>1, <2>1
<1>12. CASE UNCHANGED vars
  <2>1. TypeInv'
    BY <1>12 DEF vars, TypeInv
  <2> QED BY <1>1, <1>12, <2>1 DEF vars
<1> QED
  BY <1>2, <1>3, <1>4, <1>5, <1>6, <1>7, <1>8, <1>9, <1>10, <1>11, <1>12 DEF Next

\* The history of one client, whatever is indexed or labelled meanwhile.
LEMMA Inductive == Spec => []ScrollInv
BY ScrollInit, ScrollNext, PTL DEF Spec

\* Types: the index as read and the three clients keep their types for every
\* index, page size and schedule of the requests (AppState::page_size keeps
\* limits in range, list_assets only returns assets).
THEOREM TypeCorrect == Spec => []TypeOK
<1>1. ScrollInv => TypeOK
  BY DEF ScrollInv, TypeInv, TypeOK, Scrolls, Listings, Polls
<1> QED BY <1>1, Inductive, PTL

\* activity.rs: a history read to its end has every transition that touched the
\* address when the reading began, however many blocks were indexed and seals
\* labelled between its pages, for every page size.
THEOREM Complete == Spec => []HistoryComplete
<1>1. ScrollInv => HistoryComplete
  BY DEF ScrollInv, AheadInv, HistoryComplete
<1> QED BY <1>1, Inductive, PTL

\* activity.rs: no page of a history repeats a transition of an earlier one.
THEOREM NoRepeats == Spec => NoRepeat
<1>1. ScrollInv /\ [Next]_vars =>
          [scroll.pc = "rows" /\ scroll'.pc = "cells" =>
               scroll'.page \cap EntryTxs(scroll.entries) = {}]_vars
  <2> SUFFICES ASSUME ScrollInv, [Next]_vars, scroll.pc = "rows", scroll'.pc = "cells"
               PROVE  scroll'.page \cap EntryTxs(scroll.entries) = {}
    OBVIOUS
  <2>1. scroll'.entries = scroll.entries /\ scroll'.cursor = scroll.cursor
    BY DEF Next, vars, CommitBlock, Label, Observe, Disturb, StartScroll, NoClient, ReadRows,
           ReadCells, ReadUnresolved, Forget, StartListing, ListRows, ListTotal, NextAssets,
           ForgetListing, StartPoll, ResolveIndexed, ResolveSource, ResolveLookup,
           ReadTransitions, ReadTxidCells, PollAgain, EndPoll, ScrollInv, TypeInv, Scrolls
  <2>2. SentInv'
    BY ScrollNext DEF ScrollInv
  <2>3. /\ \A t \in EntryTxs(scroll'.entries) : ~AfterCursor(t, scroll'.cursor)
        /\ \A t \in scroll'.page : AfterCursor(t, scroll'.cursor)
    BY <2>2 DEF SentInv
  <2> QED BY <2>1, <2>3
<1> QED BY <1>1, Inductive, PTL DEF Spec, NoRepeat

-----------------------------------------------------------------------------
(* The holders of an asset *)

\* Seals have no more owners than there are seals.
LEMMA OwnersFinite ==
    ASSUME NEW S \in SUBSET Seals
    PROVE  LET owners == {OwnerOf[s] : s \in S} IN
           /\ IsFiniteSet(owners) /\ Cardinality(owners) \in Nat
           /\ IsFiniteSet(S) /\ Cardinality(S) \in Nat
           /\ Cardinality(owners) <= Cardinality(S)
<1> DEFINE owners == {OwnerOf[s] : s \in S}
           f == [s \in S |-> OwnerOf[s]]
<1>1. IsFiniteSet(S)
  BY FS_Subset, ReadAssumption
<1>2. f \in [S -> owners] /\ \A o \in owners : \E s \in S : f[s] = o
  OBVIOUS
<1> HIDE DEF f, owners
<1>3. f \in Surjection(S, owners)
  BY <1>2 DEF Surjection
<1>4. IsFiniteSet(owners) /\ Cardinality(owners) <= Cardinality(S)
  BY <1>1, <1>3, FS_Surjection
<1>5. Cardinality(owners) \in Nat /\ Cardinality(S) \in Nat
  BY <1>1, <1>4, FS_CardinalityType
<1> QED BY <1>1, <1>4, <1>5 DEF owners

\* README and asset_summary_sql: holder_count is a floor on the holders of an
\* asset and, with unlabelled_seal_count, a ceiling, for every index, every
\* assignment of seals to addresses and any progress of the labelling.
THEOREM HoldersWithinBounds == Spec => []HoldersBounded
<1>1. HoldersBounded
  <2> SUFFICES ASSUME NEW a \in Assets
               PROVE  /\ HolderCount(a) <= Cardinality({OwnerOf[s] : s \in LiveSeals(a)})
                      /\ Cardinality({OwnerOf[s] : s \in LiveSeals(a)})
                             <= HolderCount(a) + UnlabelledSealCount(a)
    BY DEF HoldersBounded, LiveSeals, LiveRowsOf, RowsOf
  <2> DEFINE with == {OwnerOf[s] : s \in LiveSeals(a) \cap labelled}
             without == {OwnerOf[s] : s \in LiveSeals(a) \ labelled}
             all == {OwnerOf[s] : s \in LiveSeals(a)}
  <2>1. LiveSeals(a) \in SUBSET Seals
    BY ReadAssumption DEF LiveSeals, LiveRowsOf, RowsOf, CellRows
  <2>2. /\ LiveSeals(a) \cap labelled \in SUBSET Seals
        /\ LiveSeals(a) \ labelled \in SUBSET Seals
    BY <2>1
  <2>3. all = with \cup without
    OBVIOUS
  <2>4. /\ IsFiniteSet(with) /\ Cardinality(with) \in Nat
        /\ IsFiniteSet(without) /\ Cardinality(without) \in Nat
        /\ IsFiniteSet(all) /\ Cardinality(all) \in Nat
    BY <2>1, <2>2, OwnersFinite
  <2>5. /\ Cardinality(without) <= UnlabelledSealCount(a)
        /\ UnlabelledSealCount(a) \in Nat /\ HolderCount(a) = Cardinality(with)
    BY <2>2, OwnersFinite DEF UnlabelledSealCount, HolderCount
  <2> HIDE DEF all, with, without
  <2>6. Cardinality(with) <= Cardinality(all)
    BY <2>3, <2>4, FS_Subset
  <2>7. Cardinality(all) = Cardinality(with) + Cardinality(without) - Cardinality(with \cap without)
    BY <2>3, <2>4, FS_Union
  <2>8. Cardinality(with \cap without) \in Nat
    BY <2>4, FS_Subset, FS_CardinalityType
  <2>9. Cardinality(all) <= HolderCount(a) + UnlabelledSealCount(a)
    BY <2>4, <2>5, <2>7, <2>8
  <2> QED BY <2>5, <2>6, <2>9 DEF all
<1> QED BY <1>1, PTL

-----------------------------------------------------------------------------
(* Histories that nothing moved under *)

\* Undisturbed, a history owes exactly what touches its address; one that ended
\* with nothing unresolved still has nothing unresolved.
StoryInv ==
    /\ scroll.pc # "idle" /\ scroll.quiet => scroll.due = Touched(scroll.address)
    /\ scroll.pc = "done" /\ scroll.quiet /\ scroll.whole => Unresolved = {}

LEMMA SameIndex ==
    ASSUME tip' = tip, labelled' = labelled
    PROVE  (\A a : Touched(a)' = Touched(a)) /\ Unresolved' = Unresolved
<1>1. (\A t : Indexed(t)' = Indexed(t)) /\ CellRows' = CellRows
  BY DEF Indexed, CellRows
<1>2. \A a : Owned(a)' = Owned(a)
  BY <1>1 DEF Owned
<1> QED BY <1>1, <1>2 DEF Touched, Unresolved

\* A step of the client that stays within its history.
LEMMA StoryKept ==
    ASSUME StoryInv, tip' = tip, labelled' = labelled, scroll.pc # "idle",
           scroll'.due = scroll.due, scroll'.address = scroll.address,
           scroll'.quiet = scroll.quiet,
           scroll'.pc = "done" /\ scroll'.whole => Unresolved = {}
    PROVE  StoryInv'
<1>1. PICK b : b = scroll.address
  OBVIOUS
<1>2. Touched(b)' = Touched(b) /\ Unresolved' = Unresolved
  BY SameIndex
<1>3. scroll'.quiet => scroll'.due = Touched(b)'
  BY <1>1, <1>2 DEF StoryInv
<1>4. scroll'.pc = "done" /\ scroll'.whole => Unresolved' = {}
  BY <1>2
<1> QED BY <1>1, <1>3, <1>4 DEF StoryInv, Touched, Owned

LEMMA StoryNext ==
    ASSUME TypeInv, StoryInv, [Next]_vars
    PROVE  StoryInv'
<1>1. ASSUME UNCHANGED <<tip, labelled, scroll>> PROVE StoryInv'
  <2>1. (\A a : Touched(a)' = Touched(a)) /\ Unresolved' = Unresolved
    BY <1>1, SameIndex
  <2>2. PICK b : b = scroll.address
    OBVIOUS
  <2>3. scroll.pc # "idle" /\ scroll.quiet => scroll.due = Touched(b)'
    BY <2>1, <2>2 DEF StoryInv
  <2>4. scroll'.pc = "done" /\ scroll'.quiet /\ scroll'.whole => Unresolved' = {}
    BY <1>1, <2>1 DEF StoryInv
  <2> QED BY <1>1, <2>2, <2>3, <2>4 DEF StoryInv, Touched, Owned
<1>2. ASSUME Disturb PROVE StoryInv'
  <2>1. scroll'.quiet = FALSE
    BY <1>2 DEF Disturb, TypeInv, Scrolls
  <2> QED BY <2>1 DEF StoryInv
<1>3. CASE CommitBlock
  BY <1>2, <1>3 DEF CommitBlock
<1>4. ASSUME NEW s \in Seals, Label(s) \/ Observe(s) PROVE StoryInv'
  BY <1>1, <1>2, <1>4 DEF Label, Observe
<1>5. ASSUME NEW a, NEW n, StartScroll(a, n) PROVE StoryInv'
  <2>1. /\ scroll'.pc = "rows" /\ scroll'.address = a /\ scroll'.due = Touched(a)
        /\ tip' = tip /\ labelled' = labelled
    BY <1>5 DEF StartScroll, Idle
  <2>2. scroll'.due = Touched(a)'
    BY <2>1, SameIndex
  <2> QED BY <2>1, <2>2 DEF StoryInv, Touched, Owned
<1>6. CASE ReadRows \/ ReadCells
  <2>1. /\ tip' = tip /\ labelled' = labelled /\ scroll.pc # "idle" /\ scroll'.pc # "done"
        /\ scroll'.due = scroll.due /\ scroll'.address = scroll.address
        /\ scroll'.quiet = scroll.quiet
    BY <1>6 DEF ReadRows, ReadCells, TypeInv, Scrolls
  <2> QED BY <2>1, StoryKept
<1>7. CASE ReadUnresolved
  <2>1. /\ tip' = tip /\ labelled' = labelled /\ scroll.pc # "idle"
        /\ scroll'.due = scroll.due /\ scroll'.address = scroll.address
        /\ scroll'.quiet = scroll.quiet
    BY <1>7 DEF ReadUnresolved, TypeInv, Scrolls
  <2>2. scroll'.whole = (scroll.whole /\ Unresolved = {})
    BY <1>7 DEF ReadUnresolved, TypeInv, Scrolls
  <2> QED BY <2>1, <2>2, StoryKept
<1>8. CASE Forget
  <2>1. scroll'.pc = "idle"
    BY <1>8 DEF Forget, Idle
  <2> QED BY <2>1 DEF StoryInv
<1>9. CASE \/ \E k \in {"all", "udt", "dob", "unknown"}, n \in Limits : StartListing(k, n)
           \/ ListRows \/ ListTotal \/ NextAssets \/ ForgetListing
  BY <1>1, <1>9, ListingTypes
<1>10. CASE \/ \E x \in Txids : StartPoll(x)
            \/ ResolveIndexed \/ ResolveSource \/ ResolveLookup
            \/ ReadTransitions \/ ReadTxidCells \/ PollAgain \/ EndPoll
  BY <1>1, <1>10, PollTypes
<1>11. CASE UNCHANGED vars
  BY <1>1, <1>11 DEF vars
<1> QED
  BY <1>3, <1>4, <1>5, <1>6, <1>7, <1>8, <1>9, <1>10, <1>11 DEF Next

LEMMA StoryAlways == Spec => [](ScrollInv /\ StoryInv)
<1>1. Init => StoryInv
  BY DEF Init, Idle, StoryInv
<1>2. ScrollInv /\ StoryInv /\ [Next]_vars => StoryInv'
  BY StoryNext DEF ScrollInv
<1> QED BY <1>1, <1>2, Inductive, PTL DEF Spec

\* dto.rs, unresolved_bindings_total: a history that nothing moved under and
\* whose pages report no unresolved binding has every transition of every cell
\* the address controls, for every index, page size and labelling.
THEOREM WholeStories == Spec => []WholeStory
<1>1. ScrollInv /\ StoryInv => WholeStory
  <2> SUFFICES ASSUME ScrollInv, StoryInv, scroll.pc = "done", scroll.quiet, scroll.whole,
                      NEW c \in CellRows, SealOf[c] # NoSeal,
                      OwnerOf[SealOf[c]] = scroll.address,
                      NEW t \in {CreatedBy[c], ConsumedBy[c]}, Indexed(t)
               PROVE  t \in EntryTxs(scroll.entries)
    BY DEF WholeStory
  <2>1. SealOf[c] \in labelled
    BY DEF StoryInv, Unresolved
  <2>2. c \in Owned(scroll.address)
    BY <2>1 DEF Owned
  <2>3. t \in Txs
    BY ReadAssumption DEF Indexed, CellRows
  <2>4. t \in Touched(scroll.address)
    BY <2>2, <2>3 DEF Touched
  <2>5. t \in scroll.due
    BY <2>4 DEF StoryInv
  <2> QED BY <2>5 DEF ScrollInv, AheadInv
<1> QED BY <1>1, StoryAlways, PTL

-----------------------------------------------------------------------------
(* The asset list *)

\* What a finite set is mapped to is finite.
LEMMA FiniteImage ==
    ASSUME NEW S, IsFiniteSet(S), NEW f, DOMAIN f = S, f = [x \in S |-> f[x]]
    PROVE  IsFiniteSet({f[x] : x \in S})
<1> DEFINE T == {f[x] : x \in S}
<1>1. f \in [S -> T] /\ \A y \in T : \E x \in S : f[x] = y
  OBVIOUS
<1> HIDE DEF T
<1>2. f \in Surjection(S, T)
  BY <1>1 DEF Surjection
<1> QED BY <1>2, FS_Surjection DEF T

\* A finite set of numbers has a greatest one.
LEMMA MaxIn ==
    ASSUME NEW S \in SUBSET Nat, IsFiniteSet(S), S # {}
    PROVE  Max(S) \in S
<1> DEFINE above == [n \in S |-> {m \in S : m > n}]
           size == [n \in S |-> Cardinality(above[n])]
<1>1. \A n \in S : IsFiniteSet(above[n]) /\ size[n] \in Nat
  <2> TAKE n \in S
  <2>1. above[n] \in SUBSET S
    OBVIOUS
  <2>2. IsFiniteSet(above[n])
    BY <2>1, FS_Subset
  <2> QED BY <2>2, FS_CardinalityType
<1>2. size \in [S -> Nat]
  BY <1>1
<1> HIDE DEF size
<1>3. PICK n \in S : \A m \in S : size[n] <= size[m]
  BY <1>2, LeastMeasure
<1>4. ASSUME NEW m \in S, m > n PROVE FALSE
  <2>1. above[m] \in SUBSET above[n] /\ m \in above[n] /\ m \notin above[m]
    <3>1. above[m] = {k \in S : k > m} /\ above[n] = {k \in S : k > n}
      OBVIOUS
    <3>2. m \in Nat /\ n \in Nat
      OBVIOUS
    <3>3. \A k \in S : k > m => k > n
      BY <1>4, <3>2
    <3>4. ~ (m > m)
      BY <3>2
    <3> HIDE DEF above
    <3>5. m \in above[n] /\ m \notin above[m]
      BY <1>4, <3>1, <3>4
    <3>6. above[m] \subseteq above[n]
      BY <3>1, <3>3
    <3> QED BY <3>5, <3>6
  <2>2. above[m] # above[n]
    BY <2>1
  <2> HIDE DEF above
  <2>3. Cardinality(above[m]) <= Cardinality(above[n])
        /\ Cardinality(above[n]) # Cardinality(above[m])
    BY <1>1, <2>1, <2>2, FS_Subset
  <2>4. size[m] = Cardinality(above[m]) /\ size[n] = Cardinality(above[n])
    BY DEF size
  <2>5. size[m] \in Nat /\ size[n] \in Nat /\ size[n] <= size[m]
    BY <1>1, <1>3
  <2> QED BY <2>3, <2>4, <2>5
<1>5. \A m \in S : n >= m
  BY <1>4
<1> QED BY <1>5 DEF Max

\* Every listed asset has a last block.
LEMMA LastBlockType ==
    ASSUME NEW a, RowsOf(a) # {}
    PROVE  LastBlock(a) \in Nat
<1> DEFINE f == [c \in RowsOf(a) |-> CreatedBlock(c)]
           S == {f[c] : c \in RowsOf(a)}
<1>1. RowsOf(a) \in SUBSET Cells
  BY DEF RowsOf, CellRows
<1>2. IsFiniteSet(RowsOf(a))
  BY <1>1, FS_Subset, ReadAssumption
<1>3. \A c \in RowsOf(a) : CreatedBlock(c) \in Nat
  BY <1>1, ReadAssumption DEF CreatedBlock
<1>4. S \in SUBSET Nat /\ S # {} /\ S = {CreatedBlock(c) : c \in RowsOf(a)}
  BY <1>3
<1>5. DOMAIN f = RowsOf(a) /\ f = [c \in RowsOf(a) |-> f[c]]
  OBVIOUS
<1> HIDE DEF f
<1>6. IsFiniteSet(S)
  BY <1>2, <1>5, FiniteImage
<1> HIDE DEF S
<1>7. Max(S) \in Nat
  BY <1>4, <1>6, MaxIn
<1> QED BY <1>4, <1>7 DEF LastBlock

LEMMA ListedFinite ==
    ASSUME NEW kinds
    PROVE  IsFiniteSet(AssetsOfKinds(kinds)) /\ CountAssets(kinds) \in Nat
<1> DEFINE S == {AssetOf[c] : c \in Cells}
<1>1. IsFiniteSet(S)
  BY FiniteImage, ReadAssumption
<1>2. AssetsOfKinds(kinds) \in SUBSET S
  BY DEF AssetsOfKinds, RowsOf, CellRows
<1>3. IsFiniteSet(AssetsOfKinds(kinds))
  BY <1>1, <1>2, FS_Subset
<1> QED BY <1>3, FS_CardinalityType DEF CountAssets

\* The place of an asset in the list.
Rank(kinds, a) == Cardinality({b \in AssetsOfKinds(kinds) : ListedBefore(b, a)})

LEMMA RankBelow ==
    ASSUME NEW kinds, NEW a \in AssetsOfKinds(kinds)
    PROVE  Rank(kinds, a) \in Nat /\ Rank(kinds, a) < CountAssets(kinds)
<1> DEFINE all == AssetsOfKinds(kinds)
           S == {b \in all : ListedBefore(b, a)}
<1>1. a \in Nat /\ LastBlock(a) \in Nat
  BY LastBlockType, ReadAssumption DEF AssetsOfKinds
<1>2. Cardinality(LiveRowsOf(a)) \in Nat
  <2>1. LiveRowsOf(a) \in SUBSET Cells
    BY DEF LiveRowsOf, RowsOf, CellRows
  <2> QED BY <2>1, FS_Subset, FS_CardinalityType, ReadAssumption
<1>3. ~ ListedBefore(a, a)
  BY <1>1, <1>2 DEF ListedBefore
<1>4. S \in SUBSET all /\ S # all
  BY <1>3
<1>5. IsFiniteSet(all) /\ Cardinality(all) \in Nat
  BY ListedFinite DEF CountAssets
<1> HIDE DEF S, all
<1>6. IsFiniteSet(S) /\ Cardinality(S) <= Cardinality(all) /\ Cardinality(all) # Cardinality(S)
  BY <1>4, <1>5, FS_Subset
<1>7. Cardinality(S) \in Nat
  BY <1>6, FS_CardinalityType
<1> QED BY <1>5, <1>6, <1>7 DEF Rank, CountAssets, S, all

\* The first n places of the list.
FirstPlaces(kinds, n) == {a \in AssetsOfKinds(kinds) : Rank(kinds, a) < n}

\* A page is the places from its offset.
LEMMA PagePlaces ==
    ASSUME NEW kinds, NEW limit \in Nat, NEW offset \in Nat
    PROVE  /\ FirstPlaces(kinds, offset) \cap AssetPage(kinds, limit, offset) = {}
           /\ FirstPlaces(kinds, offset) \cup AssetPage(kinds, limit, offset)
                 = FirstPlaces(kinds, offset + limit)
<1>1. AssetPage(kinds, limit, offset) =
          {a \in AssetsOfKinds(kinds) : Rank(kinds, a) \in offset .. offset + limit - 1}
  BY DEF AssetPage, Rank
<1>2. \A a \in AssetsOfKinds(kinds) : Rank(kinds, a) \in Nat
  BY RankBelow
<1> QED BY <1>1, <1>2 DEF FirstPlaces

\* What a reading l of the list has, with the index as it stands.
ListOK(l) ==
    LET kinds == KindsOf(l.kind) IN
    /\ l.waits # {} => l.pc = "page"
    /\ l.quiet /\ l.pc # "idle" => l.again = {}
    /\ l.quiet /\ l.pc = "page" =>
          l.got = FirstPlaces(kinds, IF "rows" \in l.waits THEN l.offset ELSE l.offset + l.limit)
    /\ l.quiet /\ l.pc = "page" /\ "total" \notin l.waits =>
          l.more = (l.offset + l.limit < CountAssets(kinds))
    /\ l.quiet /\ l.pc = "done" => l.got = AssetsOfKinds(kinds)

\* The list depends on the height indexed alone.
LEMMA SameList ==
    ASSUME tip' = tip
    PROVE  \A l : ListOK(l)' = ListOK(l)
<1>1. (\A t : Indexed(t)' = Indexed(t)) /\ CellRows' = CellRows
  BY DEF Indexed, CellRows
<1>2. (\A a : RowsOf(a)' = RowsOf(a)) /\ (\A c : Consumed(c)' = Consumed(c))
  BY <1>1 DEF RowsOf, Consumed
<1>3. \A a : LiveRowsOf(a)' = LiveRowsOf(a)
  BY <1>2 DEF LiveRowsOf
<1>4. \A a : LastBlock(a)' = LastBlock(a)
  BY <1>2 DEF LastBlock, CreatedBlock
<1>5. \A a, b : ListedBefore(a, b)' = ListedBefore(a, b)
  BY <1>3, <1>4 DEF ListedBefore
<1>6. \A k : AssetsOfKinds(k)' = AssetsOfKinds(k)
  BY <1>2 DEF AssetsOfKinds
<1>7. \A k, a : Rank(k, a)' = Rank(k, a)
  BY <1>5, <1>6 DEF Rank
<1>8. \A k, n : FirstPlaces(k, n)' = FirstPlaces(k, n)
  BY <1>6, <1>7 DEF FirstPlaces
<1>9. \A k : CountAssets(k)' = CountAssets(k)
  BY <1>6 DEF CountAssets
<1> QED BY <1>6, <1>8, <1>9 DEF ListOK

LEMMA ListStart ==
    ASSUME NEW kind, NEW n, NEW l,
           l = [NoListing EXCEPT !.pc = "page", !.kind = kind, !.waits = Queries, !.limit = n]
    PROVE  ListOK(l)
<1>1. /\ l.pc = "page" /\ l.kind = kind /\ l.waits = {"rows", "total"} /\ l.offset = 0
      /\ l.got = {} /\ l.again = {}
  BY DEF NoListing, Queries
<1>2. FirstPlaces(KindsOf(kind), 0) = {}
  <2>1. \A a \in AssetsOfKinds(KindsOf(kind)) : ~ (Rank(KindsOf(kind), a) < 0)
    BY RankBelow
  <2> QED BY <2>1 DEF FirstPlaces
<1> QED BY <1>1, <1>2 DEF ListOK

\* The rows of a page continue where the pages before it ended.
LEMMA ListedRows ==
    ASSUME TypeInv, ListOK(listing), ListRows, NEW l, l = listing'
    PROVE  ListOK(l)
<1> DEFINE kinds == KindsOf(listing.kind)
           page == AssetPage(kinds, listing.limit, listing.offset)
<1>1. /\ l.pc = listing.pc /\ l.kind = listing.kind /\ l.limit = listing.limit
      /\ l.offset = listing.offset /\ l.waits = listing.waits \ {"rows"} /\ l.more = listing.more
      /\ l.quiet = listing.quiet /\ l.got = listing.got \cup page
      /\ l.again = listing.again \cup (listing.got \cap page)
      /\ "rows" \in listing.waits
  BY DEF ListRows, TypeInv, Listings
<1>2. listing.limit \in Nat /\ listing.offset \in Nat
  BY ReadAssumption DEF TypeInv, Listings
<1>3. /\ FirstPlaces(kinds, listing.offset) \cap page = {}
      /\ FirstPlaces(kinds, listing.offset) \cup page
            = FirstPlaces(kinds, listing.offset + listing.limit)
  BY <1>2, PagePlaces
<1>4. listing.pc = "page"
  BY <1>1 DEF ListOK
<1>5. listing.quiet => listing.again = {} /\ listing.got = FirstPlaces(kinds, listing.offset)
  BY <1>1, <1>4 DEF ListOK
<1> HIDE DEF page
<1>6. l.quiet => l.again = {} /\ l.got = FirstPlaces(kinds, l.offset + l.limit)
  BY <1>1, <1>3, <1>5
<1>7. l.quiet /\ "total" \notin l.waits => l.more = (l.offset + l.limit < CountAssets(kinds))
  BY <1>1, <1>4 DEF ListOK
<1> QED BY <1>1, <1>4, <1>6, <1>7 DEF ListOK

LEMMA ListedTotal ==
    ASSUME TypeInv, ListOK(listing), ListTotal, NEW l, l = listing'
    PROVE  ListOK(l)
<1>1. /\ l.pc = listing.pc /\ l.kind = listing.kind /\ l.limit = listing.limit
      /\ l.offset = listing.offset /\ l.waits = listing.waits \ {"total"}
      /\ l.quiet = listing.quiet /\ l.got = listing.got /\ l.again = listing.again
      /\ "total" \in listing.waits
  BY DEF ListTotal, TypeInv, Listings
<1>2. l.more = (l.offset + l.limit < CountAssets(KindsOf(l.kind)))
  <2>1. l.more = (listing.offset + listing.limit < CountAssets(KindsOf(listing.kind)))
    BY DEF ListTotal, TypeInv, Listings
  <2> QED BY <1>1, <2>1
<1>3. listing.pc = "page"
  BY <1>1 DEF ListOK
<1> QED BY <1>1, <1>2, <1>3 DEF ListOK

\* The page after a page, or the end: the total says when all places are read.
LEMMA ListedNext ==
    ASSUME TypeInv, ListOK(listing), NextAssets, NEW l, l = listing'
    PROVE  ListOK(l)
<1> DEFINE kinds == KindsOf(listing.kind)
           end == listing.offset + listing.limit
<1>1. listing.pc = "page" /\ listing.waits = {} /\ end \in Nat
  BY ReadAssumption DEF NextAssets, TypeInv, Listings
<1>2. listing.quiet =>
          listing.again = {} /\ listing.got = FirstPlaces(kinds, end)
          /\ listing.more = (end < CountAssets(kinds))
  BY <1>1 DEF ListOK
<1>3. CASE listing.more
  <2>1. /\ l.pc = "page" /\ l.kind = listing.kind /\ l.waits = {"rows", "total"}
        /\ l.offset = end /\ l.quiet = listing.quiet /\ l.got = listing.got
        /\ l.again = listing.again
    BY <1>1, <1>3 DEF NextAssets, TypeInv, Listings, Queries
  <2> HIDE DEF end
  <2> QED BY <1>2, <2>1 DEF ListOK
<1>4. CASE ~ listing.more
  <2>1. /\ l.pc = "done" /\ l.kind = listing.kind /\ l.waits = {}
        /\ l.quiet = listing.quiet /\ l.got = listing.got /\ l.again = listing.again
    BY <1>1, <1>4 DEF NextAssets, TypeInv, Listings
  <2>2. ASSUME listing.quiet PROVE end >= CountAssets(kinds)
    <3>1. ~ (end < CountAssets(kinds))
      BY <1>2, <1>4, <2>2
    <3>2. CountAssets(kinds) \in Nat
      BY ListedFinite
    <3> HIDE DEF end, kinds
    <3> QED BY <1>1, <3>1, <3>2
  <2>3. ASSUME listing.quiet PROVE FirstPlaces(kinds, end) = AssetsOfKinds(kinds)
    <3>1. CountAssets(kinds) \in Nat
      BY ListedFinite
    <3> HIDE DEF end, kinds
    <3>2. \A a \in AssetsOfKinds(kinds) : Rank(kinds, a) < end
      BY <1>1, <2>2, <2>3, <3>1, RankBelow
    <3> QED BY <3>2 DEF FirstPlaces
  <2> HIDE DEF end
  <2> QED BY <1>2, <2>1, <2>3 DEF ListOK
<1> QED BY <1>3, <1>4

LEMMA ListNext ==
    ASSUME TypeInv, ListOK(listing), [Next]_vars
    PROVE  ListOK(listing)'
<1>1. PICK l : l = listing'
  OBVIOUS
<1>2. ASSUME tip' = tip, ListOK(l) PROVE ListOK(listing)'
  <2>1. ListOK(l)'
    BY <1>2, SameList
  <2> QED BY <1>1, <2>1
<1>3. ASSUME tip' = tip, listing' = listing PROVE ListOK(listing)'
  BY <1>1, <1>2, <1>3
<1>4. ASSUME Disturb PROVE ListOK(listing)'
  <2>1. l.quiet = FALSE /\ l.waits = listing.waits /\ l.pc = listing.pc
    BY <1>1, <1>4 DEF Disturb, TypeInv, Listings
  <2>2. ListOK(l)'
    BY <2>1 DEF ListOK
  <2> QED BY <1>1, <2>2
<1>5. CASE CommitBlock
  BY <1>4, <1>5 DEF CommitBlock
<1>6. ASSUME NEW s \in Seals, Label(s) \/ Observe(s) PROVE ListOK(listing)'
  BY <1>3, <1>4, <1>6 DEF Label, Observe
<1>7. CASE \/ \E a \in Addresses, n \in Limits : StartScroll(a, n)
           \/ ReadRows \/ ReadCells \/ ReadUnresolved \/ Forget
  BY <1>3, <1>7 DEF StartScroll, ReadRows, ReadCells, ReadUnresolved, Forget
<1>8. ASSUME NEW k, NEW n, StartListing(k, n) PROVE ListOK(listing)'
  <2>1. ListOK(l)
    BY <1>1, <1>8, ListStart DEF StartListing
  <2> QED BY <1>2, <1>8, <2>1 DEF StartListing
<1>9. CASE ListRows
  BY <1>1, <1>2, <1>9, ListedRows DEF ListRows
<1>10. CASE ListTotal
  BY <1>1, <1>2, <1>10, ListedTotal DEF ListTotal
<1>11. CASE NextAssets
  BY <1>1, <1>2, <1>11, ListedNext DEF NextAssets
<1>12. CASE ForgetListing
  <2>1. ListOK(l)
    BY <1>1, <1>12 DEF ForgetListing, NoListing, ListOK
  <2> QED BY <1>2, <1>12, <2>1 DEF ForgetListing
<1>13. CASE \/ \E x \in Txids : StartPoll(x)
            \/ ResolveIndexed \/ ResolveSource \/ ResolveLookup
            \/ ReadTransitions \/ ReadTxidCells \/ PollAgain \/ EndPoll
  BY <1>3, <1>13 DEF StartPoll, ResolveIndexed, ResolveSource, ResolveLookup, ReadTransitions,
                     ReadTxidCells, PollAgain, EndPoll
<1>14. CASE UNCHANGED vars
  BY <1>3, <1>14 DEF vars
<1> QED
  BY <1>5, <1>6, <1>7, <1>8, <1>9, <1>10, <1>11, <1>12, <1>13, <1>14 DEF Next

LEMMA ListAlways == Spec => [](ScrollInv /\ ListOK(listing))
<1>1. Init => ListOK(listing)
  BY DEF Init, NoListing, ListOK
<1>2. ScrollInv /\ ListOK(listing) /\ [Next]_vars => ListOK(listing)'
  BY ListNext DEF ScrollInv
<1> QED BY <1>1, <1>2, Inductive, PTL DEF Spec

\* handlers.rs, list_assets: paging by offset until the total is reached lists
\* every asset of the kinds asked for, once, when nothing was indexed during
\* the reading, whichever of a page's two queries answers first and for every
\* index and page size; the counts of /status are those of the list.
THEOREM CompleteListings == Spec => []ListingComplete
<1>1. TypeInv /\ ListOK(listing) => ListingComplete
  <2> SUFFICES ASSUME TypeInv, ListOK(listing), listing.pc = "done", listing.quiet
               PROVE  /\ listing.again = {}
                      /\ listing.kind = "all" =>
                            listing.got = {AssetOf[c] : c \in CellRows} \ {NoAsset}
                      /\ listing.kind = "dob" =>
                            listing.got = {a \in {AssetOf[c] : c \in CellRows} \ {NoAsset} :
                                              KindOf[a] \notin {"xudt", "sudt", "unknown"}}
                      /\ listing.kind = "udt" => Cardinality(listing.got) = Counts.udts
                      /\ listing.kind = "dob" =>
                            Counts.dobs =
                                Cardinality({a \in listing.got : KindOf[a] # "spore_cluster"})
    BY DEF ListingComplete
  <2>1. listing.again = {} /\ listing.got = AssetsOfKinds(KindsOf(listing.kind))
    BY DEF ListOK
  <2>2. \A c \in CellRows : AssetOf[c] \in Assets \cup {NoAsset}
    BY ReadAssumption DEF CellRows
  <2>3. \A a \in Assets : KindOf[a] \in {"xudt", "sudt", "spore", "spore_cluster", "unknown"}
    BY ReadAssumption
  <2>4. {a \in Assets : RowsOf(a) # {}} = {AssetOf[c] : c \in CellRows} \ {NoAsset}
    BY <2>2, ReadAssumption DEF RowsOf
  <2>5. ASSUME listing.kind = "all"
        PROVE  listing.got = {AssetOf[c] : c \in CellRows} \ {NoAsset}
    BY <2>1, <2>3, <2>4, <2>5 DEF AssetsOfKinds, KindsOf
  <2>6. ASSUME listing.kind = "dob"
        PROVE  listing.got = {a \in {AssetOf[c] : c \in CellRows} \ {NoAsset} :
                                 KindOf[a] \notin {"xudt", "sudt", "unknown"}}
    BY <2>1, <2>3, <2>4, <2>6 DEF AssetsOfKinds, KindsOf
  <2>7. ASSUME listing.kind = "udt" PROVE Cardinality(listing.got) = Counts.udts
    BY <2>1, <2>7 DEF KindsOf, Counts
  <2>8. ASSUME listing.kind = "dob"
        PROVE  Counts.dobs = Cardinality({a \in listing.got : KindOf[a] # "spore_cluster"})
    <3>1. {a \in listing.got : KindOf[a] # "spore_cluster"} = AssetsOfKinds({"spore"})
      BY <2>1, <2>8 DEF AssetsOfKinds, KindsOf
    <3> QED BY <3>1 DEF Counts
  <2> QED BY <2>1, <2>5, <2>6, <2>7, <2>8
<1> QED BY <1>1, ListAlways, PTL DEF ScrollInv

-----------------------------------------------------------------------------
(* Batches *)

\* The keys of a batch: their number, their positions and what they are.
LEMMA BatchKeys ==
    ASSUME NEW S, NEW bad, NEW keys \in SeqOf(S \cup {bad}, MaxBatch)
    PROVE  /\ DOMAIN keys = 1 .. Len(keys)
           /\ \A i \in DOMAIN keys : keys[i] \in Range(keys) /\ keys[i] \in S \cup {bad}
           /\ BatchRefused(keys, bad) <=> Len(keys) > MaxPageSize \/ bad \in Range(keys)
<1>1. PICK m \in 0 .. MaxBatch : keys \in [1 .. m -> S \cup {bad}]
  BY DEF SeqOf
<1>2. m \in Nat
  BY <1>1, ReadAssumption
<1>3. Len(keys) = m /\ DOMAIN keys = 1 .. m
  BY <1>1, <1>2
<1> QED BY <1>1, <1>3 DEF BatchRefused, Range

\* handlers.rs, parse_batch: a batch is refused as a whole, or its answer at
\* every position is the one a request for that key alone gets, repeated keys
\* included, for batches of every length and any state of the index.
THEOREM AlignedBatches == Spec => []BatchAligned
<1>1. ASSUME NEW keys \in SeqOf(Seals \cup {NoSeal}, MaxBatch), NEW all \in BOOLEAN
      PROVE  IF Len(keys) > MaxPageSize \/ NoSeal \in Range(keys)
             THEN CellsBatch(keys, all) = Refused
             ELSE \A i \in 1 .. Len(keys) : CellsBatch(keys, all)[i] = CellsBySeals({keys[i]}, all)
  <2>1. /\ DOMAIN keys = 1 .. Len(keys) /\ \A i \in DOMAIN keys : keys[i] \in Range(keys)
        /\ BatchRefused(keys, NoSeal) <=> Len(keys) > MaxPageSize \/ NoSeal \in Range(keys)
    BY BatchKeys
  <2>2. CASE BatchRefused(keys, NoSeal)
    BY <2>1, <2>2 DEF CellsBatch
  <2>3. CASE ~ BatchRefused(keys, NoSeal)
    <3>1. ASSUME NEW i \in 1 .. Len(keys)
          PROVE  CellsBatch(keys, all)[i] = CellsBySeals({keys[i]}, all)
      <4>1. CellsBatch(keys, all)[i] =
                {c \in CellsBySeals(Range(keys), all) : SealOf[c] = keys[i]}
        BY <2>1, <2>3 DEF CellsBatch
      <4> QED BY <2>1, <4>1 DEF CellsBySeals
    <3> QED BY <2>1, <2>3, <3>1
  <2> QED BY <2>2, <2>3
<1>2. ASSUME NEW keys \in SeqOf(Assets \cup {NoAsset}, MaxBatch)
      PROVE  IF Len(keys) > MaxPageSize \/ NoAsset \in Range(keys)
             THEN AssetsBatch(keys) = Refused
             ELSE \A i \in 1 .. Len(keys) :
                     AssetsBatch(keys)[i] =
                         IF keys[i] \in AssetsOfKinds({KindOf[keys[i]]})
                         THEN Summary(keys[i]) ELSE Null
  <2>1. /\ DOMAIN keys = 1 .. Len(keys)
        /\ \A i \in DOMAIN keys : keys[i] \in Range(keys) /\ keys[i] \in Assets \cup {NoAsset}
        /\ BatchRefused(keys, NoAsset) <=> Len(keys) > MaxPageSize \/ NoAsset \in Range(keys)
    BY BatchKeys
  <2>2. CASE BatchRefused(keys, NoAsset)
    BY <2>1, <2>2 DEF AssetsBatch
  <2>3. CASE ~ BatchRefused(keys, NoAsset)
    <3>1. ASSUME NEW i \in 1 .. Len(keys)
          PROVE  AssetsBatch(keys)[i] =
                     IF keys[i] \in AssetsOfKinds({KindOf[keys[i]]}) THEN Summary(keys[i]) ELSE Null
      <4>1. AssetsBatch(keys)[i] =
                IF keys[i] \in AssetsByHashes(Range(keys)) THEN Summary(keys[i]) ELSE Null
        BY <2>1, <2>3 DEF AssetsBatch
      <4>2. keys[i] \in AssetsByHashes(Range(keys)) <=> keys[i] \in AssetsOfKinds({KindOf[keys[i]]})
        BY <2>1, <2>3 DEF AssetsByHashes, AssetsOfKinds
      <4> QED BY <4>1, <4>2
    <3> QED BY <2>1, <2>3, <3>1
  <2> QED BY <2>2, <2>3
<1>3. ASSUME NEW keys \in SeqOf(Txs \cup {NoTx}, MaxBatch)
      PROVE  IF Len(keys) > MaxPageSize \/ NoTx \in Range(keys)
             THEN TransitionsBatch(keys) = Refused
             ELSE \A i \in 1 .. Len(keys) : TransitionsBatch(keys)[i] = TransitionByTx(keys[i])
  <2>1. /\ DOMAIN keys = 1 .. Len(keys) /\ \A i \in DOMAIN keys : keys[i] \in Range(keys)
        /\ BatchRefused(keys, NoTx) <=> Len(keys) > MaxPageSize \/ NoTx \in Range(keys)
    BY BatchKeys
  <2>2. CASE BatchRefused(keys, NoTx)
    BY <2>1, <2>2 DEF TransitionsBatch
  <2>3. CASE ~ BatchRefused(keys, NoTx)
    BY <2>1, <2>3 DEF TransitionsBatch, TransitionsByTxs, TransitionByTx
  <2> QED BY <2>2, <2>3
<1>4. BatchAligned
  BY <1>1, <1>2, <1>3 DEF BatchAligned
<1> QED BY <1>4, PTL
=============================================================================
