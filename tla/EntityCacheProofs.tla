--------------------------- MODULE EntityCacheProofs ---------------------------
(***************************************************************************)
(* Deletions in EntityCache, for every number of ids, pages of every size  *)
(* and buffers of every length.  A flush hands its frames to one handler   *)
(* after the other, so what holds after it is shown by induction over the  *)
(* frames.                                                                 *)
(***************************************************************************)
EXTENDS EntityCache, Induction, FiniteSetTheorems

Event == [verb : Verbs, id : Ids]
Frame == [verb : Verbs, id : Ids, row : Row]
Tabs == [pages : Seq(Page), detail : [Visited -> Row], gone : SUBSET Ids, page : Visited \cup {0},
         watched : BOOLEAN, stale : SUBSET (Ids \cup {0}), cut : SUBSET Visited]
Lists == [on : {"idle", "pages", "next"}, base : Seq(Page), got : Seq(Page), need : Nat]
Unique(b) == \A k, j \in DOMAIN b : b[k].verb = b[j].verb /\ b[k].id = b[j].id => k = j

\* What the core holds, and what this tab knows it deleted there.
CoreInv ==
    /\ kind \in Kinds /\ rows \in [Ids -> Row] /\ version \in 0 .. MaxVersion
    /\ events \in Seq(Event) /\ Len(events) <= MaxEvents
    /\ mine \subseteq Ids /\ \A i \in mine : rows[i] = Gone
    /\ faults \in 0 .. MaxFaults /\ habit \in {"deletes", "browses"}
\* Only sessions and scheduled recordings have a detail page, and a list that
\* was read once holds a page.
TabInv ==
    /\ tab \in Tabs /\ tab.stale = {} /\ tab.cut = {} /\ tab.pages # <<>>
    /\ tab.page # 0 => kind \in {"session", "autorun"}
    /\ buffer \in Seq(Frame) /\ Unique(buffer)
    /\ detail \in [Visited -> DetailFetch]
    /\ req \in [on : BOOLEAN, ids : Seq(Ids), deleted : SUBSET Ids]
\* What a refetch has read so far holds no row this tab deleted: the answer of
\* a deletion starts it anew, and the core has read no such row since.
ListInv ==
    /\ list \in Lists
    /\ list.on = "pages" => /\ list.base = <<>>
                            /\ \A k \in DOMAIN list.got : \A i \in mine : list.got[k].items[i] = Gone
Inv == CoreInv /\ TabInv /\ ListInv

-----------------------------------------------------------------------------
(* Sets of numbers.                                                        *)
LEMMA MaxExists ==
  ASSUME NEW n \in Nat, NEW S, S \subseteq 1 .. n, S # {}
  PROVE  Max(S) \in S /\ \A x \in S : Max(S) >= x
<1> DEFINE T == {m \in Nat : \E x \in S : x >= m}
<1>1. 0 \in T
  <2>1. PICK x \in S : x \in 1 .. n OBVIOUS
  <2> QED BY <2>1
<1>2. \E m \in Nat : m \in T /\ m + 1 \notin T
  <2> SUFFICES ASSUME \A m \in Nat : m \in T => m + 1 \in T PROVE FALSE OBVIOUS
  <2>1. Nat \subseteq T
    <3> HIDE DEF T
    <3> QED BY <1>1, SetInduction
  <2>2. n + 1 \in T BY <2>1
  <2> QED BY <2>2
<1>3. PICK m \in Nat : m \in T /\ m + 1 \notin T BY <1>2
<1>4. PICK x \in S : x >= m BY <1>3
<1>5. \A y \in S : x >= y BY <1>3, <1>4
<1> QED BY <1>5 DEF Max

\* The k-th largest element of a finite set of numbers.
LEMMA KthExists ==
  ASSUME NEW n \in Nat, NEW S, S \subseteq 1 .. n, NEW k \in 1 .. Cardinality(S)
  PROVE  Kth(S, k) \in S
<1> DEFINE Above(i) == {j \in S : j >= i}
           f(i) == Cardinality(Above(i))
<1>0. IsFiniteSet(S) /\ \A j \in S : j \in Nat /\ 0 <= j /\ j <= n
  <2>1. IsFiniteSet(1 .. n) BY FS_Interval
  <2>2. \A j \in S : j \in 1 .. n OBVIOUS
  <2>3. IsFiniteSet(S) BY <2>1, FS_Subset
  <2> QED BY <2>2, <2>3
<1>1. \A i \in Nat : IsFiniteSet(Above(i)) /\ f(i) \in Nat
  BY <1>0, FS_Subset, FS_CardinalityType
<1>2. f(n + 1) = 0
  <2>1. Above(n + 1) = {}
    <3>1. \A j \in S : ~(j >= n + 1) BY <1>0
    <3> QED BY <3>1
  <2> QED BY <2>1, FS_EmptySet
<1>3. f(0) >= k /\ k \in Nat \ {0}
  <2>1. Above(0) = S BY <1>0
  <2>2. Cardinality(S) \in Nat BY <1>0, FS_CardinalityType
  <2> QED BY <2>1, <2>2
<1>4. \A i \in Nat : f(i) = IF i \in S THEN f(i + 1) + 1 ELSE f(i + 1)
  <2> TAKE i \in Nat
  <2>1. CASE i \in S
    <3>1. Above(i) = Above(i + 1) \cup {i} /\ i \notin Above(i + 1)
      <4>1. \A j \in S : j >= i <=> j >= i + 1 \/ j = i BY <1>0
      <4>2. \A j : j \in Above(i) <=> j \in Above(i + 1) \cup {i} BY <2>1, <4>1
      <4>3. ~(i >= i + 1) OBVIOUS
      <4> QED BY <4>2, <4>3
    <3>2. IsFiniteSet(Above(i + 1)) BY <1>1
    <3> HIDE DEF Above
    <3>3. Cardinality(Above(i + 1) \cup {i}) = Cardinality(Above(i + 1)) + 1 BY <3>1, <3>2, FS_AddElement
    <3> QED BY <2>1, <3>1, <3>3
  <2>2. CASE i \notin S
    <3>1. Above(i) = Above(i + 1)
      <4>1. \A j \in S : j >= i <=> j >= i + 1 BY <1>0, <2>2
      <4> QED BY <4>1
    <3> QED BY <2>2, <3>1
  <2> QED BY <2>1, <2>2
<1> HIDE DEF Above
<1>5. \E i \in Nat : f(i) >= k /\ f(i + 1) < k
  <2> SUFFICES ASSUME \A i \in Nat : f(i) >= k => f(i + 1) >= k PROVE FALSE
    BY <1>1, <1>3
  <2> DEFINE U == {m \in Nat : f(m) >= k}
  <2>1. Nat \subseteq U
    <3>1. 0 \in U BY <1>3
    <3>2. \A m \in Nat : m \in U => m + 1 \in U OBVIOUS
    <3> HIDE DEF U
    <3> QED BY <3>1, <3>2, SetInduction
  <2>2. f(n + 1) >= k BY <2>1
  <2> QED BY <1>2, <1>3, <2>2
<1>6. PICK i \in Nat : f(i) >= k /\ f(i + 1) < k BY <1>5
<1>7. i \in S /\ f(i) = k BY <1>1, <1>3, <1>4, <1>6
<1> QED BY <1>7 DEF Kth, Above

LEMMA RowFacts == Gone \in Row /\ 0 \notin Ids /\ Ids \subseteq Nat
<1>1. Cardinality(Ids) \in Nat BY CacheAssumption, FS_CardinalityType
<1>2. MaxVersion \in Nat BY CacheAssumption
<1> QED BY <1>1, <1>2, CacheAssumption DEF Gone, Row

\* A page is what the core reads below a cursor; a row it has not is on no page.
LEMMA PageFacts ==
  ASSUME CoreInv, NEW cursor
  PROVE  PageBelow(cursor) \in Page /\ \A i \in Ids : rows[i] = Gone => PageBelow(cursor).items[i] = Gone
<1> DEFINE under == {i \in Ids : rows[i] # Gone /\ (cursor = 0 \/ i < cursor)}
           full == Cardinality(under) > PageSize
           items == IF full THEN {i \in under : i >= Kth(under, PageSize)} ELSE under
           next == IF full THEN Kth(under, PageSize) ELSE 0
           page == [items |-> [i \in Ids |-> IF i \in items THEN rows[i] ELSE Gone], more |-> full, next |-> next]
<1>1. Cardinality(Ids) \in Nat /\ IsFiniteSet(under) /\ PageSize \in Nat \ {0}
  BY CacheAssumption, FS_CardinalityType, FS_Subset
<1>2. Cardinality(under) \in Nat BY <1>1, FS_CardinalityType
<1>3. under \subseteq 1 .. Cardinality(Ids) BY CacheAssumption
<1> HIDE DEF under
<1>4. full => Kth(under, PageSize) \in under
  <2> SUFFICES ASSUME full PROVE Kth(under, PageSize) \in under OBVIOUS
  <2>1. PageSize \in 1 .. Cardinality(under) BY <1>1, <1>2
  <2> QED BY <1>1, <1>3, <2>1, KthExists
<1>5. next \in Ids \cup {0}
  BY <1>4, CacheAssumption DEF under
<1>6. items \subseteq under OBVIOUS
<1> HIDE DEF items, next
<1>7. page.items \in [Ids -> Row] BY <1>6, RowFacts DEF under, CoreInv
<1>8. \A i \in Ids : rows[i] = Gone => page.items[i] = Gone BY <1>6 DEF under
<1>9. full \in BOOLEAN BY <1>1, <1>2
<1>10. page \in Page BY <1>5, <1>7, <1>9 DEF Page
<1>11. page = PageBelow(cursor) BY DEF PageBelow, under, items, next
<1> QED BY <1>8, <1>10, <1>11

-----------------------------------------------------------------------------
(* The handlers of the event table.                                        *)

\* Only the pages, and as many of them.
Paged(r, c) == \E p \in Seq(Page) : Len(p) = Len(c.pages) /\ r = [c EXCEPT !.pages = p]

LEMMA OnPagesFacts ==
  ASSUME NEW c \in Tabs, NEW i \in Ids, NEW row \in Row
  PROVE  Paged(OnPages(c, i, row), c)
<1> DEFINE held(p) == IF p.items[i] = Gone THEN p ELSE [p EXCEPT !.items[i] = row]
           ps == [k \in DOMAIN c.pages |-> held(c.pages[k])]
<1>1. c.pages \in Seq(Page) BY DEF Tabs
<1>2. \A p \in Page : held(p) \in Page
  <2> TAKE p \in Page
  <2>1. [p.items EXCEPT ![i] = row] \in [Ids -> Row] BY DEF Page
  <2>2. [p EXCEPT !.items[i] = row] \in Page BY <2>1 DEF Page
  <2> QED BY <2>2
<1> HIDE DEF held
<1>3. ps \in Seq(Page) /\ Len(ps) = Len(c.pages) BY <1>1, <1>2
<1>4. OnPages(c, i, row) = [c EXCEPT !.pages = ps] BY DEF OnPages, held
<1> QED BY <1>3, <1>4 DEF Paged

LEMMA UpsertPagesFacts ==
  ASSUME NEW c \in Tabs, NEW i \in Ids, NEW row \in Row
  PROVE  Paged(UpsertPages(c, i, row), c)
<1>1. CASE i \in Shown(c) BY <1>1, OnPagesFacts DEF UpsertPages
<1>2. CASE i \notin Shown(c) /\ c.pages = <<>>
  <2>1. UpsertPages(c, i, row) = c BY <1>2 DEF UpsertPages
  <2>2. c = [c EXCEPT !.pages = c.pages] /\ c.pages \in Seq(Page) BY DEF Tabs
  <2> QED BY <2>1, <2>2 DEF Paged
<1>3. CASE i \notin Shown(c) /\ c.pages # <<>>
  <2> DEFINE first == [c.pages[1] EXCEPT !.items[i] = row]
             ps == [c.pages EXCEPT ![1] = first]
  <2>1. c.pages \in Seq(Page) /\ 1 \in DOMAIN c.pages BY <1>3 DEF Tabs
  <2>2. c.pages[1] \in Page BY <2>1
  <2>3. [c.pages[1].items EXCEPT ![i] = row] \in [Ids -> Row] BY <2>2 DEF Page
  <2>4. first \in Page BY <2>2, <2>3 DEF Page
  <2> HIDE DEF first
  <2>5. ps \in Seq(Page) /\ Len(ps) = Len(c.pages) BY <2>1, <2>4
  <2>6. UpsertPages(c, i, row) = [c EXCEPT !.pages = ps] BY <1>3 DEF UpsertPages, first
  <2> QED BY <2>5, <2>6 DEF Paged
<1> QED BY <1>1, <1>2, <1>3

LEMMA PagedTabs ==
  ASSUME NEW c \in Tabs, NEW r, Paged(r, c)
  PROVE  /\ r \in Tabs /\ Len(r.pages) = Len(c.pages) /\ r.gone = c.gone /\ r.page = c.page /\ r.watched = c.watched
         /\ r.detail = c.detail /\ r.stale = c.stale /\ r.cut = c.cut
  BY DEF Paged, Tabs

LEMMA UpsertDetailFacts ==
  ASSUME NEW c \in Tabs, NEW i \in Ids, NEW row \in Row
  PROVE  LET r == UpsertDetail(c, i, row)
         IN r \in Tabs /\ r.pages = c.pages /\ r.gone = c.gone /\ r.page = c.page /\ r.watched = c.watched
<1>1. CASE i \notin Visited BY <1>1 DEF UpsertDetail
<1>2. CASE i \in Visited
  <2>1. [c.detail EXCEPT ![i] = row] \in [Visited -> Row] BY DEF Tabs
  <2>2. UpsertDetail(c, i, row) = [c EXCEPT !.detail = [c.detail EXCEPT ![i] = row]] BY <1>2 DEF UpsertDetail
  <2> QED BY <2>1, <2>2 DEF Tabs
<1> QED BY <1>1, <1>2

\* What every handler leaves of a tab: its pages are as many, it is on the page
\* it was on or on the list, and tombstones are of the frame's row alone.
Near(r, c) == /\ r \in Tabs /\ Len(r.pages) = Len(c.pages) /\ r.page \in {c.page, 0}
Stays(r, c) == r.page = c.page /\ r.watched = c.watched

LEMMA OnCreatedFacts ==
  ASSUME NEW c \in Tabs, NEW f \in Frame
  PROVE  LET r == OnCreated(c, f)
         IN /\ Near(r, c) /\ Stays(r, c) /\ r.gone \subseteq c.gone
            /\ kind # "recording" /\ f.row # Gone => f.id \notin r.gone
<1> DEFINE r == OnCreated(c, f)
<1>0. f.id \in Ids /\ f.row \in Row BY DEF Frame
<1>1. CASE kind = "recording" \/ f.row = Gone
  <2>1. r = [c EXCEPT !.stale = c.stale \cup {0}] BY <1>1 DEF OnCreated, Invalidate
  <2> QED BY <1>1, <2>1 DEF Near, Stays, Tabs
<1>2. CASE kind # "recording" /\ f.row # Gone
  <2> DEFINE b == [c EXCEPT !.gone = c.gone \ {f.id}]
             up == UpsertPages(b, f.id, f.row)
  <2>1. b \in Tabs /\ b.gone = c.gone \ {f.id} /\ Stays(b, c) /\ Len(b.pages) = Len(c.pages) BY DEF Tabs, Stays
  <2> HIDE DEF b
  <2>2. up \in Tabs /\ Len(up.pages) = Len(b.pages) /\ up.gone = b.gone /\ up.page = b.page /\ up.watched = b.watched
    BY <1>0, <2>1, UpsertPagesFacts, PagedTabs
  <2>3. r = IF kind = "autorun" THEN UpsertDetail(up, f.id, f.row) ELSE up BY <1>2 DEF OnCreated, b
  <2> HIDE DEF up, r
  <2>4. r \in Tabs /\ r.pages = up.pages /\ r.gone = up.gone /\ r.page = up.page /\ r.watched = up.watched
    <3>1. CASE kind = "autorun" BY <1>0, <2>2, <2>3, <3>1, UpsertDetailFacts
    <3> QED BY <2>2, <2>3, <3>1
  <2> HIDE DEF r
  <2> QED BY <2>1, <2>2, <2>4 DEF Near, Stays, r
<1> QED BY <1>1, <1>2

LEMMA OnUpdatedFacts ==
  ASSUME NEW c \in Tabs, NEW f \in Frame
  PROVE  LET r == OnUpdated(c, f) IN Near(r, c) /\ Stays(r, c) /\ r.gone = c.gone
<1> DEFINE r == OnUpdated(c, f)
<1>0. f.id \in Ids /\ f.row \in Row BY DEF Frame
<1>1. CASE f.row = Gone
  <2>1. \E s \in SUBSET (Ids \cup {0}) : r = [c EXCEPT !.stale = c.stale \cup s]
    <3>1. r = [c EXCEPT !.stale = c.stale \cup (IF kind = "session" THEN {0, f.id} ELSE {0})] BY <1>1 DEF OnUpdated, Invalidate
    <3> QED BY <1>0, <3>1
  <2> QED BY <2>1 DEF Near, Stays, Tabs
<1>2. CASE f.row # Gone /\ f.id \in c.gone
  <2>1. r = c BY <1>2 DEF OnUpdated
  <2> HIDE DEF r
  <2> QED BY <2>1 DEF Near, Stays, r
<1>3. CASE f.row # Gone /\ f.id \notin c.gone /\ kind = "recording"
  <2>1. r = UpsertPages(c, f.id, f.row) BY <1>3 DEF OnUpdated
  <2> HIDE DEF r
  <2>2. r \in Tabs /\ Len(r.pages) = Len(c.pages) /\ r.gone = c.gone /\ r.page = c.page /\ r.watched = c.watched
    BY <1>0, <2>1, UpsertPagesFacts, PagedTabs
  <2> QED BY <2>2 DEF Near, Stays, r
<1>4. CASE f.row # Gone /\ f.id \notin c.gone /\ kind # "recording"
  <2> DEFINE up == UpsertDetail(c, f.id, f.row)
             both == UpsertPages(up, f.id, f.row)
  <2>2. up \in Tabs BY <1>0, UpsertDetailFacts
  <2>3. up.pages = c.pages /\ up.gone = c.gone /\ up.page = c.page /\ up.watched = c.watched BY <1>0, UpsertDetailFacts
  <2> HIDE DEF up
  <2>4. both \in Tabs /\ Len(both.pages) = Len(up.pages) /\ both.gone = up.gone /\ both.page = up.page /\ both.watched = up.watched
    BY <1>0, <2>2, UpsertPagesFacts, PagedTabs
  <2>5. r = IF AsksAgain(c, f) THEN Invalidate(both, {f.id}) ELSE both BY <1>4 DEF OnUpdated, up
  <2> HIDE DEF both, r
  <2>6. r \in Tabs /\ r.pages = both.pages /\ r.gone = both.gone /\ r.page = both.page /\ r.watched = both.watched
    <3>1. CASE AsksAgain(c, f)
      <4>1. r = [both EXCEPT !.stale = both.stale \cup {f.id}] BY <2>5, <3>1 DEF Invalidate
      <4> QED BY <1>0, <2>4, <4>1 DEF Tabs
    <3> QED BY <2>4, <2>5, <3>1
  <2> QED BY <2>3, <2>4, <2>6 DEF Near, Stays, r
<1> QED BY <1>1, <1>2, <1>3, <1>4

\* A deletion leaves the page of the row that is gone.
LEMMA OnDeletedFacts ==
  ASSUME NEW c \in Tabs, NEW f \in Frame
  PROVE  LET r == OnDeleted(c, f)
         IN /\ Near(r, c) /\ r.gone = c.gone \cup {f.id}
            /\ kind # "recording" /\ c.page = f.id /\ c.watched => r.page = 0
            /\ c.page # f.id \/ kind = "recording" => Stays(r, c)
<1> DEFINE r == OnDeleted(c, f)
           closed == IF c.page = f.id /\ c.watched THEN [c EXCEPT !.page = 0, !.watched = FALSE] ELSE c
           told == [closed EXCEPT !.gone = closed.gone \cup {f.id}]
           off == RemoveFromPages(told, f.id)
<1>0. f.id \in Ids BY DEF Frame
<1>1. /\ closed \in Tabs /\ closed.pages = c.pages /\ closed.gone = c.gone /\ closed.page \in {c.page, 0}
      /\ c.page = f.id /\ c.watched => closed.page = 0
      /\ c.page # f.id => Stays(closed, c)
  <2>1. CASE c.page = f.id /\ c.watched
    <3>1. closed = [c EXCEPT !.page = 0, !.watched = FALSE] BY <2>1
    <3> HIDE DEF closed
    <3> QED BY <2>1, <3>1 DEF Tabs
  <2>2. CASE ~(c.page = f.id /\ c.watched)
    <3>1. closed = c BY <2>2
    <3> HIDE DEF closed
    <3> QED BY <2>2, <3>1 DEF Stays
  <2> QED BY <2>1, <2>2
<1> HIDE DEF closed
<1>2. told \in Tabs /\ told.pages = c.pages /\ told.gone = c.gone \cup {f.id} /\ told.page = closed.page /\ told.watched = closed.watched
  BY <1>0, <1>1 DEF Tabs
<1> HIDE DEF told
<1>3. off \in Tabs /\ Len(off.pages) = Len(c.pages) /\ off.gone = told.gone /\ off.page = told.page /\ off.watched = told.watched
  <2>1. off = OnPages(told, f.id, Gone) BY DEF RemoveFromPages
  <2> HIDE DEF off
  <2>2. Paged(off, told) BY <1>0, <1>2, <2>1, RowFacts, OnPagesFacts
  <2> QED BY <1>2, <2>2, PagedTabs
<1>4. r = IF kind = "recording" THEN [off EXCEPT !.page = c.page, !.watched = c.watched] ELSE RemoveDetail(off, f.id)
  BY DEF OnDeleted, closed, told
<1> HIDE DEF off, r
<1>5. CASE kind = "recording"
  <2>1. r = [off EXCEPT !.page = c.page, !.watched = c.watched] BY <1>4, <1>5
  <2> QED BY <1>2, <1>3, <1>5, <2>1 DEF Near, Stays, Tabs, r
<1>6. CASE kind # "recording" /\ f.id \notin Visited
  <2>1. r = off BY <1>4, <1>6 DEF RemoveDetail
  <2> QED BY <1>1, <1>2, <1>3, <1>6, <2>1 DEF Near, Stays, r
<1>7. CASE kind # "recording" /\ f.id \in Visited
  <2> DEFINE w == IF off.page = f.id THEN FALSE ELSE off.watched
  <2>1. r = [off EXCEPT !.detail = [off.detail EXCEPT ![f.id] = Gone], !.cut = off.cut \cup {f.id}, !.watched = w]
    BY <1>4, <1>7 DEF RemoveDetail
  <2>2. [off.detail EXCEPT ![f.id] = Gone] \in [Visited -> Row] BY <1>3, RowFacts DEF Tabs
  <2>3. w \in BOOLEAN /\ (off.page # f.id => w = off.watched) BY <1>3 DEF Tabs
  <2> HIDE DEF w
  <2>4. r \in Tabs /\ r.pages = off.pages /\ r.gone = off.gone /\ r.page = off.page /\ r.watched = w
    BY <1>3, <1>7, <2>1, <2>2, <2>3 DEF Tabs
  <2>5. f.id # 0 BY <1>0, RowFacts
  <2>6. c.page # f.id => Stays(r, c)
    BY <1>1, <1>2, <1>3, <2>3, <2>4 DEF Stays
  <2> QED BY <1>1, <1>2, <1>3, <1>7, <2>4, <2>5, <2>6 DEF Near, r
<1> QED BY <1>5, <1>6, <1>7

LEMMA DispatchFacts ==
  ASSUME NEW c \in Tabs, NEW f \in Frame
  PROVE  LET r == Dispatch(c, f)
         IN /\ Near(r, c) /\ r.gone \subseteq c.gone \cup {f.id}
            /\ kind # "recording" /\ kind # "profile" /\ f.verb = "created" /\ f.row # Gone => f.id \notin r.gone
            /\ \A i \in Visited : kind \in {"session", "autorun"} /\ c.page = i /\ c.watched /\ i \notin c.gone
                   => r.page = 0 \/ (r.page = i /\ r.watched /\ i \notin r.gone)
<1> DEFINE r == Dispatch(c, f)
<1>1. CASE kind = "profile"
  <2>1. r = [c EXCEPT !.stale = c.stale \cup {0}] BY <1>1 DEF Dispatch, Invalidate
  <2> QED BY <1>1, <2>1 DEF Near, Tabs
<1>2. CASE kind # "profile" /\ f.verb = "created"
  <2>1. r = OnCreated(c, f) BY <1>2 DEF Dispatch
  <2> HIDE DEF r
  <2> QED BY <1>2, <2>1, OnCreatedFacts DEF Stays, r
<1>3. CASE kind # "profile" /\ f.verb = "deleted"
  <2>1. r = OnDeleted(c, f) BY <1>3 DEF Dispatch
  <2>2. Near(r, c) /\ r.gone = c.gone \cup {f.id} BY <2>1, OnDeletedFacts
  <2>3. kind # "recording" /\ c.page = f.id /\ c.watched => r.page = 0 BY <2>1, OnDeletedFacts
  <2>4. c.page # f.id => Stays(r, c) BY <2>1, OnDeletedFacts
  <2> HIDE DEF r
  <2> QED BY <1>3, <2>2, <2>3, <2>4 DEF Stays, r
<1>4. CASE kind # "profile" /\ f.verb \notin {"created", "deleted"}
  <2>1. r = OnUpdated(c, f) BY <1>4 DEF Dispatch
  <2> HIDE DEF r
  <2> QED BY <1>4, <2>1, OnUpdatedFacts DEF Stays, r
<1> QED BY <1>1, <1>2, <1>3, <1>4

-----------------------------------------------------------------------------
(* A flush: the frames one after the other.                                *)
Handed == {c \in Tabs : Len(c.pages) = Len(tab.pages) /\ c.page \in {tab.page, 0}}
\* The page of a row without a tombstone has been left or is still watched.
Watches(c, i) == c.page = 0 \/ (c.page = i /\ c.watched /\ i \notin c.gone)

LEMMA FlushFacts ==
  ASSUME Inv
  PROVE  /\ Dispatched \in Handed
         /\ \A i \in Visited : tab.page = i /\ tab.watched /\ i \notin tab.gone => Watches(Dispatched, i)
         /\ \A i \in Ids : /\ kind # "recording" /\ kind # "profile"
                           /\ \E k \in DOMAIN buffer : buffer[k].id = i
                           /\ LastFrame(i).verb = "created" /\ LastFrame(i).row # Gone
                           => i \notin Dispatched.gone
<1> DEFINE N == Len(buffer)
           step == [n \in 1 .. N |-> [c \in Handed |-> Dispatch(c, buffer[n])]]
           after == CHOOSE h : h = [n \in 0 .. N |-> IF n = 0 THEN tab ELSE Dispatch(h[n - 1], buffer[n])]
<1>1. buffer \in Seq(Frame) /\ N \in Nat /\ DOMAIN buffer = 1 .. N /\ \A n \in 1 .. N : buffer[n] \in Frame
  BY DEF Inv, TabInv
<1>2. tab \in Handed
  BY DEF Inv, TabInv, Handed, Tabs
<1>3. \A c \in Handed, n \in 1 .. N : Dispatch(c, buffer[n]) \in Handed
  BY <1>1, DispatchFacts DEF Handed, Near
<1>4. Dispatched = after[N]
  BY DEF Dispatched
<1>5. step \in [1 .. N -> [Handed -> Handed]]
  BY <1>3
<1> HIDE DEF Handed, step
<1>6. PICK h \in [0 .. N -> Handed] : h[0] = tab /\ \A n \in 1 .. N : h[n] = step[n][h[n - 1]]
  <2> HIDE DEF N
  <2>0. N \in Nat BY <1>1
  <2>1. ASSUME NEW a \in Handed, NEW F \in [1 .. N -> [Handed -> Handed]]
        PROVE  \E h \in [0 .. N -> Handed] : h[0] = a /\ \A n \in 1 .. N : h[n] = F[n][h[n - 1]]
    BY <2>0, Recursion
  <2> QED BY <2>1, <1>2, <1>5
<1>7. h = [n \in 0 .. N |-> IF n = 0 THEN tab ELSE Dispatch(h[n - 1], buffer[n])]
  <2>1. ASSUME NEW n \in 1 .. N PROVE step[n][h[n - 1]] = Dispatch(h[n - 1], buffer[n])
    <3>1. h[n - 1] \in Handed BY <1>1, <1>6
    <3> QED BY <3>1 DEF step
  <2> QED BY <1>1, <1>6, <2>1
<1>8. after = [n \in 0 .. N |-> IF n = 0 THEN tab ELSE Dispatch(after[n - 1], buffer[n])]
  BY <1>7
<1> HIDE DEF after
<1>9. after[0] = tab /\ \A n \in Nat : n + 1 <= N => after[n + 1] = Dispatch(after[n], buffer[n + 1]) /\ n + 1 \in 1 .. N
  <2>1. after[0] = tab BY <1>1, <1>8
  <2>2. ASSUME NEW n \in Nat, n + 1 <= N PROVE after[n + 1] = Dispatch(after[n], buffer[n + 1]) /\ n + 1 \in 1 .. N
    <3>1. n + 1 \in 0 .. N /\ n + 1 # 0 /\ (n + 1) - 1 = n BY <1>1, <2>2
    <3> QED BY <1>1, <1>8, <2>2, <3>1
  <2> QED BY <2>1, <2>2
<1> HIDE DEF N
<1>10. \A n \in Nat : n <= N => after[n] \in Handed
  <2> DEFINE T == {n \in Nat : n <= N => after[n] \in Handed}
  <2>1. 0 \in T BY <1>2, <1>9
  <2>2. \A n \in Nat : n \in T => n + 1 \in T BY <1>1, <1>3, <1>9
  <2> HIDE DEF T
  <2>3. Nat \subseteq T BY <2>1, <2>2, SetInduction
  <2> QED BY <2>3 DEF T
<1>11. ASSUME NEW i \in Visited, tab.page = i, tab.watched, i \notin tab.gone PROVE Watches(after[N], i)
  <2> DEFINE T == {n \in Nat : n <= N => Watches(after[n], i)}
  <2>0. kind \in {"session", "autorun"} /\ i # 0 BY <1>11, RowFacts, CacheAssumption DEF Inv, TabInv
  <2>1. 0 \in T BY <1>9, <1>11 DEF Watches
  <2>2. ASSUME NEW n \in Nat, n \in T, n + 1 <= N PROVE Watches(after[n + 1], i)
    <3>1. after[n] \in Tabs /\ Watches(after[n], i) /\ buffer[n + 1] \in Frame
      BY <1>1, <1>9, <1>10, <2>2 DEF Handed
    <3>2. CASE after[n].page = 0
      BY <1>9, <2>2, <3>1, <3>2, DispatchFacts DEF Near, Watches
    <3>3. CASE after[n].page # 0
      BY <1>9, <2>0, <2>2, <3>1, <3>3, DispatchFacts DEF Watches
    <3> QED BY <3>2, <3>3
  <2>3. \A n \in Nat : n \in T => n + 1 \in T BY <2>2
  <2> HIDE DEF T
  <2>4. Nat \subseteq T BY <2>1, <2>3, SetInduction
  <2> QED BY <1>1, <2>4 DEF T
<1>12. ASSUME NEW i \in Ids, kind # "recording", kind # "profile", \E k \in DOMAIN buffer : buffer[k].id = i,
              LastFrame(i).verb = "created", LastFrame(i).row # Gone
       PROVE  i \notin after[N].gone
  <2> DEFINE its == {k \in DOMAIN buffer : buffer[k].id = i}
             last == Max(its)
             T == {n \in Nat : last <= n /\ n <= N => i \notin after[n].gone}
  <2>1. last \in its /\ \A k \in its : last >= k
    <3>1. its # {} /\ its \subseteq 1 .. N BY <1>1, <1>12
    <3> HIDE DEF its
    <3> QED BY <1>1, <3>1, MaxExists
  <2>2. buffer[last] = LastFrame(i) BY DEF LastFrame
  <2>3. last \in 1 .. N /\ buffer[last].id = i /\ \A k \in 1 .. N : k > last => buffer[k].id # i
    BY <1>1, <2>1
  <2> HIDE DEF last, its
  <2>4. 0 \in T BY <2>3
  <2>5. ASSUME NEW n \in Nat, n \in T, last <= n + 1, n + 1 <= N PROVE i \notin after[n + 1].gone
    <3>1. after[n] \in Tabs /\ buffer[n + 1] \in Frame /\ after[n + 1] = Dispatch(after[n], buffer[n + 1])
      BY <1>1, <1>9, <1>10, <2>5 DEF Handed
    <3>2. CASE n + 1 = last
      BY <1>12, <2>2, <2>3, <3>1, <3>2, DispatchFacts
    <3>3. CASE n + 1 # last
      <4>1. last <= n /\ n <= N /\ n + 1 > last BY <1>1, <2>3, <2>5, <3>3
      <4>2. i \notin after[n].gone BY <2>5, <4>1
      <4>3. buffer[n + 1].id # i BY <1>9, <2>3, <2>5, <4>1
      <4> QED BY <3>1, <4>2, <4>3, DispatchFacts
    <3> QED BY <3>2, <3>3
  <2>6. \A n \in Nat : n \in T => n + 1 \in T BY <2>5
  <2> HIDE DEF T
  <2>7. Nat \subseteq T BY <2>4, <2>6, SetInduction
  <2> QED BY <1>1, <2>3, <2>7 DEF T
<1>13. after[N] \in Handed BY <1>1, <1>10
<1> QED BY <1>4, <1>11, <1>12, <1>13

-----------------------------------------------------------------------------
(* The steps.                                                              *)
Holds == RecycledIdHeard /\ DeadPageLeft /\ OwnDeleteHolds
\* No tombstone is put, no flush, and no refetch of the list that ends.
Calm == /\ tab'.gone = tab.gone
        /\ buffer' = buffer \/ buffer' # <<>>
        /\ list' = list \/ list'.on # "idle" \/ list.on # "pages"

LEMMA CalmHolds == Calm => Holds
<1> SUFFICES ASSUME Calm PROVE Holds OBVIOUS
<1>1. RecycledIdHeard BY DEF Calm, RecycledIdHeard, Announced
<1>2. DeadPageLeft BY DEF Calm, DeadPageLeft
<1>3. OwnDeleteHolds BY DEF Calm, OwnDeleteHolds, Idle
<1> QED BY <1>1, <1>2, <1>3 DEF Holds

\* The invariant is of the same types as TypeOK.
LEMMA TypesFollow == Inv => TypeOK
<1> SUFFICES ASSUME Inv PROVE TypeOK OBVIOUS
<1>1. \A k \in DOMAIN events : events[k] \in [verb : Verbs, id : Ids] 
  <2>1. events \in Seq(Event) BY DEF Inv, CoreInv
  <2>2. \A k \in DOMAIN events : events[k] \in Event BY <2>1
  <2> QED BY <2>2 DEF Event
<1>2. \A k \in DOMAIN buffer : buffer[k] \in [verb : Verbs, id : Ids, row : Row]
  <2>1. buffer \in Seq(Frame) BY DEF Inv, TabInv
  <2>2. \A k \in DOMAIN buffer : buffer[k] \in Frame BY <2>1
  <2> QED BY <2>2 DEF Frame
<1>3. \A k \in DOMAIN tab.pages : tab.pages[k] \in Page BY DEF Inv, TabInv, Tabs
<1>4. list.on \in {"idle", "pages", "next"} /\ \A k \in DOMAIN list.got : list.got[k] \in Page BY DEF Inv, ListInv, Lists
<1>5. ToSet(req.ids) \subseteq Ids BY DEF Inv, TabInv, ToSet
<1> QED BY <1>1, <1>2, <1>3, <1>4, <1>5 DEF Inv, CoreInv, TabInv, TypeOK, Tabs, Unique

LEMMA ConstantsFacts ==
  /\ MaxVersion \in Nat /\ MaxEvents \in Nat /\ MaxFaults \in Nat /\ PageSize \in Nat \ {0}
  /\ Idle = [on |-> "idle", base |-> <<>>, got |-> <<>>, need |-> 0] /\ Idle \in Lists
  /\ NoFetch \in DetailFetch /\ \A row \in Row : [on |-> "read", row |-> row] \in DetailFetch
  BY CacheAssumption, RowFacts DEF Idle, Lists, NoFetch, DetailFetch

LEMMA InitInv == Init => Inv
<1> SUFFICES ASSUME Init PROVE Inv OBVIOUS
<1>2. CoreInv
  <2>1. [v |-> 1, end |-> "none"] \in Row /\ 1 \in 0 .. MaxVersion BY CacheAssumption DEF Row
  <2>2. Len(events) <= MaxEvents /\ events \in Seq(Event) BY CacheAssumption DEF Init
  <2>3. 0 \in 0 .. MaxFaults BY CacheAssumption
  <2> QED BY <2>1, <2>2, <2>3 DEF Init, CoreInv
<1>3. TabInv /\ ListInv
  BY <1>2, PageFacts, RowFacts, ConstantsFacts DEF Init, TabInv, ListInv, Tabs, Unique, Quiet
<1> QED BY <1>2, <1>3 DEF Inv

\* A write of the core takes no row this tab deleted back into existence.
LEMMA WriteKeeps ==
  ASSUME Inv, NEW i \in Ids, NEW row \in Row, NEW verbs \in Seq(Verbs), Write(i, row, verbs),
         req' \in [on : BOOLEAN, ids : Seq(Ids), deleted : SUBSET Ids]
  PROVE  Inv' /\ Holds
<1> DEFINE more == [k \in DOMAIN verbs |-> [verb |-> verbs[k], id |-> i]]
<1>1. more \in Seq(Event) /\ Len(more) = Len(verbs)
  <2>1. Len(verbs) \in Nat /\ DOMAIN verbs = 1 .. Len(verbs) OBVIOUS
  <2>2. \A k \in DOMAIN verbs : more[k] \in Event BY DEF Event
  <2> HIDE DEF more
  <2>3. DOMAIN more = 1 .. Len(verbs) BY <2>1 DEF more
  <2>4. more = [k \in 1 .. Len(verbs) |-> more[k]] BY <2>1 DEF more
  <2> QED BY <2>1, <2>2, <2>3, <2>4
<1> HIDE DEF more
<1>2. events' = events \o more BY DEF Write, more
<1>3. events' \in Seq(Event) /\ Len(events') = Len(events) + Len(verbs)
  <2>1. events \in Seq(Event) BY DEF Inv, CoreInv
  <2>2. events \o more \in Seq(Event) BY <1>1, <2>1
  <2>3. Len(events \o more) = Len(events) + Len(more)
    <3>1. ASSUME NEW s \in Seq(Event), NEW t \in Seq(Event) PROVE Len(s \o t) = Len(s) + Len(t) OBVIOUS
    <3>2. more \in Seq(Event) BY <1>1
    <3> HIDE DEF more
    <3> QED BY <2>1, <3>1, <3>2
  <2> QED BY <1>1, <1>2, <2>2, <2>3
<1>4. rows' \in [Ids -> Row] /\ version' \in 0 .. MaxVersion /\ mine' \subseteq mine /\ \A j \in mine' : rows'[j] = Gone
  BY ConstantsFacts DEF Write, Inv, CoreInv
<1>5. CoreInv'
  BY <1>3, <1>4 DEF Write, Inv, CoreInv
<1>6. TabInv' /\ ListInv'
  BY <1>4 DEF Write, Inv, TabInv, ListInv
<1>7. Calm BY DEF Write, Calm
<1> QED BY <1>5, <1>6, <1>7, CalmHolds DEF Inv

LEMMA CoreKeeps == ASSUME Inv, Core PROVE Inv' /\ Holds
<1>0. req' = req /\ req \in [on : BOOLEAN, ids : Seq(Ids), deleted : SUBSET Ids]
  BY DEF Inv, TabInv, Core, CoreCreates, CoreUpdates, CoreFinishes, CoreDeletes
<1>1. \A k \in 1 .. MaxVersion, e \in {"none", "completed", "failed"} : [v |-> k, end |-> e] \in Row
  BY ConstantsFacts DEF Row
<1>2. version < MaxVersion => version + 1 \in 1 .. MaxVersion
  BY ConstantsFacts DEF Inv, CoreInv
<1>3. CASE CoreCreates
  <2>1. PICK i \in Ids : Write(i, [v |-> version + 1, end |-> "none"], <<"created">>) BY <1>3 DEF CoreCreates
  <2>2. [v |-> version + 1, end |-> "none"] \in Row BY <1>1, <1>2, <2>1 DEF Write
  <2>3. <<"created">> \in Seq(Verbs) BY DEF Verbs
  <2> QED BY <1>0, <2>1, <2>2, <2>3, WriteKeeps
<1>4. CASE CoreUpdates
  <2>1. PICK i \in Ids : Write(i, [rows[i] EXCEPT !.v = version + 1], <<"updated">>) BY <1>4 DEF CoreUpdates
  <2>2. rows[i] \in Row BY DEF Inv, CoreInv
  <2>3. [rows[i] EXCEPT !.v = version + 1] \in Row BY <1>2, <2>1, <2>2 DEF Write, Row
  <2>4. <<"updated">> \in Seq(Verbs) BY DEF Verbs
  <2> QED BY <1>0, <2>1, <2>3, <2>4, WriteKeeps
<1>5. CASE CoreFinishes
  <2>1. PICK i \in Ids, end \in {"completed", "failed"} :
          Write(i, [v |-> version + 1, end |-> end],
                <<"updated", IF end = "failed" THEN "crashed" ELSE "stopped">>)
    BY <1>5 DEF CoreFinishes
  <2>2. [v |-> version + 1, end |-> end] \in Row BY <1>1, <1>2, <2>1 DEF Write
  <2>3. <<"updated", IF end = "failed" THEN "crashed" ELSE "stopped">> \in Seq(Verbs) BY DEF Verbs
  <2> QED BY <1>0, <2>1, <2>2, <2>3, WriteKeeps
<1>6. CASE CoreDeletes
  <2>1. PICK i \in Ids : Write(i, Gone, <<"deleted">>) BY <1>6 DEF CoreDeletes
  <2>2. <<"deleted">> \in Seq(Verbs) BY DEF Verbs
  <2> QED BY <1>0, <2>1, <2>2, RowFacts, WriteKeeps
<1> QED BY <1>3, <1>4, <1>5, <1>6 DEF Core

LEMMA PutFacts ==
  ASSUME NEW b \in Seq(Frame), Unique(b), NEW f \in Frame
  PROVE  Put(b, f) \in Seq(Frame) /\ Unique(Put(b, f)) /\ Put(b, f) # <<>>
<1> DEFINE same == {k \in DOMAIN b : b[k].verb = f.verb /\ b[k].id = f.id}
<1>1. CASE same = {}
  <2>1. Put(b, f) = Append(b, f) BY <1>1 DEF Put
  <2>2. Append(b, f) \in Seq(Frame) /\ Len(Append(b, f)) = Len(b) + 1 /\ \A k \in DOMAIN b : Append(b, f)[k] = b[k]
    OBVIOUS
  <2>3. Append(b, f)[Len(b) + 1] = f /\ DOMAIN Append(b, f) = DOMAIN b \cup {Len(b) + 1} OBVIOUS
  <2> QED BY <1>1, <2>1, <2>2, <2>3 DEF Unique
<1>2. CASE same # {}
  <2>1. Put(b, f) = [k \in DOMAIN b |-> IF k \in same THEN f ELSE b[k]] BY <1>2 DEF Put
  <2>2. \A k \in DOMAIN b : Put(b, f)[k].verb = b[k].verb /\ Put(b, f)[k].id = b[k].id BY <2>1
  <2>3. DOMAIN Put(b, f) = DOMAIN b /\ DOMAIN b = 1 .. Len(b) /\ b # <<>> BY <1>2, <2>1
  <2>4. Put(b, f) \in Seq(Frame) BY <2>1
  <2> QED BY <2>2, <2>3, <2>4 DEF Unique
<1> QED BY <1>1, <1>2

LEMMA RelayKeeps == ASSUME Inv, Relay \/ FrameLost PROVE Inv' /\ Holds
<1>1. events \in Seq(Event) /\ events # <<>> /\ events' = Tail(events)
  BY DEF Relay, FrameLost, Inv, CoreInv
<1>2. events' \in Seq(Event) /\ Len(events') <= MaxEvents
  BY <1>1, ConstantsFacts DEF Inv, CoreInv
<1>3. CASE Relay
  <2>1. Head(events) \in Event
    <3>1. Head(events) = events[1] /\ 1 \in DOMAIN events BY <1>1
    <3> QED BY <1>1, <3>1
  <2>2. FrameOf(Head(events)) \in Frame BY <2>1, RowFacts DEF FrameOf, Event, Frame, Inv, CoreInv
  <2>3. buffer' \in Seq(Frame) /\ Unique(buffer') /\ buffer' # <<>>
    BY <1>3, <2>2, PutFacts DEF Relay, Inv, TabInv
  <2>4. Calm BY <1>3, <2>3 DEF Relay, Calm
  <2> QED BY <1>2, <1>3, <2>3, <2>4, CalmHolds DEF Relay, Inv, CoreInv, TabInv, ListInv
<1>4. CASE FrameLost
  <2>1. faults' \in 0 .. MaxFaults BY <1>4, ConstantsFacts DEF FrameLost, Inv, CoreInv
  <2>2. Calm BY <1>4 DEF FrameLost, Calm
  <2> QED BY <1>2, <1>4, <2>1, <2>2, CalmHolds DEF FrameLost, Inv, CoreInv, TabInv, ListInv
<1> QED BY <1>3, <1>4

LEMMA StartFacts ==
  ASSUME NEW c \in Tabs, c.pages # <<>>
  PROVE  StartPages(c) \in Lists /\ StartPages(c).on = "pages" /\ StartPages(c).base = <<>> /\ StartPages(c).got = <<>>
<1>1. Len(c.pages) \in Nat \ {0} BY DEF Tabs
<1>2. Max({1, Len(c.pages)}) \in Nat
  <2>1. {1, Len(c.pages)} \subseteq 1 .. Len(c.pages) /\ {1, Len(c.pages)} # {} BY <1>1
  <2>2. Max({1, Len(c.pages)}) \in {1, Len(c.pages)} BY <1>1, <2>1, MaxExists
  <2> QED BY <1>1, <2>2
<1> QED BY <1>2, ConstantsFacts DEF StartPages, Lists

\* What a handler leaves is consistent, and a list that is to be read again and
\* is on the page is read from its first page on.
LEMMA LeaveFacts ==
  ASSUME Inv, NEW c \in Tabs, c.pages # <<>>, c.page \in {tab.page, 0}, Leave(c)
  PROVE  /\ tab' \in Tabs /\ tab'.stale = {} /\ tab'.cut = {} /\ tab'.pages = c.pages /\ tab'.page = c.page
         /\ tab'.gone = c.gone /\ tab'.watched = c.watched
         /\ tab'.page # 0 => kind \in {"session", "autorun"}
         /\ detail' \in [Visited -> DetailFetch]
         /\ list' \in Lists
         /\ list' = list \/ (list'.on = "pages" /\ list'.base = <<>> /\ list'.got = <<>>)
         /\ 0 \in c.stale /\ c.page = 0 => list'.on = "pages" /\ list'.base = <<>> /\ list'.got = <<>>
<1>1. /\ tab' \in Tabs /\ tab'.stale = {} /\ tab'.cut = {} /\ tab'.pages = c.pages /\ tab'.page = c.page
      /\ tab'.gone = c.gone /\ tab'.watched = c.watched
  BY DEF Leave, Tabs
<1>2. tab'.page # 0 => kind \in {"session", "autorun"} BY <1>1 DEF Inv, TabInv
<1>3. detail' \in [Visited -> DetailFetch]
  <2>1. [NoFetch EXCEPT !.on = "asked"] \in DetailFetch BY ConstantsFacts DEF DetailFetch
  <2>2. \A i \in Visited : detail[i] \in DetailFetch BY DEF Inv, TabInv
  <2> QED BY <2>1, <2>2, ConstantsFacts DEF Leave, DetailAfter
<1>4. list' = list \/ list' = StartPages(c) BY DEF Leave, ListAfter
<1>5. 0 \in c.stale /\ c.page = 0 => list' = StartPages(c) BY DEF Leave, ListAfter
<1>6. list \in Lists BY DEF Inv, ListInv
<1> HIDE DEF Leave
<1>7. /\ list' \in Lists
      /\ list' = list \/ (list'.on = "pages" /\ list'.base = <<>> /\ list'.got = <<>>)
      /\ 0 \in c.stale /\ c.page = 0 => list'.on = "pages" /\ list'.base = <<>> /\ list'.got = <<>>
  BY <1>4, <1>5, <1>6, StartFacts
<1> QED BY <1>1, <1>2, <1>3, <1>7

LEMMA FlushKeeps == ASSUME Inv, Flush PROVE Inv' /\ Holds
<1> DEFINE c == Dispatched
<1>1. c \in Tabs /\ c.pages # <<>> /\ c.page \in {tab.page, 0}
  <2>1. c \in Tabs /\ Len(c.pages) = Len(tab.pages) /\ c.page \in {tab.page, 0} BY FlushFacts DEF Handed
  <2>2. tab.pages \in Seq(Page) /\ tab.pages # <<>> BY DEF Inv, TabInv, Tabs
  <2>3. c.pages \in Seq(Page) BY <2>1 DEF Tabs
  <2> HIDE DEF c
  <2> QED BY <2>1, <2>2, <2>3
<1>2. /\ \A i \in Visited : tab.page = i /\ tab.watched /\ i \notin tab.gone => Watches(c, i)
      /\ \A i \in Ids : /\ kind # "recording" /\ kind # "profile"
                        /\ \E k \in DOMAIN buffer : buffer[k].id = i
                        /\ LastFrame(i).verb = "created" /\ LastFrame(i).row # Gone
                        => i \notin c.gone
  BY FlushFacts
<1>3. Leave(c) /\ buffer' = <<>> /\ UNCHANGED <<core, req, mine, faults>> BY DEF Flush
<1> HIDE DEF c
<1>4. /\ tab' \in Tabs /\ tab'.stale = {} /\ tab'.cut = {} /\ tab'.pages = c.pages /\ tab'.page = c.page
      /\ tab'.gone = c.gone
      /\ tab'.page # 0 => kind \in {"session", "autorun"}
      /\ detail' \in [Visited -> DetailFetch] /\ list' \in Lists
      /\ list' = list \/ (list'.on = "pages" /\ list'.base = <<>> /\ list'.got = <<>>)
  BY <1>1, <1>3, LeaveFacts
<1>11. tab'.gone = c.gone /\ tab'.page = c.page BY <1>4
<1>5. CoreInv' BY <1>3 DEF Inv, CoreInv, core
<1>6. TabInv' BY <1>1, <1>3, <1>4 DEF Inv, TabInv, core, Unique
<1>7. ListInv' BY <1>3, <1>4 DEF Inv, ListInv
<1>8. RecycledIdHeard
  <2> SUFFICES ASSUME NEW i \in Ids, kind # "recording", kind # "profile", Announced(i) PROVE i \notin tab'.gone
    BY DEF RecycledIdHeard
  <2>1. i \notin c.gone BY <1>2 DEF Announced
  <2> QED BY <1>11, <2>1
<1>9. DeadPageLeft
  <2> SUFFICES ASSUME NEW i \in Visited, tab.page = i, tab.watched, i \in tab'.gone \ tab.gone PROVE tab'.page = 0
    BY DEF DeadPageLeft
  <2>1. Watches(c, i) BY <1>2
  <2> QED BY <1>11, <2>1 DEF Watches
<1>10. OwnDeleteHolds BY <1>4 DEF OwnDeleteHolds, Idle
<1> QED BY <1>5, <1>6, <1>7, <1>8, <1>9, <1>10 DEF Inv, Holds

\* The pages of the list: polled, extended, read and answered.
LEMMA PollKeeps == ASSUME Inv, Poll \/ LoadMore PROVE Inv' /\ Holds
<1>1. tab \in Tabs /\ tab.pages # <<>> /\ tab.pages \in Seq(Page) BY DEF Inv, TabInv, Tabs
<1>2. CASE Poll
  <2>1. list' \in Lists /\ list'.on = "pages" /\ list'.base = <<>> /\ list'.got = <<>>
    BY <1>1, <1>2, StartFacts DEF Poll
  <2>2. UNCHANGED <<core, buffer, tab, detail, req, mine, faults>> BY <1>2 DEF Poll
  <2>3. Calm BY <2>1, <2>2 DEF Calm
  <2> QED BY <2>1, <2>2, <2>3, CalmHolds DEF core, Inv, CoreInv, TabInv, ListInv
<1>3. CASE LoadMore
  <2>1. list' = [on |-> "next", base |-> tab.pages, got |-> <<>>, need |-> 1] BY <1>3 DEF LoadMore
  <2>2. list' \in Lists /\ list'.on = "next" BY <1>1, <2>1 DEF Lists
  <2>3. UNCHANGED <<core, buffer, tab, detail, req, mine, faults>> BY <1>3 DEF LoadMore
  <2>4. Calm BY <2>2, <2>3 DEF Calm
  <2> QED BY <2>2, <2>3, <2>4, CalmHolds DEF core, Inv, CoreInv, TabInv, ListInv
<1> QED BY <1>2, <1>3

LEMMA ListReadKeeps == ASSUME Inv, ListRead PROVE Inv' /\ Holds
<1> DEFINE cursor == IF ReadPages = <<>> THEN 0 ELSE NextCursor(Last(ReadPages))
           page == PageBelow(cursor)
<1>1. list \in Lists /\ list.got \in Seq(Page) BY DEF Inv, ListInv, Lists
<1>2. page \in Page /\ \A i \in Ids : rows[i] = Gone => page.items[i] = Gone
  BY PageFacts DEF Inv
<1>3. list' = [list EXCEPT !.got = Append(list.got, page)] /\ UNCHANGED <<core, buffer, tab, detail, req, mine, faults>>
  BY DEF ListRead
<1> HIDE DEF page
<1>4. Append(list.got, page) \in Seq(Page) BY <1>1, <1>2
<1>5. list' \in Lists /\ list'.on = list.on /\ list'.base = list.base /\ list'.got = Append(list.got, page)
  BY <1>1, <1>3, <1>4 DEF Lists
<1>6. \A k \in DOMAIN list'.got : list'.got[k] = page \/ (k \in DOMAIN list.got /\ list'.got[k] = list.got[k])
  BY <1>1, <1>5
<1>7. \A i \in mine : page.items[i] = Gone BY <1>2 DEF Inv, CoreInv
<1>8. ListInv' BY <1>3, <1>5, <1>6, <1>7 DEF Inv, ListInv
<1>9. list.on # "idle" BY DEF ListRead
<1>10. Calm BY <1>3, <1>5, <1>9 DEF Calm
<1> QED BY <1>3, <1>8, <1>10, CalmHolds DEF core, Inv, CoreInv, TabInv

\* The answer of a refetch: no row this tab deleted is on its pages.
LEMMA ListAnswersKeeps == ASSUME Inv, ListAnswers PROVE Inv' /\ Holds
<1>1. /\ list.got # <<>> /\ tab' = [tab EXCEPT !.pages = list.base \o list.got] /\ list' = Idle
      /\ UNCHANGED <<core, buffer, detail, req, mine, faults>>
  BY DEF ListAnswers, Complete, ReadPages
<1>2. list.base \in Seq(Page) /\ list.got \in Seq(Page) BY DEF Inv, ListInv, Lists
<1>3. list.base \o list.got \in Seq(Page) /\ list.base \o list.got # <<>> BY <1>1, <1>2
<1>4. tab' \in Tabs /\ tab'.pages = list.base \o list.got /\ tab'.gone = tab.gone /\ tab'.page = tab.page
      /\ tab'.stale = tab.stale /\ tab'.cut = tab.cut
  BY <1>1, <1>3 DEF Inv, TabInv, Tabs
<1>5. TabInv' BY <1>1, <1>3, <1>4 DEF Inv, TabInv, core
<1>6. ListInv' BY <1>1, ConstantsFacts DEF ListInv
<1>7. CoreInv' BY <1>1 DEF Inv, CoreInv, core
<1>8. OwnDeleteHolds
  <2> SUFFICES ASSUME list.on = "pages" PROVE Shown(tab') \cap mine = {}
    BY DEF OwnDeleteHolds
  <2>1. tab'.pages = list.got
    <3>1. list.base = <<>> BY DEF Inv, ListInv
    <3> QED BY <1>2, <1>4, <3>1
  <2>2. \A k \in DOMAIN list.got : \A i \in mine : list.got[k].items[i] = Gone BY DEF Inv, ListInv
  <2> QED BY <2>1, <2>2 DEF Shown
<1>9. RecycledIdHeard /\ DeadPageLeft BY <1>1, <1>4 DEF RecycledIdHeard, Announced, DeadPageLeft
<1> QED BY <1>5, <1>6, <1>7, <1>8, <1>9 DEF Inv, Holds

LEMMA DetailKeeps ==
  ASSUME Inv, DetailPoll \/ \E i \in Visited : DetailRead(i) \/ DetailAnswers(i)
  PROVE  Inv' /\ Holds
<1>0. detail \in [Visited -> DetailFetch] /\ rows \in [Ids -> Row] /\ Visited \subseteq Ids /\ tab \in Tabs
  BY CacheAssumption DEF Inv, TabInv, CoreInv
<1>1. CASE DetailPoll
  <2>1. PICK i \in Visited : detail' = [detail EXCEPT ![i].on = "asked"] /\ UNCHANGED <<core, buffer, tab, list, req, mine, faults>>
    BY <1>1 DEF DetailPoll
  <2>2. [detail[i] EXCEPT !.on = "asked"] \in DetailFetch BY <1>0 DEF DetailFetch
  <2>3. detail' \in [Visited -> DetailFetch] BY <1>0, <2>1, <2>2
  <2>4. Calm BY <2>1 DEF Calm
  <2> QED BY <2>1, <2>3, <2>4, CalmHolds DEF core, Inv, CoreInv, TabInv, ListInv
<1>2. ASSUME NEW i \in Visited, DetailRead(i) PROVE Inv' /\ Holds
  <2>1. detail' = [detail EXCEPT ![i] = [on |-> "read", row |-> rows[i]]] /\ UNCHANGED <<core, buffer, tab, list, req, mine, faults>>
    BY <1>2 DEF DetailRead
  <2>2. rows[i] \in Row BY <1>0
  <2>3. detail' \in [Visited -> DetailFetch] BY <1>0, <2>1, <2>2, ConstantsFacts
  <2>4. Calm BY <2>1 DEF Calm
  <2> QED BY <2>1, <2>3, <2>4, CalmHolds DEF core, Inv, CoreInv, TabInv, ListInv
<1>3. ASSUME NEW i \in Visited, DetailAnswers(i) PROVE Inv' /\ Holds
  <2>1. /\ tab' = IF detail[i].row = Gone THEN tab ELSE UpsertDetail(tab, i, detail[i].row)
        /\ detail' = [detail EXCEPT ![i] = NoFetch] /\ UNCHANGED <<core, buffer, list, req, mine, faults>>
    BY <1>3 DEF DetailAnswers
  <2>2. detail[i].row \in Row /\ i \in Ids BY <1>0 DEF DetailFetch
  <2>3. /\ tab' \in Tabs /\ tab'.pages = tab.pages /\ tab'.gone = tab.gone /\ tab'.page = tab.page
        /\ tab'.stale = tab.stale /\ tab'.cut = tab.cut
    <3>1. UpsertDetail(tab, i, detail[i].row).stale = tab.stale /\ UpsertDetail(tab, i, detail[i].row).cut = tab.cut
      BY <1>0 DEF UpsertDetail, Tabs
    <3> QED BY <1>0, <2>1, <2>2, <3>1, UpsertDetailFacts
  <2>4. detail' \in [Visited -> DetailFetch] BY <1>0, <2>1, ConstantsFacts
  <2>5. Calm BY <2>1, <2>3 DEF Calm
  <2> QED BY <2>1, <2>3, <2>4, <2>5, CalmHolds DEF core, Inv, CoreInv, TabInv, ListInv
<1> QED BY <1>1, <1>2, <1>3

LEMMA WalksKeep == ASSUME Inv, OpenDetail \/ BackToList PROVE Inv' /\ Holds
<1>0. detail \in [Visited -> DetailFetch] /\ tab \in Tabs BY DEF Inv, TabInv
<1>1. CASE OpenDetail
  <2>1. PICK i \in Visited : /\ tab' = [tab EXCEPT !.page = i, !.watched = TRUE] /\ kind \in {"session", "autorun"}
                             /\ detail' = [detail EXCEPT ![i].on = IF @ = "idle" THEN "asked" ELSE @]
                             /\ UNCHANGED <<core, buffer, list, req, mine, faults>>
    BY <1>1 DEF OpenDetail
  <2> DEFINE fetch == [detail[i] EXCEPT !.on = IF @ = "idle" THEN "asked" ELSE @]
  <2>2. fetch \in DetailFetch BY <1>0 DEF DetailFetch
  <2>3. detail' = [detail EXCEPT ![i] = fetch] BY <2>1
  <2> HIDE DEF fetch
  <2>4. detail' \in [Visited -> DetailFetch] BY <1>0, <2>2, <2>3
  <2>5. tab' \in Tabs /\ tab'.pages = tab.pages /\ tab'.gone = tab.gone /\ tab'.stale = tab.stale /\ tab'.cut = tab.cut
    BY <1>0, <2>1 DEF Tabs
  <2>6. Calm BY <2>1, <2>5 DEF Calm
  <2> QED BY <2>1, <2>4, <2>5, <2>6, CalmHolds DEF core, Inv, CoreInv, TabInv, ListInv
<1>2. CASE BackToList
  <2>1. tab' = [tab EXCEPT !.page = 0, !.watched = FALSE] /\ UNCHANGED <<core, buffer, list, detail, req, mine, faults>>
    BY <1>2 DEF BackToList
  <2>2. /\ tab' \in Tabs /\ tab'.pages = tab.pages /\ tab'.gone = tab.gone /\ tab'.stale = tab.stale
        /\ tab'.cut = tab.cut /\ tab'.page = 0
    BY <1>0, <2>1 DEF Tabs
  <2>3. Calm BY <2>1, <2>2 DEF Calm
  <2> QED BY <2>1, <2>2, <2>3, CalmHolds DEF core, Inv, CoreInv, TabInv, ListInv
<1> QED BY <1>1, <1>2

\* Deletions of the view: begun, served or refused, answered.
Requesting == [on : BOOLEAN, ids : Seq(Ids), deleted : SUBSET Ids]

LEMMA RequestKeeps ==
  ASSUME Inv, req' \in Requesting, UNCHANGED <<core, buffer, tab, list, detail, mine>>, faults' \in 0 .. MaxFaults
  PROVE  Inv' /\ Holds
<1>1. Calm BY DEF Calm
<1> QED BY <1>1, CalmHolds DEF core, Inv, CoreInv, TabInv, ListInv, Requesting

LEMMA DeletesKeep == ASSUME Inv, BeginDelete \/ ServeDelete \/ RefuseDelete PROVE Inv' /\ Holds
<1>0. req \in Requesting /\ req.ids \in Seq(Ids) /\ faults \in 0 .. MaxFaults BY DEF Inv, TabInv, CoreInv, Requesting
<1>1. CASE BeginDelete
  <2>1. PICK S \in SUBSET Shown(tab) \ {{}} : req' = [Quiet EXCEPT !.on = TRUE, !.ids = [k \in 1 .. Cardinality(S) |-> Kth(S, k)]]
    BY <1>1 DEF BeginDelete
  <2>2. S \subseteq Ids /\ Cardinality(Ids) \in Nat /\ Ids = 1 .. Cardinality(Ids) /\ Cardinality(S) \in Nat
    <3>1. S \subseteq Ids BY DEF Shown
    <3>2. IsFiniteSet(S) BY <3>1, CacheAssumption, FS_Subset
    <3> QED BY <3>1, <3>2, CacheAssumption, FS_CardinalityType
  <2>3. \A k \in 1 .. Cardinality(S) : Kth(S, k) \in Ids
    <3> TAKE k \in 1 .. Cardinality(S)
    <3>1. S \subseteq 1 .. Cardinality(Ids) BY <2>2
    <3>2. Kth(S, k) \in S BY <2>2, <3>1, KthExists
    <3> QED BY <2>2, <3>2
  <2> DEFINE order == [k \in 1 .. Cardinality(S) |-> Kth(S, k)]
  <2>4. order \in Seq(Ids) BY <2>2, <2>3
  <2> HIDE DEF order
  <2>5. req' = [Quiet EXCEPT !.on = TRUE, !.ids = order] BY <2>1 DEF order
  <2>6. req' \in Requesting BY <2>4, <2>5 DEF Quiet, Requesting
  <2> QED BY <1>0, <1>1, <2>6, RequestKeeps DEF BeginDelete
<1>2. CASE ServeDelete
  <2>1. Head(req.ids) \in Ids /\ Tail(req.ids) \in Seq(Ids)
    <3>1. req.ids # <<>> BY <1>2 DEF ServeDelete
    <3>2. Head(req.ids) = req.ids[1] /\ 1 \in DOMAIN req.ids BY <1>0, <3>1
    <3> QED BY <1>0, <3>1, <3>2
  <2>2. req' \in Requesting BY <1>0, <1>2, <2>1 DEF ServeDelete, Requesting
  <2>3. <<"deleted">> \in Seq(Verbs) BY DEF Verbs
  <2>4. Write(Head(req.ids), Gone, <<"deleted">>) BY <1>2 DEF ServeDelete
  <2> QED BY <2>1, <2>2, <2>3, <2>4, RowFacts, WriteKeeps DEF Requesting
<1>3. CASE RefuseDelete
  <2>1. Tail(req.ids) \in Seq(Ids) BY <1>0, <1>3 DEF RefuseDelete
  <2>2. req' \in Requesting BY <1>0, <1>3, <2>1 DEF RefuseDelete, Requesting
  <2>3. faults' \in 0 .. MaxFaults BY <1>0, <1>3, ConstantsFacts DEF RefuseDelete
  <2> QED BY <1>3, <2>2, <2>3, RequestKeeps DEF RefuseDelete
<1> QED BY <1>1, <1>2, <1>3

\* The answer of a deletion takes its rows from the caches and reads the list
\* anew, if that is on the page.
LEMMA DeleteAnswersKeeps == ASSUME Inv, DeleteAnswers PROVE Inv' /\ Holds
<1> DEFINE ids == req.deleted
           Without(p) == [p EXCEPT !.items = [i \in Ids |-> IF i \in ids THEN Gone ELSE p.items[i]]]
           ps == [k \in DOMAIN tab.pages |-> Without(tab.pages[k])]
           d == [i \in Visited |-> IF i \in ids THEN Gone ELSE tab.detail[i]]
           removed == [tab EXCEPT !.pages = ps, !.detail = d, !.cut = tab.cut \cup (ids \cap Visited),
                                  !.watched = tab.watched /\ tab.page \notin ids]
           c == AfterDelete(tab, ids)
<1>0. /\ tab \in Tabs /\ tab.pages # <<>> /\ tab.pages \in Seq(Page) /\ tab.detail \in [Visited -> Row]
      /\ ids \subseteq Ids /\ tab.watched \in BOOLEAN
  BY DEF Inv, TabInv, Tabs
<1>1. Leave(c) /\ req' = Quiet /\ UNCHANGED <<core, buffer, faults>> BY DEF DeleteAnswers
<1>2. mine' = IF tab.page = 0 THEN mine \cup {i \in ids : rows[i] = Gone} ELSE mine BY DEF DeleteAnswers
<1> HIDE DEF ids
<1>3. ps \in Seq(Page) /\ ps # <<>>
  <2>1. \A p \in Page : Without(p) \in Page
    <3> TAKE p \in Page
    <3>1. [i \in Ids |-> IF i \in ids THEN Gone ELSE p.items[i]] \in [Ids -> Row] BY RowFacts DEF Page
    <3> QED BY <3>1 DEF Page
  <2> HIDE DEF Without
  <2>2. DOMAIN tab.pages = 1 .. Len(tab.pages) /\ \A k \in DOMAIN tab.pages : tab.pages[k] \in Page BY <1>0
  <2>3. Len(ps) = Len(tab.pages) /\ ps \in Seq(Page) BY <1>0, <2>1, <2>2
  <2> QED BY <1>0, <2>3
<1>4. d \in [Visited -> Row] BY <1>0, RowFacts
<1>5. c = [removed EXCEPT !.stale = removed.stale \cup ({0} \cup ids)]
  BY DEF AfterDelete, Invalidate, Removed, ids
<1> HIDE DEF ps, d, c
<1>6. removed \in Tabs /\ removed.pages = ps /\ removed.page = tab.page /\ removed.gone = tab.gone
  BY <1>0, <1>3, <1>4 DEF Tabs
<1> HIDE DEF removed
<1>7. c \in Tabs /\ c.pages # <<>> /\ c.page = tab.page /\ c.gone = tab.gone /\ 0 \in c.stale
  BY <1>0, <1>3, <1>5, <1>6 DEF Tabs
<1>8. /\ tab' \in Tabs /\ tab'.stale = {} /\ tab'.cut = {} /\ tab'.pages = c.pages /\ tab'.page = c.page
      /\ tab'.gone = c.gone
      /\ tab'.page # 0 => kind \in {"session", "autorun"}
      /\ detail' \in [Visited -> DetailFetch] /\ list' \in Lists
      /\ list' = list \/ (list'.on = "pages" /\ list'.base = <<>> /\ list'.got = <<>>)
      /\ c.page = 0 => list'.on = "pages" /\ list'.base = <<>> /\ list'.got = <<>>
  BY <1>1, <1>7, LeaveFacts
<1>9. CoreInv'
  <2>1. mine' \subseteq Ids /\ \A i \in mine' : rows[i] = Gone BY <1>0, <1>2 DEF Inv, CoreInv
  <2> QED BY <1>1, <2>1 DEF Inv, CoreInv, core
<1>10. TabInv'
  <2>1. req' \in [on : BOOLEAN, ids : Seq(Ids), deleted : SUBSET Ids] BY <1>1 DEF Quiet
  <2> QED BY <1>1, <1>7, <1>8, <2>1 DEF Inv, TabInv, core
<1>11. ListInv'
  <2>1. CASE tab.page = 0 BY <1>7, <1>8, <2>1 DEF ListInv
  <2>2. CASE tab.page # 0
    <3>1. mine' = mine BY <1>2, <2>2
    <3> QED BY <1>8, <3>1 DEF Inv, ListInv
  <2> QED BY <2>1, <2>2
<1>12. Calm BY <1>1, <1>7, <1>8 DEF Calm
<1> QED BY <1>9, <1>10, <1>11, <1>12, CalmHolds DEF Inv

LEMMA StepKeeps == ASSUME Inv, Next PROVE Inv' /\ Holds
<1> USE CoreKeeps, RelayKeeps, FlushKeeps, PollKeeps, ListReadKeeps, ListAnswersKeeps, DetailKeeps, WalksKeep, DeletesKeep, DeleteAnswersKeeps
<1>1. CASE Core BY <1>1
<1>2. CASE User BY <1>2 DEF User
<1>3. CASE Tab BY <1>3 DEF Tab
<1>4. CASE Requests BY <1>4 DEF Requests
<1>5. CASE Relay \/ FrameLost BY <1>5
<1> QED BY <1>1, <1>2, <1>3, <1>4, <1>5 DEF Next

LEMMA StutterKeeps == ASSUME Inv, UNCHANGED vars PROVE Inv' /\ Holds
<1>1. UNCHANGED <<kind, rows, version, events, buffer, tab, list, detail, req, mine, faults, habit>> BY DEF vars
<1>2. Calm BY <1>1 DEF Calm
<1> QED BY <1>1, <1>2, CalmHolds DEF Inv, CoreInv, TabInv, ListInv, Unique

\* Deletions are final for the row they were of, and for that row only: a row
\* that gets a deleted row's id is heard of, the page of a row that is gone is
\* left, and a refetch brings back nothing this tab deleted (event-table.ts,
\* sessions-list.tsx). For any number of rows, page size and order of frames.
THEOREM DeletionsStand == Spec => DeletionsHold
<1>1. Init => Inv BY InitInv
<1>2. Inv /\ [Next]_vars => Inv'
  BY StepKeeps, StutterKeeps
<1>3. Inv /\ Inv' /\ [Next]_vars => TypeOK /\ TypeOK' /\ RecycledIdHeard /\ DeadPageLeft /\ OwnDeleteHolds
  <2> SUFFICES ASSUME Inv, Inv', [Next]_vars PROVE TypeOK /\ TypeOK' /\ RecycledIdHeard /\ DeadPageLeft /\ OwnDeleteHolds
    OBVIOUS
  <2>1. TypeOK BY TypesFollow
  <2>2. TypeOK' BY TypesFollow, PTL
  <2>3. Holds BY StepKeeps, StutterKeeps
  <2> QED BY <2>1, <2>2, <2>3 DEF Holds
<1> QED BY <1>1, <1>2, <1>3, PTL DEF Spec, DeletionsHold
=============================================================================
