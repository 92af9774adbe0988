---------------------------- MODULE ConsoleProofs ---------------------------
(***************************************************************************)
(* The console, for all events, organizations, projects, roles, limits and *)
(* bounds.                                                                 *)
(*   - Walks over stored events: nothing is listed twice, and a walk that  *)
(*     has come to its end has left out nothing that has not changed.      *)
(*   - The live view: no row is shown twice, and each row that appeared in *)
(*     time has been brought to the view, unless it has told of an         *)
(*     interruption or of its load limit.                                  *)
(*   - The settings pages: the link that is shown once stays with its      *)
(*     organization.                                                       *)
(*   - The gate: what a page shows belongs to its project, unless the user *)
(*     types another one over it, and a setup that is tried again goes on  *)
(*     with the organization it has created.                               *)
(***************************************************************************)
EXTENDS HistoryPages, LiveObservation, SettingsPages, WorkspaceGate, SubsequencesProofs,
        SequenceTheorems

-----------------------------------------------------------------------------
(* Walks over stored events.                                               *)

HistorySpec == HistoryInit /\ [][HistoryNext]_historyVars

-----------------------------------------------------------------------------
(* What a cursor holds of a row.                                           *)

Cursor == [seen : Nat, key : Nat]
Groups == Range(GroupOf)

ViewOK == view \in EventViews \cup GroupViews /\ stored \in [Events -> Times \cup {0}]

\* Rows that are found have events of the window.
LEMMA FoundType ==
  ASSUME ViewOK, NEW g \in RowsOfView, Found(g) # {}
  PROVE  /\ Latest(g) \in Nat \ {0}
         /\ \A e \in Found(g) : stored[e] <= Latest(g)
         /\ \E e \in Found(g) : stored[e] = Latest(g)
<1> DEFINE S == {stored[e] : e \in Found(g)}
<1>1. Found(g) \subseteq Events /\ \A e \in Found(g) : stored[e] \in Nat \ {0}
  BY HistoryAssumption DEF Found, ViewOK
<1>2. IsFiniteSet(Found(g))
  BY <1>1, HistoryAssumption, FS_Subset
<1>3. IsFiniteSet(S)
  <2> DEFINE f == [e \in Found(g) |-> stored[e]]
  <2>1. f \in Surjection(Found(g), S)
    BY DEF Surjection
  <2> QED BY <1>2, <2>1, FS_Surjection
<1>4. S \in SUBSET Nat /\ S # {}
  BY <1>1
<1>5. Max(S) \in S /\ \A m \in S : m <= Max(S)
  BY <1>3, <1>4, MaxIsGreatest
<1> QED BY <1>1, <1>5 DEF Latest

LEMMA RowsType ==
  ASSUME ViewOK
  PROVE  /\ RowsOfView \subseteq Nat
         /\ view \in EventViews => RowsOfView \subseteq Events
         /\ view \notin EventViews => RowsOfView \subseteq Groups
         /\ IsFiniteSet(RowsOfView)
<1>1. \A e \in Events : GroupOf[e] \in Nat /\ GroupOf[e] \in Groups
  BY HistoryAssumption DEF Groups, Range
<1>2. /\ RowsOfView \subseteq Nat
      /\ view \in EventViews => RowsOfView \subseteq Events
      /\ view \notin EventViews => RowsOfView \subseteq Groups
  BY <1>1, HistoryAssumption DEF RowsOfView, RowOf
<1>3. IsFiniteSet(RowsOfView)
  <2>1. IsFiniteSet({e \in Events : Passes(e)})
    BY HistoryAssumption, FS_Subset
  <2> DEFINE f == [e \in {e \in Events : Passes(e)} |-> RowOf(e)]
  <2>2. f \in Surjection({e \in Events : Passes(e)}, RowsOfView)
    BY DEF Surjection, RowsOfView
  <2> QED BY <2>1, <2>2, FS_Surjection
<1> QED BY <1>2, <1>3

\* Every cursor is the time of the latest event and a key, which only measures share.
LEMMA CursorType ==
  ASSUME ViewOK, NEW g \in RowsOfView, Found(g) # {}
  PROVE  /\ CursorOf(g) \in Cursor
         /\ CursorOf(g).seen = Latest(g)
         /\ view = "performance" => CursorOf(g).key = WithoutUnit[g]
         /\ view # "performance" => CursorOf(g).key = g
<1>1. Latest(g) \in Nat /\ \E e \in Found(g) : stored[e] = Latest(g)
  BY FoundType
<1>2. g \in Nat
  BY RowsType
<1>3. CASE view \in EventViews
  <2>1. Found(g) \subseteq {g}
    BY <1>3 DEF Found, RowOf
  <2>2. stored[g] = Latest(g)
    BY <1>1, <2>1
  <2>3. CursorOf(g) = [seen |-> stored[g], key |-> g]
    BY <1>3 DEF CursorOf, EventCursor, EventViews
  <2>4. view # "performance"
    BY <1>3 DEF EventViews
  <2> QED BY <1>1, <1>2, <2>2, <2>3, <2>4 DEF Cursor
<1>4. CASE view = "performance"
  <2>1. WithoutUnit[g] \in Nat
    <3>1. view \notin EventViews
      BY <1>4 DEF EventViews
    <3> QED BY <3>1, RowsType, HistoryAssumption DEF Groups
  <2>2. CursorOf(g) = [seen |-> Latest(g), key |-> WithoutUnit[g]]
    BY <1>4 DEF CursorOf, PerformanceCursor, EventViews
  <2> QED BY <1>1, <1>4, <2>1, <2>2 DEF Cursor
<1>5. CASE view \in {"issues", "network", "releases"}
  <2>1. CursorOf(g) = [seen |-> Latest(g), key |-> g]
    BY <1>5 DEF CursorOf, IssueCursor, NetworkCursor, ReleaseCursor, EventViews
  <2> QED BY <1>1, <1>2, <1>5, <2>1 DEF Cursor
<1> QED BY <1>3, <1>4, <1>5 DEF ViewOK, GroupViews


\* What is said of the cursors, of this state and of the next.
CursorsAreTyped ==
  ViewOK => \A g \in RowsOfView : Found(g) # {} =>
    /\ CursorOf(g) \in Cursor
    /\ CursorOf(g).seen = Latest(g)
    /\ view = "performance" => CursorOf(g).key = WithoutUnit[g]
    /\ view # "performance" => CursorOf(g).key = g
    /\ Latest(g) \in Nat \ {0}
    /\ \A e \in Found(g) : stored[e] <= Latest(g)
    /\ \E e \in Found(g) : stored[e] = Latest(g)

LEMMA CursorsHold == CursorsAreTyped
BY CursorType, FoundType DEF CursorsAreTyped

LEMMA CursorsHoldNext == CursorsAreTyped'
BY CursorsHold, PTL

\* The order of cursors.
LEMMA OrderOfCursors ==
  /\ \A c, d \in Cursor : Below(c, d) => ~Below(d, c)
  /\ \A c, d, f \in Cursor : ~Below(c, d) /\ ~Below(d, f) => ~Below(c, f)
  /\ \A c, d, f \in Cursor : Below(c, d) /\ ~Below(f, d) => Below(c, f)
  /\ \A c, d, f \in Cursor : Below(c, d) /\ Below(d, f) => Below(c, f)
  /\ \A c, d \in Cursor : ~Below(c, d) /\ ~Below(d, c) => c.key = d.key
  /\ \A c \in Cursor : ~Below(c, c)
BY DEF Below, Cursor

-----------------------------------------------------------------------------
(* Pages.                                                                  *)

\* The rows that a query with this cursor is about.
Wanted(cursor) ==
  {g \in RowsOfView : Found(g) # {} /\ (cursor = NoCursor \/ Below(CursorOf(g), cursor))}

IsListing(listing, rows, size) ==
  /\ listing \in [1..size -> rows]
  /\ IsInjective(listing)
  /\ \A i, j \in 1..size : i < j => ~Below(CursorOf(listing[i]), CursorOf(listing[j]))
  /\ \A g \in rows \ {listing[i] : i \in 1..size}, i \in 1..size :
       ~Below(CursorOf(listing[i]), CursorOf(g))

\* A page begins a listing of these rows, which goes on where there are more.
IsPage(page, cursor) ==
  /\ page.rows \in Seq(Wanted(cursor)) /\ IsInjective(page.rows)
  /\ page.more \in BOOLEAN /\ (page.more => page.rows # <<>>)
  /\ \A i, j \in DOMAIN page.rows :
       i < j => ~Below(CursorOf(page.rows[i]), CursorOf(page.rows[j]))
  /\ \A g \in Wanted(cursor) \ ToSet(page.rows) :
       page.more /\ \A i \in DOMAIN page.rows : ~Below(CursorOf(page.rows[i]), CursorOf(g))

LEMMA ListedRows ==
  ASSUME ViewOK, NEW cursor, NEW n \in Nat \ {0}, NEW listing \in Listings(cursor, n + 1)
  PROVE  IsPage(Page(listing, n), cursor)
<1>1. PICK rows : rows = Wanted(cursor)
  OBVIOUS
<1>2. rows \subseteq RowsOfView /\ IsFiniteSet(rows)
  BY <1>1, RowsType, FS_Subset DEF Wanted
<1>3. PICK c \in Nat : c = Cardinality(rows)
  BY <1>2, FS_CardinalityType
<1>4. PICK size \in Nat : size = IF c < n + 1 THEN c ELSE n + 1
  OBVIOUS
<1>5. IsListing(listing, rows, size)
  BY <1>1, <1>3, <1>4 DEF Listings, Wanted, IsListing
<1>6. listing \in Seq(rows) /\ Len(listing) = size
  BY <1>5 DEF IsListing
<1>7. PICK k \in 0..size : k = IF size < n THEN size ELSE n
  BY <1>4
<1>8. PICK first : first = SubSeq(listing, 1, k)
  OBVIOUS
<1>9. /\ first \in Seq(rows) /\ Len(first) = k /\ DOMAIN first = 1..k
      /\ \A i \in 1..k : i \in 1..size /\ first[i] = listing[i]
  BY <1>6, <1>7, <1>8
<1>10. Page(listing, n) = [rows |-> first, more |-> size > n]
  BY <1>6, <1>7, <1>8 DEF Page
<1>11. IsInjective(first)
  BY <1>5, <1>9 DEF IsInjective, IsListing
<1>12. \A i, j \in 1..k : i < j => ~Below(CursorOf(first[i]), CursorOf(first[j]))
  BY <1>5, <1>9 DEF IsListing
<1>13. size > n => first # <<>>
  BY <1>4, <1>7, <1>9
<1>14. ASSUME NEW g \in rows \ ToSet(first)
       PROVE  size > n /\ \A i \in 1..k : ~Below(CursorOf(first[i]), CursorOf(g))
  <2>1. CASE g \in {listing[i] : i \in 1..size}
    <3>1. PICK j \in 1..size : g = listing[j]
      BY <2>1
    <3>2. j \notin 1..k
      BY <1>9, <1>14, <3>1 DEF ToSet
    <3>3. \A i \in 1..k : i < j
      BY <3>1, <3>2
    <3>4. size > n
      BY <1>4, <1>7, <3>1, <3>2
    <3> QED BY <1>5, <1>9, <3>1, <3>3, <3>4 DEF IsListing
  <2>2. CASE g \notin {listing[i] : i \in 1..size}
    <3>1. size > n
      <4> SUFFICES ASSUME ~(size > n) PROVE FALSE
        OBVIOUS
      <4>1. size = c
        BY <1>4
      <4>2. listing \in Injection(1..size, rows)
        BY <1>5 DEF IsListing, Injection, IsInjective
      <4>3. Cardinality(1..size) = size
        BY FS_Interval
      <4>4. listing \in Surjection(1..size, rows)
        BY <1>2, <1>3, <4>1, <4>2, <4>3, FS_Injection
      <4> QED BY <2>2, <4>4 DEF Surjection
    <3> QED BY <1>5, <1>9, <2>2, <3>1 DEF IsListing
  <2> QED BY <2>1, <2>2
<1>15. PICK page : page = Page(listing, n)
  OBVIOUS
<1>16. page.rows = first /\ page.more = (size > n)
  BY <1>10, <1>15
<1>17. IsPage(page, cursor)
  <2>1. page.rows \in Seq(Wanted(cursor)) /\ IsInjective(page.rows) /\ DOMAIN page.rows = 1..k
    BY <1>1, <1>9, <1>11, <1>16
  <2>2. page.more \in BOOLEAN /\ (page.more => page.rows # <<>>)
    <3>1. (size > n) \in BOOLEAN
      BY <1>4
    <3>2. page.more \in BOOLEAN
      BY <1>16, <3>1, Zenon
    <3>3. page.more => size > n
      BY <1>16, Zenon
    <3> QED BY <1>13, <1>16, <3>2, <3>3
  <2>3. \A i, j \in 1..k : i < j => ~Below(CursorOf(page.rows[i]), CursorOf(page.rows[j]))
    BY <1>12, <1>16
  <2>4. \A g \in Wanted(cursor) \ ToSet(page.rows) :
          page.more /\ \A i \in 1..k : ~Below(CursorOf(page.rows[i]), CursorOf(g))
    BY <1>1, <1>14, <1>16
  <2> QED BY <2>1, <2>2, <2>3, <2>4 DEF IsPage
<1> QED BY <1>15, <1>17

-----------------------------------------------------------------------------
(* The inductive invariant.                                                *)

\* The row comes not after the cursor in the order of the list.
Reached(g, cursor) == cursor # NoCursor /\ ~Below(CursorOf(g), cursor)

\* What is listed up to a cursor is there, and does not come again; all that
\* comes before it and has not changed is listed.
Passed(rows, cursor) == \A g \in rows : g \in RowsOfView /\ Found(g) # {} /\ Reached(g, cursor)
Complete(rows, cursor, dirty) ==
  view # "performance" =>
    \A g \in RowsOfView \ dirty : Matches(g) /\ Reached(g, cursor) => g \in rows
AllListed(rows, dirty) ==
  view # "performance" => \A g \in RowsOfView \ dirty : Matches(g) => g \in rows

IsWalk(w, dirty) ==
  /\ IsInjective(w.listed)
  /\ IF w.more THEN Passed(ToSet(w.listed), w.cursor) /\ Complete(ToSet(w.listed), w.cursor, dirty)
     ELSE AllListed(ToSet(w.listed), dirty)

Sofar == ToSet(query.walk.listed) \cup ToSet(query.data)

QueryOK ==
  query.stage # "none" =>
    /\ query.walk.more
    /\ IsInjective(query.walk.listed) /\ IsInjective(query.data)
    /\ ToSet(query.walk.listed) \cap ToSet(query.data) = {}
    /\ Passed(Sofar, query.cursor) /\ Complete(Sofar, query.cursor, query.dirty)

\* The issues of the store's page descend from the cursor; those that have not
\* changed since are what they were.
Descends(page, cursor) ==
  /\ \A i, j \in DOMAIN page :
       i < j => page[i].group # page[j].group /\ Below(page[j].cursor, page[i].cursor)
  /\ \A i \in DOMAIN page : cursor # NoCursor => Below(page[i].cursor, cursor)
IsRead(page, listed, dirty) ==
  \A i \in DOMAIN page :
    LET g == page[i].group
    IN  /\ g \in RowsOfView \ listed
        /\ Found(g) # {} /\ ~Below(CursorOf(g), page[i].cursor)
        /\ g \notin dirty => CursorOf(g) = page[i].cursor
Reaches(page, cursor, more, dirty) ==
  \A g \in RowsOfView \ dirty :
    Found(g) # {} => \/ \E i \in DOMAIN page : page[i].group = g
                     \/ Reached(g, cursor)
                     \/ more /\ \A i \in DOMAIN page : Below(CursorOf(g), page[i].cursor)
PageOK ==
  query.stage = "status" =>
    /\ view = "issues" /\ (query.more => query.page # <<>>)
    /\ Descends(query.page, query.cursor)
    /\ IsRead(query.page, Sofar, query.dirty)
    /\ Reaches(query.page, query.cursor, query.more, query.dirty)

Walk == [listed : Seq(Nat), cursor : Cursor \cup {NoCursor}, more : BOOLEAN, pages : Nat]
Request ==
  [stage : {"none", "store", "status"}, cursor : Cursor \cup {NoCursor},
   page : Seq([group : Nat, cursor : Cursor]), more : BOOLEAN, data : Seq(Nat),
   walk : Walk, pages : Nat, dirty : SUBSET Nat]

HistoryTypes ==
  /\ ViewOK
  /\ filter \in Statuses \cup {AnyStatus} /\ (view # "issues" => filter = AnyStatus)
  /\ status \in [Groups -> Statuses]
  /\ walk \in Walk /\ query \in Request /\ unsettled \subseteq Nat
  /\ view # "issues" => query.data = <<>>

HistoryInv == HistoryTypes /\ IsWalk(walk, unsettled) /\ QueryOK /\ PageOK

-----------------------------------------------------------------------------
(* Steps that change no row.                                               *)

Still == UNCHANGED <<view, filter, stored, status>>

LEMMA StillRows ==
  ASSUME Still
  PROVE  /\ RowsOfView' = RowsOfView
         /\ \A g : Found(g)' = Found(g)
         /\ \A g : CursorOf(g)' = CursorOf(g)
         /\ \A g : Matches(g)' = Matches(g)
         /\ ViewOK => ViewOK'
<1> USE DEF Still
<1>1. RowsOfView' = RowsOfView /\ (ViewOK => ViewOK')
  BY DEF RowsOfView, RowOf, Passes, Focus, ViewOK
<1>2. \A g : Found(g)' = Found(g)
  BY DEF Found, RowOf, Passes, Focus
<1>3. \A g : Latest(g)' = Latest(g)
  BY <1>2 DEF Latest
<1>4. \A g : CursorOf(g)' = CursorOf(g)
  BY <1>3 DEF CursorOf, EventCursor, IssueCursor, NetworkCursor, ReleaseCursor, PerformanceCursor
<1>5. \A g : Matches(g)' = Matches(g)
  BY <1>2 DEF Matches
<1> QED BY <1>1, <1>2, <1>4, <1>5

LEMMA StillCovers ==
  ASSUME Still
  PROVE  /\ \A g, cursor : Reached(g, cursor)' <=> Reached(g, cursor)
         /\ \A rows, cursor : Passed(rows, cursor)' <=> Passed(rows, cursor)
         /\ \A rows, cursor, dirty : Complete(rows, cursor, dirty)' <=> Complete(rows, cursor, dirty)
         /\ \A rows, dirty : AllListed(rows, dirty)' <=> AllListed(rows, dirty)
         /\ \A w, dirty : IsWalk(w, dirty)' <=> IsWalk(w, dirty)
<1>1. \A g, cursor : Reached(g, cursor)' <=> Reached(g, cursor)
  BY StillRows DEF Reached, Below
<1>2. \A rows, cursor : Passed(rows, cursor)' <=> Passed(rows, cursor)
  BY <1>1, StillRows DEF Passed
<1>3. \A rows, cursor, dirty : Complete(rows, cursor, dirty)' <=> Complete(rows, cursor, dirty)
  BY <1>1, StillRows DEF Complete, Still
<1>4. \A rows, dirty : AllListed(rows, dirty)' <=> AllListed(rows, dirty)
  BY StillRows DEF AllListed, Still
<1>5. \A w, dirty : IsWalk(w, dirty)' <=> IsWalk(w, dirty)
  BY <1>2, <1>3, <1>4 DEF IsWalk
<1> QED BY <1>1, <1>2, <1>3, <1>4, <1>5

-----------------------------------------------------------------------------
(* Steps that change rows: they only come up in the list.                  *)

Moved(rows) ==
  /\ view' = view /\ filter' = filter /\ RowsOfView' = RowsOfView /\ rows \subseteq Nat
  /\ \A g \in RowsOfView : Found(g) # {} =>
       Found(g)' # {} /\ CursorOf(g)' \in Cursor /\ ~Below(CursorOf(g)', CursorOf(g))
  /\ \A g \in RowsOfView \ rows :
       /\ Found(g)' # {} <=> Found(g) # {}
       /\ CursorOf(g)' = CursorOf(g) /\ (Matches(g)' <=> Matches(g))

LEMMA MovedCovers ==
  ASSUME ViewOK, NEW rows, Moved(rows)
  PROVE  /\ \A listed : \A cursor \in Cursor \cup {NoCursor} :
              Passed(listed, cursor) => Passed(listed, cursor)'
         /\ \A listed, cursor, dirty :
              Complete(listed, cursor, dirty) => Complete(listed, cursor, dirty \cup rows)'
         /\ \A listed, dirty :
              AllListed(listed, dirty) => AllListed(listed, dirty \cup rows)'
         /\ \A dirty : \A w \in Walk : IsWalk(w, dirty) => IsWalk(w, dirty \cup rows)'
<1> USE DEF Moved
<1>1. ASSUME NEW listed, NEW cursor \in Cursor \cup {NoCursor}, Passed(listed, cursor)
      PROVE  Passed(listed, cursor)'
  <2> SUFFICES ASSUME NEW g \in listed
               PROVE  g \in RowsOfView' /\ Found(g)' # {} /\ Reached(g, cursor)'
    BY DEF Passed
  <2>1. g \in RowsOfView /\ Found(g) # {} /\ cursor \in Cursor /\ ~Below(CursorOf(g), cursor)
    BY <1>1 DEF Passed, Reached
  <2>2. CursorOf(g) \in Cursor
    BY <2>1, CursorType
  <2>3. CursorOf(g)' \in Cursor /\ ~Below(CursorOf(g)', CursorOf(g)) /\ Found(g)' # {}
    BY <2>1
  <2>4. ~Below(CursorOf(g)', cursor)
    BY <2>1, <2>2, <2>3, OrderOfCursors
  <2>5. cursor # NoCursor
    BY <1>1 DEF Passed, Reached
  <2> QED BY <2>1, <2>3, <2>4, <2>5 DEF Reached, Below
<1>2. \A listed, cursor, dirty :
        Complete(listed, cursor, dirty) => Complete(listed, cursor, dirty \cup rows)'
  BY DEF Complete, Reached, Below
<1>3. \A listed, dirty : AllListed(listed, dirty) => AllListed(listed, dirty \cup rows)'
  BY DEF AllListed
<1>4. \A dirty : \A w \in Walk : IsWalk(w, dirty) => IsWalk(w, dirty \cup rows)'
  <2> SUFFICES ASSUME NEW w \in Walk, NEW dirty, IsWalk(w, dirty)
               PROVE  IsWalk(w, dirty \cup rows)'
    OBVIOUS
  <2>1. w.cursor \in Cursor \cup {NoCursor}
    BY DEF Walk
  <2> QED BY <1>1, <1>2, <1>3, <2>1 DEF IsWalk
<1> QED BY <1>1, <1>2, <1>3, <1>4

LEMMA StoreEventMoves ==
  ASSUME ViewOK, NEW e \in Events, StoreEvent(e)
  PROVE  Moved({RowOf(e)}) /\ ViewOK'
<1>1. PICK time \in Times : stored' = [stored EXCEPT ![e] = time]
  BY DEF StoreEvent
<1>2. stored[e] = 0 /\ view' = view /\ filter' = filter /\ status' = status /\ time # 0
  BY HistoryAssumption DEF StoreEvent
<1>3. stored'[e] = time /\ \A f \in Events \ {e} : stored'[f] = stored[f]
  BY <1>1 DEF ViewOK
<1>4. ViewOK'
  BY <1>1, <1>2 DEF ViewOK
<1>5. RowsOfView' = RowsOfView /\ \A f : RowOf(f)' = RowOf(f) /\ (Passes(f)' <=> Passes(f))
  BY <1>2 DEF RowsOfView, RowOf, Passes, Focus
<1>6. RowOf(e) \in Nat
  BY HistoryAssumption DEF RowOf
<1>7. \A g : Found(g) \subseteq Found(g)'
  BY <1>2, <1>3, <1>5 DEF Found
<1>8. \A g : g # RowOf(e) => Found(g)' = Found(g) /\ e \notin Found(g)
  BY <1>2, <1>3, <1>5 DEF Found
<1>9. ASSUME NEW g \in RowsOfView, Found(g) # {}
      PROVE  Found(g)' # {} /\ CursorOf(g)' \in Cursor /\ ~Below(CursorOf(g)', CursorOf(g))
  <2>1. Found(g)' # {}
    BY <1>7, <1>9
  <2>2. /\ CursorOf(g) \in Cursor /\ CursorOf(g).seen = Latest(g)
        /\ view = "performance" => CursorOf(g).key = WithoutUnit[g]
        /\ view # "performance" => CursorOf(g).key = g
    BY <1>9, CursorType
  <2>3. /\ CursorOf(g)' \in Cursor /\ CursorOf(g)'.seen = Latest(g)'
        /\ view' = "performance" => CursorOf(g)'.key = WithoutUnit[g]
        /\ view' # "performance" => CursorOf(g)'.key = g
        /\ Latest(g)' \in Nat /\ \A f \in Found(g)' : stored'[f] <= Latest(g)'
    BY <1>4, <1>5, <1>9, <2>1, CursorsHoldNext DEF CursorsAreTyped
  <2>4. PICK f \in Found(g) : stored[f] = Latest(g)
    BY <1>9, FoundType
  <2>5. f \in Found(g)' /\ stored'[f] = Latest(g)
    BY <1>2, <1>3, <1>7, <2>4 DEF Found
  <2>6. Latest(g) <= Latest(g)'
    BY <2>3, <2>5
  <2>7. Latest(g) \in Nat
    BY <1>9, FoundType
  <2>8. CursorOf(g)'.key = CursorOf(g).key
    BY <1>2, <2>2, <2>3
  <2> QED BY <2>1, <2>2, <2>3, <2>6, <2>7, <2>8 DEF Below, Cursor
<1>10. ASSUME NEW g \in RowsOfView, g # RowOf(e)
       PROVE  Found(g)' = Found(g) /\ CursorOf(g)' = CursorOf(g) /\ (Matches(g)' <=> Matches(g))
  <2>1. Found(g)' = Found(g) /\ \A f \in Found(g) : f \in Events \ {e} /\ stored'[f] = stored[f]
    BY <1>3, <1>8, <1>10 DEF Found
  <2>2. {stored'[f] : f \in Found(g)'} = {stored[f] : f \in Found(g)}
    BY <2>1
  <2>3. Latest(g)' = Latest(g)
    BY <2>2 DEF Latest
  <2>4. view \in EventViews => stored'[g] = stored[g]
    <3> SUFFICES ASSUME view \in EventViews PROVE stored'[g] = stored[g]
      OBVIOUS
    <3>1. g \in Events /\ g # e
      BY <1>10, RowsType DEF RowOf
    <3> QED BY <1>3, <3>1
  <2>5. CursorOf(g)' = CursorOf(g)
    <3>1. /\ view \in EventViews => EventCursor(g)' = EventCursor(g)
          /\ IssueCursor(g)' = IssueCursor(g) /\ NetworkCursor(g)' = NetworkCursor(g)
          /\ ReleaseCursor(g)' = ReleaseCursor(g) /\ PerformanceCursor(g)' = PerformanceCursor(g)
      BY <2>3, <2>4 DEF EventCursor, IssueCursor, NetworkCursor, ReleaseCursor, PerformanceCursor
    <3>2. CASE view \in EventViews
      BY <1>2, <3>1, <3>2 DEF CursorOf, EventViews
    <3>3. CASE view \in GroupViews
      BY <1>2, <3>1, <3>3 DEF CursorOf, EventViews, GroupViews
    <3> QED BY <3>2, <3>3 DEF ViewOK
  <2>6. Matches(g)' <=> Matches(g)
    BY <1>2, <2>1 DEF Matches
  <2> QED BY <2>1, <2>5, <2>6
<1> QED BY <1>2, <1>4, <1>5, <1>6, <1>9, <1>10 DEF Moved

LEMMA ChangeStatusMoves ==
  ASSUME ViewOK, status \in [Groups -> Statuses], NEW g \in DOMAIN status, ChangeStatus(g)
  PROVE  Moved({g}) /\ ViewOK' /\ status' \in [Groups -> Statuses]
<1>1. PICK s \in Statuses : status' = [status EXCEPT ![g] = s]
  BY DEF ChangeStatus
<1>2. view' = view /\ filter' = filter /\ stored' = stored
  BY DEF ChangeStatus
<1>3. ViewOK' /\ RowsOfView' = RowsOfView
  BY <1>2 DEF ViewOK, RowsOfView, RowOf, Passes, Focus
<1>4. \A h : Found(h)' = Found(h)
  BY <1>2 DEF Found, RowOf, Passes, Focus
<1>5. \A h : Latest(h)' = Latest(h)
  BY <1>2, <1>4 DEF Latest
<1>6. \A h : CursorOf(h)' = CursorOf(h)
  BY <1>2, <1>5 DEF CursorOf, EventCursor, IssueCursor, NetworkCursor, ReleaseCursor, PerformanceCursor
<1>7. ASSUME NEW h \in RowsOfView \ {g} PROVE Matches(h)' <=> Matches(h)
  <2>1. view = "issues" => status'[h] = status[h]
    <3> SUFFICES ASSUME view = "issues" PROVE status'[h] = status[h]
      OBVIOUS
    <3>1. view \notin EventViews
      BY DEF EventViews
    <3>2. h \in Groups
      BY <3>1, <1>7, RowsType
    <3> QED BY <1>1, <1>7, <3>2
  <2> QED BY <1>2, <1>4, <2>1 DEF Matches
<1>8. status' \in [Groups -> Statuses]
  BY <1>1
<1>9. \A h \in RowsOfView : Found(h) # {} => CursorOf(h) \in Cursor /\ ~Below(CursorOf(h), CursorOf(h))
  BY CursorType, OrderOfCursors
<1>10. g \in Nat
  BY HistoryAssumption DEF Groups, Range
<1> QED BY <1>2, <1>3, <1>4, <1>6, <1>7, <1>8, <1>9, <1>10 DEF Moved, Below

-----------------------------------------------------------------------------
(* The environment.                                                        *)

\* The rows of the request and what it has read so far.
LEMMA ChangedKeeps ==
  ASSUME HistoryInv, NEW rows, Moved(rows), Changed(rows), ViewOK', status' \in [Groups -> Statuses],
         walk' = walk
  PROVE  HistoryInv'
<1>1. /\ unsettled' = unsettled \cup rows /\ rows \subseteq Nat
      /\ query' = IF query.stage = "none" THEN query ELSE [query EXCEPT !.dirty = @ \cup rows]
  BY DEF Changed, Moved
<1>2. /\ query.stage \in {"none", "store", "status"} /\ query.dirty \subseteq Nat
      /\ query.cursor \in Cursor \cup {NoCursor}
  BY DEF HistoryInv, HistoryTypes, Request
<1>3. HistoryTypes'
  <2>1. query' \in Request
    BY <1>1, <1>2 DEF HistoryInv, HistoryTypes, Request
  <2>3. query'.data = query.data
    BY <1>1, <1>2 DEF HistoryInv, HistoryTypes, Request
  <2>2. walk' \in Walk /\ unsettled' \subseteq Nat
    BY <1>1 DEF HistoryInv, HistoryTypes
  <2> QED BY <2>1, <2>2, <2>3 DEF HistoryInv, HistoryTypes, Moved
<1>4. IsWalk(walk, unsettled)'
  BY <1>1, MovedCovers DEF HistoryInv, HistoryTypes
<1>5. CASE query.stage = "none"
  <2>1. query'.stage = "none"
    BY <1>1, <1>5
  <2> QED BY <1>3, <1>4, <2>1 DEF HistoryInv, QueryOK, PageOK
<1>6. CASE query.stage # "none"
  <2>1. /\ query'.stage = query.stage /\ query'.cursor = query.cursor /\ query'.page = query.page
        /\ query'.more = query.more /\ query'.data = query.data /\ query'.walk = query.walk
        /\ query'.dirty = query.dirty \cup rows
    BY <1>1, <1>6 DEF HistoryInv, HistoryTypes, Request
  <2>2. Sofar' = Sofar
    BY <2>1 DEF Sofar
  <2>3. QueryOK'
    <3>1. Passed(Sofar, query.cursor) /\ Complete(Sofar, query.cursor, query.dirty)
      BY <1>6 DEF HistoryInv, QueryOK
    <3>2. Passed(Sofar, query.cursor)'
      BY <1>2, <2>1, <2>2, <3>1, MovedCovers DEF HistoryInv, HistoryTypes
    <3>3. Complete(Sofar, query.cursor, query.dirty)'
      BY <1>2, <2>1, <2>2, <3>1, MovedCovers DEF HistoryInv, HistoryTypes
    <3> QED BY <1>6, <2>1, <2>2, <3>2, <3>3 DEF HistoryInv, QueryOK
  <2>4. PageOK'
    <3> SUFFICES ASSUME query.stage = "status" PROVE PageOK'
      BY <2>1 DEF PageOK
    <3>1. /\ view = "issues" /\ (query.more => query.page # <<>>)
          /\ Descends(query.page, query.cursor)
          /\ IsRead(query.page, Sofar, query.dirty)
          /\ Reaches(query.page, query.cursor, query.more, query.dirty)
      BY DEF HistoryInv, PageOK
    <3>2. Descends(query.page, query.cursor)'
      BY <2>1, <3>1 DEF Descends, Below
    <3>3. IsRead(query.page, Sofar, query.dirty)'
      <4> SUFFICES ASSUME NEW i \in DOMAIN query.page, NEW g, g = query.page[i].group
                   PROVE  /\ g \in RowsOfView' \ Sofar'
                          /\ Found(g)' # {} /\ ~Below(CursorOf(g)', query.page[i].cursor)
                          /\ g \notin query'.dirty => CursorOf(g)' = query.page[i].cursor
        BY <2>1 DEF IsRead, Below
      <4>1. /\ g \in RowsOfView \ Sofar /\ Found(g) # {} /\ ~Below(CursorOf(g), query.page[i].cursor)
            /\ g \notin query.dirty => CursorOf(g) = query.page[i].cursor
        BY <3>1 DEF IsRead
      <4>2. query.page[i].cursor \in Cursor
        <5>1. query.page \in Seq([group : Nat, cursor : Cursor])
          BY DEF HistoryInv, HistoryTypes, Request
        <5>2. \A T : \A s \in Seq(T) : \A j \in DOMAIN s : s[j] \in T
          OBVIOUS
        <5>3. query.page[i] \in [group : Nat, cursor : Cursor]
          BY <5>1, <5>2, Zenon
        <5> QED BY <5>3
      <4>3. CursorOf(g) \in Cursor
        BY <4>1, CursorType DEF HistoryInv, HistoryTypes
      <4>4. CursorOf(g)' \in Cursor /\ ~Below(CursorOf(g)', CursorOf(g)) /\ Found(g)' # {}
        BY <4>1 DEF Moved
      <4>5. ~Below(CursorOf(g)', query.page[i].cursor)
        BY <4>1, <4>2, <4>3, <4>4, OrderOfCursors
      <4>6. g \notin query'.dirty => CursorOf(g)' = query.page[i].cursor
        BY <2>1, <4>1 DEF Moved
      <4> QED BY <2>2, <4>1, <4>4, <4>5, <4>6 DEF Moved
    <3>4. Reaches(query.page, query.cursor, query.more, query.dirty)'
      <4> SUFFICES ASSUME NEW g \in RowsOfView \ (query.dirty \cup rows), Found(g)' # {}
                   PROVE  \/ \E i \in DOMAIN query.page : query.page[i].group = g
                          \/ query.cursor # NoCursor /\ ~Below(CursorOf(g)', query.cursor)
                          \/ query.more /\ \A i \in DOMAIN query.page :
                                             Below(CursorOf(g)', query.page[i].cursor)
        BY <2>1 DEF Reaches, Moved, Reached, Below
      <4>1. Found(g) # {} /\ CursorOf(g)' = CursorOf(g)
        BY DEF Moved
      <4> QED BY <3>1, <4>1 DEF Reaches, Reached
    <3> QED BY <2>1, <3>1, <3>2, <3>3, <3>4 DEF PageOK, Moved
  <2> QED BY <1>3, <1>4, <2>3, <2>4 DEF HistoryInv
<1> QED BY <1>5, <1>6

LEMMA StoreEventKeeps ==
  ASSUME HistoryInv, NEW e \in Events, StoreEvent(e)
  PROVE  HistoryInv'
<1>1. Moved({RowOf(e)}) /\ ViewOK'
  BY StoreEventMoves DEF HistoryInv, HistoryTypes
<1>2. Changed({RowOf(e)}) /\ walk' = walk /\ status' \in [Groups -> Statuses]
  BY DEF StoreEvent, HistoryInv, HistoryTypes
<1> QED BY <1>1, <1>2, ChangedKeeps

LEMMA ChangeStatusKeeps ==
  ASSUME HistoryInv, NEW g \in DOMAIN status, ChangeStatus(g)
  PROVE  HistoryInv'
<1>1. Moved({g}) /\ ViewOK' /\ status' \in [Groups -> Statuses]
  BY ChangeStatusMoves DEF HistoryInv, HistoryTypes
<1>2. Changed({g}) /\ walk' = walk
  BY DEF ChangeStatus
<1> QED BY <1>1, <1>2, ChangedKeeps

-----------------------------------------------------------------------------
(* The views.                                                              *)

\* A walk begins with nothing, whatever the cursor.
LEMMA EmptyWalk ==
  \A dirty : /\ NewWalk \in Walk /\ IsWalk(NewWalk, dirty)
             /\ Passed({}, NoCursor) /\ Complete({}, NoCursor, dirty)
             /\ Idle \in Request /\ Idle.stage = "none" /\ Idle.data = <<>>
<1>1. <<>> \in Seq(Nat) /\ IsInjective(<<>>) /\ ToSet(<<>>) = {}
  BY DEF IsInjective, ToSet
<1>2. \A dirty : Passed({}, NoCursor) /\ Complete({}, NoCursor, dirty)
  BY DEF Passed, Complete, Reached
<1>3. NewWalk \in Walk
  BY <1>1 DEF NewWalk, Walk
<1>4. \A dirty : IsWalk(NewWalk, dirty)
  BY <1>1, <1>2 DEF NewWalk, IsWalk
<1>5. Idle \in Request /\ Idle.stage = "none" /\ Idle.data = <<>>
  BY <1>1, <1>3 DEF Idle, Request
<1> QED BY <1>2, <1>3, <1>4, <1>5

\* Steps that leave the rows alone and no request under way.
LEMMA RestKeeps ==
  ASSUME HistoryInv, Still, query' = Idle, IsWalk(walk', unsettled'), walk' \in Walk, unsettled' \subseteq Nat
  PROVE  HistoryInv'
<1>1. ViewOK'
  BY StillRows DEF HistoryInv, HistoryTypes
<1>2. HistoryTypes'
  BY <1>1, EmptyWalk DEF HistoryTypes, HistoryInv, Still
<1>3. IsWalk(walk, unsettled)'
  <2>1. PICK w, dirty : w = walk' /\ dirty = unsettled'
    OBVIOUS
  <2>2. IsWalk(w, dirty)'
    BY <2>1, StillCovers
  <2> QED BY <2>1, <2>2
<1>4. query'.stage = "none"
  BY EmptyWalk
<1> QED BY <1>2, <1>3, <1>4 DEF HistoryInv, QueryOK, PageOK

\* Steps that ask the stores.
Asks(w, cursor, data, dirty) ==
  /\ query' \in Request
  /\ query'.stage = "store" /\ query'.walk = w /\ query'.cursor = cursor
  /\ query'.data = data /\ query'.dirty = dirty
  /\ w.more /\ (view # "issues" => data = <<>>)
  /\ IsInjective(w.listed) /\ IsInjective(data) /\ ToSet(w.listed) \cap ToSet(data) = {}
  /\ Passed(ToSet(w.listed) \cup ToSet(data), cursor)
  /\ Complete(ToSet(w.listed) \cup ToSet(data), cursor, dirty)

LEMMA AskKeeps ==
  ASSUME HistoryInv, Still, UNCHANGED <<walk, unsettled>>,
         NEW w, NEW cursor, NEW data, NEW dirty, Asks(w, cursor, data, dirty)
  PROVE  HistoryInv'
<1>1. ViewOK'
  BY StillRows DEF HistoryInv, HistoryTypes
<1>2. HistoryTypes'
  BY <1>1 DEF HistoryTypes, HistoryInv, Still, Asks
<1>3. IsWalk(walk, unsettled)'
  BY StillCovers DEF HistoryInv
<1>4. Sofar' = ToSet(w.listed) \cup ToSet(data)
  BY DEF Sofar, Asks
<1>5. Passed(Sofar, query.cursor)' /\ Complete(Sofar, query.cursor, query.dirty)'
  <2>1. PICK rows : rows = Sofar'
    OBVIOUS
  <2>2. Passed(rows, cursor)' /\ Complete(rows, cursor, dirty)'
    BY <1>4, <2>1, StillCovers DEF Asks
  <2> QED BY <2>1, <2>2 DEF Asks
<1>6. QueryOK'
  BY <1>5 DEF QueryOK, Asks
<1>7. PageOK'
  BY DEF PageOK, Asks
<1> QED BY <1>2, <1>3, <1>6, <1>7 DEF HistoryInv

LEMMA FetchNextPageKeeps ==
  ASSUME HistoryInv, FetchNextPage
  PROVE  HistoryInv'
<1>1. /\ Still /\ UNCHANGED <<walk, unsettled>> /\ walk.more
      /\ query' = [Idle EXCEPT !.stage = "store", !.cursor = walk.cursor,
                               !.walk = walk, !.pages = 1, !.dirty = unsettled]
  BY DEF FetchNextPage, Still
<1>2. walk \in Walk /\ unsettled \subseteq Nat /\ IsWalk(walk, unsettled)
  BY DEF HistoryInv, HistoryTypes
<1>3. query' = [stage |-> "store", cursor |-> walk.cursor, page |-> <<>>, more |-> FALSE, data |-> <<>>,
                walk |-> walk, pages |-> 1, dirty |-> unsettled]
  BY <1>1 DEF Idle
<1>4. <<>> \in Seq(Nat) /\ IsInjective(<<>>) /\ ToSet(<<>>) = {}
  BY DEF IsInjective, ToSet
<1>5. query' \in Request
  BY <1>2, <1>3, <1>4 DEF Request, Walk
<1>6. Asks(walk, walk.cursor, <<>>, unsettled)
  <2>1. Passed(ToSet(walk.listed), walk.cursor) /\ Complete(ToSet(walk.listed), walk.cursor, unsettled)
    BY <1>1, <1>2 DEF IsWalk
  <2>2. ToSet(walk.listed) \cup ToSet(<<>>) = ToSet(walk.listed) /\ ToSet(walk.listed) \cap ToSet(<<>>) = {}
    BY <1>4
  <2>3. IsInjective(walk.listed) /\ walk.more
    BY <1>1, <1>2 DEF IsWalk
  <2>4. /\ query'.stage = "store" /\ query'.walk = walk /\ query'.cursor = walk.cursor
        /\ query'.data = <<>> /\ query'.dirty = unsettled
    BY <1>3
  <2> QED BY <1>4, <1>5, <2>1, <2>2, <2>3, <2>4 DEF Asks
<1> QED BY <1>1, <1>6, AskKeeps

LEMMA RefetchKeeps ==
  ASSUME HistoryInv, Refetch
  PROVE  HistoryInv'
<1>1. /\ Still /\ UNCHANGED <<walk, unsettled>>
      /\ query' = [Idle EXCEPT !.stage = "store", !.pages = walk.pages]
  BY DEF Refetch, Still
<1>2. walk.pages \in Nat
  BY DEF HistoryInv, HistoryTypes, Walk
<1>3. query' = [stage |-> "store", cursor |-> NoCursor, page |-> <<>>, more |-> FALSE, data |-> <<>>,
                walk |-> NewWalk, pages |-> walk.pages, dirty |-> {}]
  BY <1>1 DEF Idle
<1>4. /\ <<>> \in Seq(Nat) /\ IsInjective(<<>>) /\ ToSet(<<>>) = {}
      /\ NewWalk.listed = <<>> /\ NewWalk.more
  BY DEF IsInjective, ToSet, NewWalk
<1>5. query' \in Request
  BY <1>2, <1>3, <1>4, EmptyWalk DEF Request
<1>6. Asks(NewWalk, NoCursor, <<>>, {})
  <2>1. ToSet(NewWalk.listed) \cup ToSet(<<>>) = {} /\ ToSet(NewWalk.listed) \cap ToSet(<<>>) = {}
    BY <1>4
  <2> QED BY <1>3, <1>4, <1>5, <2>1, EmptyWalk DEF Asks
<1> QED BY <1>1, <1>6, AskKeeps

LEMMA RefreshKeeps ==
  ASSUME HistoryInv, Refresh
  PROVE  HistoryInv'
<1>1. Still /\ walk' = NewWalk /\ query' = Idle /\ unsettled' = {}
  BY DEF Refresh, Still
<1> QED BY <1>1, EmptyWalk, RestKeeps

LEMMA QueryFailsKeeps ==
  ASSUME HistoryInv, QueryFails
  PROVE  HistoryInv'
<1>1. Still /\ query' = Idle /\ walk' = walk /\ unsettled' = unsettled
  BY DEF QueryFails, Still
<1> QED BY <1>1, RestKeeps DEF HistoryInv, HistoryTypes

-----------------------------------------------------------------------------
(* The answers.                                                            *)

LEMMA ReadToEndKeeps ==
  ASSUME HistoryInv, Still, query.stage # "none",
         NEW data \in Seq(Nat), NEW cursor \in Cursor \cup {NoCursor}, NEW more \in BOOLEAN,
         ReadToEnd(Longer(data, cursor, more)),
         NEW rows, rows = ToSet(query.walk.listed) \cup ToSet(data),
         IsInjective(data), ToSet(query.walk.listed) \cap ToSet(data) = {},
         IF more THEN Passed(rows, cursor) /\ Complete(rows, cursor, query.dirty)
         ELSE AllListed(rows, query.dirty)
  PROVE  HistoryInv'
<1>1. PICK next : next = Longer(data, cursor, more)
  OBVIOUS
<1>2. walk' = next /\ query' = Idle /\ unsettled' = query.dirty
  BY <1>1 DEF ReadToEnd
<1>3. query.walk \in Walk /\ query.dirty \subseteq Nat
  BY DEF HistoryInv, HistoryTypes, Request
<1>4. /\ next.listed = query.walk.listed \o data /\ next.cursor = cursor /\ next.more = more
      /\ next \in Walk
  BY <1>1, <1>3 DEF Longer, Walk
<1>5. ToSet(next.listed) = rows
  BY <1>3, <1>4, ConcatElements DEF Walk
<1>6. IsInjective(next.listed)
  <2>1. IsInjective(query.walk.listed)
    BY DEF HistoryInv, QueryOK
  <2> QED BY <1>3, <1>4, <2>1, ConcatOnce DEF Walk
<1>7. IsWalk(next, query.dirty)
  BY <1>4, <1>5, <1>6 DEF IsWalk
<1> QED BY <1>2, <1>3, <1>4, <1>7, RestKeeps

LEMMA AnsweredKeeps ==
  ASSUME HistoryInv, Still, query.stage # "none",
         NEW data \in Seq(Nat), NEW cursor \in Cursor \cup {NoCursor}, NEW more \in BOOLEAN,
         Answered(data, cursor, more),
         NEW rows, rows = ToSet(query.walk.listed) \cup ToSet(data),
         IsInjective(data), ToSet(query.walk.listed) \cap ToSet(data) = {},
         IF more THEN Passed(rows, cursor) /\ Complete(rows, cursor, query.dirty)
         ELSE AllListed(rows, query.dirty)
  PROVE  HistoryInv'
<1>1. CASE ~(query.pages > 1 /\ more)
  <2>1. ReadToEnd(Longer(data, cursor, more))
    BY <1>1 DEF Answered
  <2> QED BY <2>1, ReadToEndKeeps
<1>2. CASE query.pages > 1 /\ more
  <2>1. PICK next : next = Longer(data, cursor, more)
    OBVIOUS
  <2>2. /\ query' = [Idle EXCEPT !.stage = "store", !.cursor = cursor, !.walk = next,
                                 !.pages = query.pages - 1, !.dirty = query.dirty]
        /\ UNCHANGED <<walk, unsettled>>
    BY <1>2, <2>1 DEF Answered
  <2>3. query' = [stage |-> "store", cursor |-> cursor, page |-> <<>>, more |-> FALSE, data |-> <<>>,
                  walk |-> next, pages |-> query.pages - 1, dirty |-> query.dirty]
    BY <2>2 DEF Idle
  <2>4. query.walk \in Walk /\ query.dirty \subseteq Nat /\ query.pages \in Nat
    BY DEF HistoryInv, HistoryTypes, Request
  <2>5. /\ next.listed = query.walk.listed \o data /\ next.cursor = cursor /\ next.more = more
        /\ next \in Walk
    BY <2>1, <2>4, SMTT(40) DEF Longer, Walk
  <2>6. ToSet(next.listed) = rows
    BY <2>4, <2>5, ConcatElements DEF Walk
  <2>7. IsInjective(next.listed)
    <3>1. IsInjective(query.walk.listed)
      BY DEF HistoryInv, QueryOK
    <3> QED BY <2>4, <2>5, <3>1, ConcatOnce DEF Walk
  <2>8. query' \in Request
    <3>1. query.pages - 1 \in Nat
      BY <1>2, <2>4
    <3>2. <<>> \in Seq([group : Nat, cursor : Cursor]) /\ <<>> \in Seq(Nat)
      OBVIOUS
    <3> QED BY <2>3, <2>4, <2>5, <3>1, <3>2 DEF Request
  <2>9. Asks(next, cursor, <<>>, query.dirty)
    <3>1. IsInjective(<<>>) /\ ToSet(<<>>) = {}
      BY DEF IsInjective, ToSet
    <3>2. ToSet(next.listed) \cup ToSet(<<>>) = rows /\ ToSet(next.listed) \cap ToSet(<<>>) = {}
      BY <2>6, <3>1
    <3>3. /\ query'.stage = "store" /\ query'.walk = next /\ query'.cursor = cursor
          /\ query'.data = <<>> /\ query'.dirty = query.dirty
      BY <2>3
    <3>4. next.more /\ Passed(rows, cursor) /\ Complete(rows, cursor, query.dirty)
      BY <1>2, <2>5
    <3> QED BY <2>7, <2>8, <3>1, <3>2, <3>3, <3>4 DEF Asks
  <2> QED BY <2>2, <2>9, AskKeeps
<1> QED BY <1>1, <1>2

\* What a page lists has not been listed.
LEMMA WantedIsNew ==
  ASSUME NEW rows, NEW cursor, Passed(rows, cursor)
  PROVE  rows \cap Wanted(cursor) = {}
BY DEF Passed, Reached, Wanted

\* A page of rows, listed after what comes before it.
LEMMA PageFollows ==
  ASSUME ViewOK, NEW rows, NEW cursor \in Cursor \cup {NoCursor}, NEW dirty, NEW page,
         filter = AnyStatus, Passed(rows, cursor), Complete(rows, cursor, dirty), IsPage(page, cursor),
         NEW all, all = rows \cup ToSet(page.rows)
  PROVE  /\ page.more => /\ CursorOf(Last(page.rows)) \in Cursor
                         /\ Passed(all, CursorOf(Last(page.rows)))
                         /\ Complete(all, CursorOf(Last(page.rows)), dirty)
         /\ ~page.more => AllListed(all, dirty)
<1>1. /\ page.rows \in Seq(Wanted(cursor)) /\ IsInjective(page.rows)
      /\ page.more \in BOOLEAN /\ (page.more => page.rows # <<>>)
      /\ \A i, j \in DOMAIN page.rows :
           i < j => ~Below(CursorOf(page.rows[i]), CursorOf(page.rows[j]))
      /\ \A g \in Wanted(cursor) \ ToSet(page.rows) :
           page.more /\ \A i \in DOMAIN page.rows : ~Below(CursorOf(page.rows[i]), CursorOf(g))
  BY DEF IsPage
<1>2. \A g \in RowsOfView : Found(g) # {} => Reached(g, cursor) \/ g \in Wanted(cursor)
  BY DEF Reached, Wanted
<1>3. \A g \in RowsOfView : Matches(g) <=> Found(g) # {}
  BY DEF Matches
<1>4. ASSUME ~page.more PROVE AllListed(all, dirty)
  BY <1>1, <1>2, <1>3, <1>4 DEF AllListed, Complete
<1>5. ASSUME page.more
      PROVE  /\ CursorOf(Last(page.rows)) \in Cursor
             /\ Passed(all, CursorOf(Last(page.rows)))
             /\ Complete(all, CursorOf(Last(page.rows)), dirty)
  <2>1. PICK n \in Nat \ {0} : n = Len(page.rows) /\ DOMAIN page.rows = 1..n
    BY <1>1, <1>5
  <2>2. PICK end : end = page.rows[n] /\ end = Last(page.rows)
    BY <2>1 DEF Last
  <2>3. n \in DOMAIN page.rows /\ \A i \in DOMAIN page.rows : i # n => i < n
    BY <2>1
  <2>4. \A i \in DOMAIN page.rows : page.rows[i] \in Wanted(cursor)
    BY <1>1
  <2>5. \A g \in Wanted(cursor) : g \in RowsOfView /\ Found(g) # {} /\ CursorOf(g) \in Cursor
    BY CursorType DEF Wanted
  <2>6. end \in Wanted(cursor) /\ CursorOf(end) \in Cursor
    BY <2>2, <2>3, <2>4, <2>5
  <2>7. CursorOf(end) # NoCursor
    BY <2>6, HistoryAssumption DEF Cursor
  <2>8. Passed(all, CursorOf(end))
    <3>1. ASSUME NEW g \in rows PROVE g \in RowsOfView /\ Found(g) # {} /\ Reached(g, CursorOf(end))
      <4>1. g \in RowsOfView /\ Found(g) # {} /\ cursor \in Cursor /\ ~Below(CursorOf(g), cursor)
        BY <3>1 DEF Passed, Reached
      <4>2. Below(CursorOf(end), cursor)
        BY <2>6, <4>1, HistoryAssumption DEF Wanted, Cursor
      <4>3. CursorOf(g) \in Cursor
        BY <4>1, CursorType
      <4>4. ~Below(CursorOf(g), CursorOf(end))
        BY <2>6, <4>1, <4>2, <4>3, OrderOfCursors
      <4> QED BY <2>7, <4>1, <4>4 DEF Reached
    <3>2. ASSUME NEW g \in ToSet(page.rows)
          PROVE  g \in RowsOfView /\ Found(g) # {} /\ Reached(g, CursorOf(end))
      <4>1. PICK i \in DOMAIN page.rows : g = page.rows[i]
        BY <3>2 DEF ToSet
      <4>2. g \in RowsOfView /\ Found(g) # {} /\ CursorOf(g) \in Cursor
        BY <2>4, <2>5, <4>1
      <4>3. ~Below(CursorOf(g), CursorOf(end))
        <5>1. CASE i = n
          BY <2>2, <4>1, <4>2, <5>1, OrderOfCursors
        <5>2. CASE i # n
          BY <1>1, <2>2, <2>3, <4>1, <5>2
        <5> QED BY <5>1, <5>2
      <4> QED BY <2>7, <4>2, <4>3 DEF Reached
    <3> QED BY <3>1, <3>2 DEF Passed
  <2>9. Complete(all, CursorOf(end), dirty)
    <3> SUFFICES ASSUME view # "performance", NEW g \in RowsOfView \ dirty, Found(g) # {},
                        ~Below(CursorOf(g), CursorOf(end)), g \notin all
                 PROVE  FALSE
      BY <1>3 DEF Complete, Reached
    <3>1. g \in Wanted(cursor) \ ToSet(page.rows)
      BY <1>2, <1>3 DEF Complete
    <3>2. ~Below(CursorOf(end), CursorOf(g))
      BY <1>1, <2>2, <2>3, <3>1
    <3>3. CursorOf(g) \in Cursor /\ CursorOf(g).key = g /\ CursorOf(end).key = end
      BY <2>5, <2>6, <3>1, CursorType
    <3>4. g = end
      BY <2>6, <3>2, <3>3, OrderOfCursors
    <3>5. end \in ToSet(page.rows)
      BY <2>2, <2>3 DEF ToSet
    <3> QED BY <3>1, <3>4, <3>5
  <2> QED BY <2>2, <2>6, <2>8, <2>9
<1> QED BY <1>4, <1>5

LEMMA AnswerRowsKeeps ==
  ASSUME HistoryInv, AnswerRows, view # "issues"
  PROVE  HistoryInv'
<1>1. Still /\ query.stage = "store"
  BY DEF AnswerRows, Still
<1>2. PICK listing \in Listings(query.cursor, Limit + 1) :
        LET page == Page(listing, Limit)
        IN  Answered(page.rows, IF page.more THEN CursorOf(Last(page.rows)) ELSE NoCursor, page.more)
  BY DEF AnswerRows
<1>3. PICK page : page = Page(listing, Limit)
  OBVIOUS
<1>4. PICK cursor : cursor = IF page.more THEN CursorOf(Last(page.rows)) ELSE NoCursor
  OBVIOUS
<1>5. Answered(page.rows, cursor, page.more)
  BY <1>2, <1>3, <1>4
<1>6. IsPage(page, query.cursor)
  BY <1>3, ListedRows, HistoryAssumption DEF HistoryInv, HistoryTypes
<1>7. /\ ViewOK /\ filter = AnyStatus /\ query.data = <<>> /\ query.dirty \subseteq Nat
      /\ query.cursor \in Cursor \cup {NoCursor}
  BY DEF HistoryInv, HistoryTypes, Request
<1>8. PICK rows : rows = ToSet(query.walk.listed)
  OBVIOUS
<1>9. Passed(rows, query.cursor) /\ Complete(rows, query.cursor, query.dirty)
  <2>1. Sofar = rows
    BY <1>7, <1>8 DEF Sofar, ToSet
  <2> QED BY <1>1, <2>1 DEF HistoryInv, QueryOK
<1>10. PICK all : all = rows \cup ToSet(page.rows)
  OBVIOUS
<1>11. /\ page.more => CursorOf(Last(page.rows)) \in Cursor /\ Passed(all, CursorOf(Last(page.rows)))
                       /\ Complete(all, CursorOf(Last(page.rows)), query.dirty)
       /\ ~page.more => AllListed(all, query.dirty)
  BY <1>6, <1>7, <1>9, <1>10, PageFollows
<1>12. /\ page.rows \in Seq(Wanted(query.cursor)) /\ IsInjective(page.rows) /\ page.more \in BOOLEAN
  BY <1>6 DEF IsPage
<1>13. page.rows \in Seq(Nat)
  <2>1. Wanted(query.cursor) \subseteq Nat
    BY <1>7, RowsType DEF Wanted
  <2> QED BY <1>12, <2>1
<1>14. ToSet(query.walk.listed) \cap ToSet(page.rows) = {}
  <2>1. ToSet(page.rows) \subseteq Wanted(query.cursor)
    BY <1>12 DEF ToSet
  <2> QED BY <1>8, <1>9, <2>1, WantedIsNew
<1>15. /\ cursor \in Cursor \cup {NoCursor}
       /\ IF page.more THEN Passed(all, cursor) /\ Complete(all, cursor, query.dirty)
          ELSE AllListed(all, query.dirty)
  BY <1>4, <1>11
<1> QED BY <1>1, <1>5, <1>8, <1>10, <1>12, <1>13, <1>14, <1>15, AnsweredKeeps

LEMMA ListIssuesKeeps ==
  ASSUME HistoryInv, ListIssues
  PROVE  HistoryInv'
<1>1. /\ Still /\ UNCHANGED <<walk, unsettled>> /\ view = "issues" /\ query.stage = "store"
  BY DEF ListIssues, Still
<1>2. PICK page : /\ IsPage(page, query.cursor)
                  /\ query' = [query EXCEPT
                       !.stage = "status", !.more = page.more,
                       !.page = [i \in DOMAIN page.rows |->
                                   [group |-> page.rows[i], cursor |-> CursorOf(page.rows[i])]]]
  <2>1. PICK listing \in Listings(query.cursor, StoreLimit + 1) :
          LET page == Page(listing, StoreLimit)
          IN  query' = [query EXCEPT
                !.stage = "status", !.more = page.more,
                !.page = [i \in DOMAIN page.rows |->
                            [group |-> page.rows[i], cursor |-> CursorOf(page.rows[i])]]]
    BY DEF ListIssues
  <2>2. PICK page : page = Page(listing, StoreLimit)
    OBVIOUS
  <2>3. StoreLimit \in Nat \ {0}
    BY HistoryAssumption
  <2>4. IsPage(page, query.cursor)
    BY <2>2, <2>3, ListedRows DEF HistoryInv, HistoryTypes
  <2> QED BY <2>1, <2>2, <2>4
<1>3. PICK rows, issues :
        /\ rows = page.rows
        /\ issues = [i \in DOMAIN rows |-> [group |-> rows[i], cursor |-> CursorOf(rows[i])]]
  OBVIOUS
<1>4. /\ query'.stage = "status" /\ query'.more = page.more /\ query'.page = issues
      /\ query'.walk = query.walk /\ query'.data = query.data /\ query'.cursor = query.cursor
      /\ query'.dirty = query.dirty
  BY <1>2, <1>3 DEF HistoryInv, HistoryTypes, Request
<1>5. /\ rows \in Seq(Wanted(query.cursor)) /\ IsInjective(rows) /\ page.more \in BOOLEAN
      /\ page.more => rows # <<>>
      /\ \A i, j \in DOMAIN rows : i < j => ~Below(CursorOf(rows[i]), CursorOf(rows[j]))
      /\ \A g \in Wanted(query.cursor) \ ToSet(rows) :
           page.more /\ \A i \in DOMAIN rows : ~Below(CursorOf(rows[i]), CursorOf(g))
  BY <1>2, <1>3 DEF IsPage
<1>6. \A g \in Wanted(query.cursor) :
        /\ g \in RowsOfView /\ g \in Nat /\ Found(g) # {}
        /\ CursorOf(g) \in Cursor /\ CursorOf(g).key = g
  <2>1. ViewOK /\ view # "performance"
    BY <1>1 DEF HistoryInv, HistoryTypes
  <2> QED BY <2>1, CursorType, RowsType DEF Wanted
<1>7. PICK n \in Nat : n = Len(rows) /\ DOMAIN rows = 1..n /\ \A i \in 1..n : rows[i] \in Wanted(query.cursor)
  BY <1>5
<1>8. /\ DOMAIN issues = 1..n /\ issues \in Seq([group : Nat, cursor : Cursor])
      /\ \A i \in 1..n : issues[i].group = rows[i] /\ issues[i].cursor = CursorOf(rows[i])
  <2>1. DOMAIN issues = 1..n
        /\ \A i \in 1..n : issues[i] = [group |-> rows[i], cursor |-> CursorOf(rows[i])]
    BY <1>3, <1>7
  <2>2. \A i \in 1..n : issues[i] \in [group : Nat, cursor : Cursor]
    BY <1>6, <1>7, <2>1
  <2>3. issues \in [1..n -> [group : Nat, cursor : Cursor]]
    BY <1>3, <1>7, <2>2
  <2>4. \A T : \A f \in [1..n -> T] : f \in Seq(T)
    OBVIOUS
  <2>5. issues \in Seq([group : Nat, cursor : Cursor])
    BY <2>3, <2>4, Zenon
  <2> QED BY <2>1, <2>5
<1>9. HistoryTypes'
  <2>1. query' = [query EXCEPT !.stage = "status", !.more = page.more, !.page = issues]
    BY <1>2, <1>3
  <2>2. query' \in Request
    BY <1>5, <1>8, <2>1 DEF HistoryInv, HistoryTypes, Request
  <2>3. ViewOK'
    BY <1>1, StillRows DEF HistoryInv, HistoryTypes
  <2> QED BY <1>1, <1>4, <2>2, <2>3 DEF HistoryInv, HistoryTypes, Still
<1>10. IsWalk(walk, unsettled)'
  BY <1>1, StillCovers DEF HistoryInv
<1>11. Sofar' = Sofar
  BY <1>4 DEF Sofar
<1>12. QueryOK'
  <2>1. Passed(Sofar, query.cursor) /\ Complete(Sofar, query.cursor, query.dirty)
    BY <1>1 DEF HistoryInv, QueryOK
  <2>2. Passed(Sofar, query.cursor)'
    BY <1>1, <1>4, <1>11, <2>1, StillCovers
  <2>3. Complete(Sofar, query.cursor, query.dirty)'
    BY <1>1, <1>4, <1>11, <2>1, StillCovers
  <2> QED BY <1>1, <1>4, <2>2, <2>3 DEF HistoryInv, QueryOK
<1>13. Descends(issues, query.cursor)
  <2>1. ASSUME NEW i \in 1..n, NEW j \in 1..n, i < j
        PROVE  rows[i] # rows[j] /\ Below(CursorOf(rows[j]), CursorOf(rows[i]))
    <3>1. rows[i] # rows[j]
      BY <1>5, <1>7, <2>1 DEF IsInjective
    <3>2. ~Below(CursorOf(rows[i]), CursorOf(rows[j]))
      BY <1>5, <1>7, <2>1
    <3> QED BY <1>6, <1>7, <3>1, <3>2, OrderOfCursors
  <2>2. ASSUME NEW i \in 1..n, query.cursor # NoCursor PROVE Below(CursorOf(rows[i]), query.cursor)
    BY <1>7, <2>2 DEF Wanted
  <2> QED BY <1>8, <2>1, <2>2 DEF Descends
<1>14. IsRead(issues, Sofar, query.dirty)
  <2>1. Sofar \cap Wanted(query.cursor) = {}
    BY <1>1, WantedIsNew DEF HistoryInv, QueryOK
  <2>2. \A i \in 1..n : ~Below(CursorOf(rows[i]), CursorOf(rows[i]))
    BY <1>6, <1>7, OrderOfCursors
  <2> QED BY <1>6, <1>7, <1>8, <2>1, <2>2 DEF IsRead
<1>15. Reaches(issues, query.cursor, page.more, query.dirty)
  <2> SUFFICES ASSUME NEW g \in RowsOfView \ query.dirty, Found(g) # {}, ~Reached(g, query.cursor),
                      \A i \in 1..n : rows[i] # g
               PROVE  page.more /\ \A i \in 1..n : Below(CursorOf(g), CursorOf(rows[i]))
    BY <1>8 DEF Reaches
  <2>1. g \in Wanted(query.cursor) \ ToSet(rows)
    BY <1>7 DEF Wanted, Reached, ToSet
  <2>2. page.more /\ \A i \in 1..n : ~Below(CursorOf(rows[i]), CursorOf(g))
    BY <1>5, <1>7, <2>1
  <2> QED BY <1>6, <1>7, <2>1, <2>2, OrderOfCursors
<1>16. PageOK'
  <2>1. Descends(query.page, query.cursor)'
    BY <1>4, <1>13 DEF Descends, Below
  <2>2. IsRead(query.page, Sofar, query.dirty)'
    BY <1>1, <1>4, <1>11, <1>14, StillRows DEF IsRead, Below
  <2>3. Reaches(query.page, query.cursor, query.more, query.dirty)'
    BY <1>1, <1>4, <1>15, StillRows DEF Reaches, Reached, Below
  <2>4. view' = "issues" /\ (query'.more => query'.page # <<>>)
    BY <1>1, <1>4, <1>5, <1>7, <1>8 DEF Still
  <2> QED BY <2>1, <2>2, <2>3, <2>4 DEF PageOK
<1> QED BY <1>9, <1>10, <1>12, <1>16 DEF HistoryInv

\* The issues among the first n of the store's page, and those that match.
Answers(issues, n) == {issues[i].group : i \in {i \in 1..n : filter = AnyStatus
                                                             \/ status[issues[i].group] = filter}}

LEMMA KeptIssues ==
  ASSUME NEW issues \in Seq([group : Nat, cursor : Cursor]), NEW n \in 0..Len(issues),
         \A i, j \in DOMAIN issues : i < j => issues[i].group # issues[j].group
  PROVE  /\ Kept(issues, n) \in Seq(Nat) /\ IsInjective(Kept(issues, n))
         /\ ToSet(Kept(issues, n)) = Answers(issues, n)
<1>1. PICK groups : groups = [i \in 1..n |-> issues[i].group]
  OBVIOUS
<1>2. PICK chosen : chosen = {i \in 1..n : filter = AnyStatus \/ status[issues[i].group] = filter}
  OBVIOUS
<1>3. DOMAIN issues = 1..Len(issues) /\ n \in Nat /\ n <= Len(issues) /\ 1..n \subseteq DOMAIN issues
  OBVIOUS
<1>4. \A T : \A s \in Seq(T) : \A j \in DOMAIN s : s[j] \in T
  OBVIOUS
<1>5. \A i \in 1..n : issues[i] \in [group : Nat, cursor : Cursor]
  BY <1>3, <1>4, Zenon
<1>6. groups \in Seq(Nat) /\ DOMAIN groups = 1..n /\ \A i \in 1..n : groups[i] = issues[i].group
  <2>1. groups \in [1..n -> Nat]
    BY <1>1, <1>5
  <2> QED BY <1>1, <1>3, <2>1
<1>7. IsInjective(groups)
  <2> SUFFICES ASSUME NEW i \in 1..n, NEW j \in 1..n, issues[i].group = issues[j].group, i # j
               PROVE  FALSE
    BY <1>6 DEF IsInjective
  <2>1. i < j \/ j < i
    OBVIOUS
  <2> QED BY <1>3, <2>1
<1>8. PICK q : q = Kept(issues, n)
  OBVIOUS
<1>9. q = Subsequence(groups, chosen)
  BY <1>1, <1>2, <1>8 DEF Kept
<1>10. /\ q \in Seq(Nat) /\ \A k \in DOMAIN q : \E i \in chosen \cap DOMAIN groups : q[k] = groups[i]
       /\ \A i \in chosen \cap DOMAIN groups : \E k \in DOMAIN q : q[k] = groups[i]
  <2>1. groups \in Seq(Nat)
    BY <1>6
  <2> QED BY ONLY <1>9, <2>1, SubsequenceElements
<1>11. IsInjective(q)
  BY <1>6, <1>7, <1>9, SubsequenceKeepsOnce
<1>12. chosen \subseteq 1..n
  BY <1>2
<1>13. ToSet(q) = {groups[i] : i \in chosen}
  <2>1. chosen \cap DOMAIN groups = chosen
    BY <1>6, <1>12
  <2>2. ToSet(q) = {q[k] : k \in DOMAIN q}
    BY DEF ToSet
  <2>3. /\ \A k \in DOMAIN q : \E i \in chosen : q[k] = groups[i]
        /\ \A i \in chosen : \E k \in DOMAIN q : q[k] = groups[i]
    BY <1>10, <2>1
  <2> QED BY <2>2, <2>3
<1>14. {groups[i] : i \in chosen} = Answers(issues, n)
  BY <1>2, <1>6, <1>12 DEF Answers
<1> QED BY <1>8, <1>10, <1>11, <1>13, <1>14

\* The walk has come to the n-th issue of the store's page.
LEMMA IssuesFollow ==
  ASSUME HistoryInv, query.stage = "status", NEW n \in DOMAIN query.page,
         NEW all, all = Sofar \cup Answers(query.page, n)
  PROVE  /\ query.page[n].cursor \in Cursor
         /\ Passed(all, query.page[n].cursor) /\ Complete(all, query.page[n].cursor, query.dirty)
<1>1. PICK page : page = query.page
  OBVIOUS
<1>2. /\ view = "issues" /\ Descends(page, query.cursor) /\ IsRead(page, Sofar, query.dirty)
      /\ Reaches(page, query.cursor, query.more, query.dirty)
      /\ Passed(Sofar, query.cursor) /\ Complete(Sofar, query.cursor, query.dirty)
  BY <1>1 DEF HistoryInv, PageOK, QueryOK
<1>3. page \in Seq([group : Nat, cursor : Cursor]) /\ query.cursor \in Cursor \cup {NoCursor} /\ ViewOK
  BY <1>1 DEF HistoryInv, HistoryTypes, Request
<1>4. \A i \in DOMAIN page : page[i].cursor \in Cursor /\ page[i].cursor # NoCursor /\ i \in Nat
  <2>1. \A T : \A s \in Seq(T) : \A j \in DOMAIN s : s[j] \in T /\ j \in Nat
    OBVIOUS
  <2>2. \A i \in DOMAIN page : page[i] \in [group : Nat, cursor : Cursor] /\ i \in Nat
    BY <1>3, <2>1, Zenon
  <2> QED BY <2>2, HistoryAssumption DEF Cursor
<1>5. \A g \in RowsOfView : Found(g) # {} => CursorOf(g) \in Cursor
  BY <1>3, CursorType
<1>6. Passed(all, page[n].cursor)
  <2>1. ASSUME NEW g \in Sofar PROVE g \in RowsOfView /\ Found(g) # {} /\ Reached(g, page[n].cursor)
    <3>1. g \in RowsOfView /\ Found(g) # {} /\ query.cursor \in Cursor /\ ~Below(CursorOf(g), query.cursor)
          /\ query.cursor # NoCursor
      BY <1>2, <1>3, <2>1 DEF Passed, Reached
    <3>2. Below(page[n].cursor, query.cursor)
      BY <1>1, <1>2, <3>1 DEF Descends
    <3>3. ~Below(CursorOf(g), page[n].cursor)
      BY <1>1, <1>4, <1>5, <3>1, <3>2, OrderOfCursors
    <3> QED BY <1>1, <1>4, <3>1, <3>3 DEF Reached
  <2>2. ASSUME NEW g \in Answers(page, n)
        PROVE  g \in RowsOfView /\ Found(g) # {} /\ Reached(g, page[n].cursor)
    <3>1. PICK i \in 1..n : g = page[i].group
      BY <2>2 DEF Answers
    <3>2. i \in DOMAIN page
      BY <1>1, <1>3, <3>1
    <3>3. g \in RowsOfView /\ Found(g) # {} /\ ~Below(CursorOf(g), page[i].cursor)
      BY <1>2, <3>1, <3>2 DEF IsRead
    <3>4. ~Below(page[i].cursor, page[n].cursor)
      <4>1. CASE i = n
        BY <1>4, <3>2, <4>1, OrderOfCursors
      <4>2. CASE i # n
        <5>1. i < n
          BY <1>1, <1>4, <4>2
        <5>2. Below(page[n].cursor, page[i].cursor)
          BY <1>1, <1>2, <3>2, <5>1 DEF Descends
        <5> QED BY <1>1, <1>4, <3>2, <5>2, OrderOfCursors
      <4> QED BY <4>1, <4>2
    <3>5. ~Below(CursorOf(g), page[n].cursor)
      BY <1>1, <1>4, <1>5, <3>2, <3>3, <3>4, OrderOfCursors
    <3> QED BY <1>1, <1>4, <3>3, <3>5 DEF Reached
  <2> QED BY <1>1, <2>1, <2>2 DEF Passed
<1>7. Complete(all, page[n].cursor, query.dirty)
  <2> SUFFICES ASSUME NEW g \in RowsOfView \ query.dirty, Matches(g), ~Below(CursorOf(g), page[n].cursor)
               PROVE  g \in all
    BY DEF Complete, Reached
  <2>1. Found(g) # {} /\ (filter = AnyStatus \/ status[g] = filter)
    BY <1>2 DEF Matches
  <2>2. CASE Reached(g, query.cursor)
    BY <1>2, <2>2 DEF Complete
  <2>3. CASE \E i \in DOMAIN page : page[i].group = g
    <3>1. PICK i \in DOMAIN page : page[i].group = g
      BY <2>3
    <3>2. CursorOf(g) = page[i].cursor
      BY <1>2, <3>1 DEF IsRead
    <3>3. ~(n < i)
      BY <1>1, <1>2, <3>1, <3>2 DEF Descends
    <3>4. i \in 1..n
      BY <1>1, <1>3, <3>1, <3>3
    <3>5. g \in Answers(page, n)
      BY <2>1, <3>1, <3>4 DEF Answers
    <3> QED BY <1>1, <3>5
  <2>4. CASE \A i \in DOMAIN page : Below(CursorOf(g), page[i].cursor)
    BY <1>1, <2>4
  <2> QED BY <1>2, <2>1, <2>2, <2>3, <2>4 DEF Reaches
<1> QED BY <1>1, <1>4, <1>6, <1>7

\* The store has no more than this page.
LEMMA IssuesEnd ==
  ASSUME HistoryInv, query.stage = "status", ~query.more, NEW n \in Nat, n = Len(query.page),
         NEW all, all = Sofar \cup Answers(query.page, n)
  PROVE  AllListed(all, query.dirty)
<1>1. /\ view = "issues" /\ Reaches(query.page, query.cursor, query.more, query.dirty)
      /\ Complete(Sofar, query.cursor, query.dirty)
  BY DEF HistoryInv, PageOK, QueryOK
<1>2. DOMAIN query.page = 1..n
  <2>1. query.page \in Seq([group : Nat, cursor : Cursor])
    BY DEF HistoryInv, HistoryTypes, Request
  <2> QED BY <2>1
<1> SUFFICES ASSUME NEW g \in RowsOfView \ query.dirty, Matches(g)
             PROVE  g \in all
  BY DEF AllListed
<1>3. Found(g) # {} /\ (filter = AnyStatus \/ status[g] = filter)
  BY <1>1 DEF Matches
<1>4. CASE Reached(g, query.cursor)
  BY <1>1, <1>4 DEF Complete
<1>5. CASE \E i \in DOMAIN query.page : query.page[i].group = g
  BY <1>2, <1>3, <1>5 DEF Answers
<1> QED BY <1>1, <1>3, <1>4, <1>5 DEF Reaches

\* What the answer holds once the first n issues of the store's page are read.
LEMMA DataFollows ==
  ASSUME HistoryInv, query.stage = "status", NEW n \in 0..Len(query.page)
  PROVE  /\ Data(query.page, n) \in Seq(Nat) /\ IsInjective(Data(query.page, n))
         /\ ToSet(query.walk.listed) \cap ToSet(Data(query.page, n)) = {}
         /\ ToSet(query.walk.listed) \cup ToSet(Data(query.page, n)) = Sofar \cup Answers(query.page, n)
<1>1. PICK page : page = query.page
  OBVIOUS
<1>2. PICK data, kept : data = query.data /\ kept = Kept(page, n)
  OBVIOUS
<1>3. page \in Seq([group : Nat, cursor : Cursor]) /\ data \in Seq(Nat)
  BY <1>1, <1>2 DEF HistoryInv, HistoryTypes, Request
<1>4. Descends(page, query.cursor) /\ IsRead(page, Sofar, query.dirty)
  BY <1>1 DEF HistoryInv, PageOK
<1>5. IsInjective(data) /\ ToSet(query.walk.listed) \cap ToSet(data) = {}
  BY <1>2 DEF HistoryInv, QueryOK
<1>6. /\ kept \in Seq(Nat) /\ IsInjective(kept) /\ ToSet(kept) = Answers(page, n)
  <2>1. \A i, j \in DOMAIN page : i < j => page[i].group # page[j].group
    BY <1>4 DEF Descends
  <2> QED BY <1>1, <1>2, <1>3, <2>1, KeptIssues
<1>7. Answers(page, n) \cap Sofar = {}
  <2>1. \A i \in 1..n : i \in DOMAIN page
    BY <1>1, <1>3
  <2>2. \A i \in DOMAIN page : page[i].group \notin Sofar
    BY <1>4 DEF IsRead
  <2> QED BY <2>1, <2>2 DEF Answers
<1>8. Sofar = ToSet(query.walk.listed) \cup ToSet(data)
  BY <1>2 DEF Sofar
<1>9. Data(page, n) = data \o kept
  BY <1>2 DEF Data
<1>10. Data(page, n) \in Seq(Nat)
  BY <1>3, <1>6, <1>9
<1>11. ToSet(Data(page, n)) = ToSet(data) \cup Answers(page, n)
  BY <1>3, <1>6, <1>9, ConcatElements
<1>12. IsInjective(Data(page, n))
  BY <1>3, <1>5, <1>6, <1>7, <1>8, <1>9, ConcatOnce
<1> QED BY <1>1, <1>5, <1>7, <1>8, <1>10, <1>11, <1>12

LEMMA ContinueKeeps ==
  ASSUME HistoryInv, Still, query.stage = "status", Continue
  PROVE  HistoryInv'
<1>1. PICK n \in Nat : n = Len(query.page)
  <2>1. query.page \in Seq([group : Nat, cursor : Cursor])
    BY DEF HistoryInv, HistoryTypes, Request
  <2> QED BY <2>1
<1>2. PICK data, all : data = Data(query.page, n) /\ all = Sofar \cup Answers(query.page, n)
  OBVIOUS
<1>3. /\ data \in Seq(Nat) /\ IsInjective(data) /\ ToSet(query.walk.listed) \cap ToSet(data) = {}
      /\ ToSet(query.walk.listed) \cup ToSet(data) = all
  BY <1>1, <1>2, DataFollows
<1>4. CASE ~query.more
  <2>1. ReadToEnd(Longer(data, NoCursor, FALSE))
    BY <1>1, <1>2, <1>4 DEF Continue
  <2>2. AllListed(all, query.dirty)
    BY <1>1, <1>2, <1>4, IssuesEnd
  <2> QED BY <1>3, <2>1, <2>2, ReadToEndKeeps
<1>5. CASE query.more
  <2>1. PICK cursor : cursor = Last(query.page).cursor
    OBVIOUS
  <2>2. /\ query' = [query EXCEPT !.stage = "store", !.cursor = cursor, !.page = <<>>, !.data = data]
        /\ UNCHANGED <<walk, unsettled>>
    BY <1>1, <1>2, <1>5, <2>1 DEF Continue
  <2>3. n \in DOMAIN query.page /\ cursor = query.page[n].cursor
    <3>1. query.page \in Seq([group : Nat, cursor : Cursor])
      BY DEF HistoryInv, HistoryTypes, Request
    <3>2. query.page # <<>>
      BY <1>5 DEF HistoryInv, PageOK
    <3> QED BY <1>1, <2>1, <3>1, <3>2 DEF Last
  <2>4. cursor \in Cursor /\ Passed(all, cursor) /\ Complete(all, cursor, query.dirty)
    BY <1>2, <2>3, IssuesFollow
  <2>5. /\ query'.stage = "store" /\ query'.walk = query.walk /\ query'.cursor = cursor
        /\ query'.data = data /\ query'.dirty = query.dirty /\ query' \in Request
    <3>1. query \in Request /\ <<>> \in Seq([group : Nat, cursor : Cursor])
      BY DEF HistoryInv, HistoryTypes
    <3> QED BY <1>3, <2>2, <2>4, <3>1 DEF Request
  <2>6. query.walk.more /\ IsInjective(query.walk.listed) /\ view = "issues"
    BY DEF HistoryInv, QueryOK, PageOK
  <2>7. Asks(query.walk, cursor, data, query.dirty)
    BY <1>3, <2>4, <2>5, <2>6 DEF Asks
  <2> QED BY <2>2, <2>7, AskKeeps
<1>6. query.more \in BOOLEAN
  BY DEF HistoryInv, HistoryTypes, Request
<1> QED BY <1>4, <1>5

LEMMA ReadStatusesKeeps ==
  ASSUME HistoryInv, ReadStatuses
  PROVE  HistoryInv'
<1>1. Still /\ query.stage = "status"
  BY DEF ReadStatuses, Still
<1>2. CASE Full = {}
  <2>1. Continue
    BY <1>2 DEF ReadStatuses
  <2> QED BY <1>1, <2>1, ContinueKeeps
<1>3. CASE Full # {}
  <2>1. PICK length \in Nat : length = Len(query.page) /\ DOMAIN query.page = 1..length
    <3>1. query.page \in Seq([group : Nat, cursor : Cursor])
      BY DEF HistoryInv, HistoryTypes, Request
    <3> QED BY <3>1
  <2>2. PICK n : n = Min(Full)
    OBVIOUS
  <2>3. n \in 1..length
    <3>1. Full \subseteq Nat /\ Full \subseteq 1..length
      BY <2>1 DEF Full
    <3> QED BY <1>3, <2>2, <3>1, MinIsMember
  <2>4. PICK more : more = (n < length \/ query.more)
    OBVIOUS
  <2>5. more \in BOOLEAN /\ (more <=> n < length \/ query.more)
    BY <2>4, Zenon
  <2>6. PICK cursor : cursor = IF more THEN query.page[n].cursor ELSE NoCursor
    OBVIOUS
  <2>7. PICK data, all : data = Data(query.page, n) /\ all = Sofar \cup Answers(query.page, n)
    OBVIOUS
  <2>8. Answered(data, cursor, more)
    BY <1>3, <2>1, <2>2, <2>4, <2>6, <2>7 DEF ReadStatuses
  <2>9. /\ data \in Seq(Nat) /\ IsInjective(data) /\ ToSet(query.walk.listed) \cap ToSet(data) = {}
        /\ ToSet(query.walk.listed) \cup ToSet(data) = all
    BY <1>1, <2>1, <2>3, <2>7, DataFollows
  <2>10. /\ query.page[n].cursor \in Cursor
         /\ Passed(all, query.page[n].cursor) /\ Complete(all, query.page[n].cursor, query.dirty)
    BY <1>1, <2>1, <2>3, <2>7, IssuesFollow
  <2>11. ~more => AllListed(all, query.dirty)
    <3> SUFFICES ASSUME ~more PROVE AllListed(all, query.dirty)
      OBVIOUS
    <3>1. n = length /\ ~query.more /\ n \in Nat
      BY <2>3, <2>5
    <3> QED BY <1>1, <2>1, <2>7, <3>1, IssuesEnd
  <2>12. IF more THEN Passed(all, cursor) /\ Complete(all, cursor, query.dirty)
         ELSE AllListed(all, query.dirty)
    BY <2>5, <2>6, <2>10, <2>11
  <2>13. cursor \in Cursor \cup {NoCursor}
    BY <2>5, <2>6, <2>10
  <2> QED BY <1>1, <2>5, <2>8, <2>9, <2>12, <2>13, AnsweredKeeps
<1> QED BY <1>2, <1>3

-----------------------------------------------------------------------------
(* The console's walks keep the invariant, and with it the properties.     *)

LEMMA InitHistory ==
  ASSUME HistoryInit
  PROVE  HistoryInv
<1>1. ViewOK
  BY HistoryAssumption DEF HistoryInit, ViewOK
<1>2. filter \in Statuses \cup {AnyStatus} /\ (view # "issues" => filter = AnyStatus)
  BY DEF HistoryInit
<1>3. status \in [Groups -> Statuses]
  <2>1. {GroupOf[e] : e \in Events} = Groups
    BY HistoryAssumption DEF Groups, Range
  <2> QED BY <2>1 DEF HistoryInit, Statuses
<1>4. walk = NewWalk /\ query = Idle /\ unsettled = {}
  BY DEF HistoryInit
<1>5. HistoryTypes
  BY <1>1, <1>2, <1>3, <1>4, EmptyWalk DEF HistoryTypes
<1> QED BY <1>4, <1>5, EmptyWalk DEF HistoryInv, QueryOK, PageOK

LEMMA StepHistory ==
  ASSUME HistoryInv, [HistoryNext]_historyVars
  PROVE  HistoryInv'
<1>1. CASE \E e \in Events : StoreEvent(e)
  BY <1>1, StoreEventKeeps
<1>2. CASE \E g \in DOMAIN status : ChangeStatus(g)
  BY <1>2, ChangeStatusKeeps
<1>3. CASE EventExplorer \/ SessionExplorer \/ OccurrenceExplorer \/ IssuesExplorer
           \/ NetworkExplorer \/ PerformanceExplorer \/ ReleaseHealthExplorer
  BY <1>3, FetchNextPageKeeps DEF EventExplorer, SessionExplorer, OccurrenceExplorer, IssuesExplorer,
                                  NetworkExplorer, PerformanceExplorer, ReleaseHealthExplorer
<1>4. CASE Refetch
  BY <1>4, RefetchKeeps
<1>5. CASE Refresh
  BY <1>5, RefreshKeeps
<1>6. CASE QueryFails
  BY <1>6, QueryFailsKeeps
<1>7. CASE ListEvents \/ ListNetwork \/ ListPerformance \/ ListReleases
  <2>1. view # "issues" /\ AnswerRows
    BY <1>7 DEF ListEvents, ListNetwork, ListPerformance, ListReleases, EventViews
  <2> QED BY <2>1, AnswerRowsKeeps
<1>8. CASE ListIssues
  BY <1>8, ListIssuesKeeps
<1>9. CASE ReadStatuses
  BY <1>9, ReadStatusesKeeps
<1>10. CASE UNCHANGED historyVars
  <2> USE <1>10 DEF historyVars
  <2>1. Still /\ ViewOK'
    BY StillRows DEF Still, HistoryInv, HistoryTypes
  <2>2. HistoryTypes'
    BY <2>1 DEF HistoryInv, HistoryTypes
  <2>3. IsWalk(walk, unsettled)'
    BY <2>1, StillCovers DEF HistoryInv
  <2>4. Sofar' = Sofar
    BY DEF Sofar
  <2>5. QueryOK'
    BY <2>1, <2>4, StillCovers DEF HistoryInv, QueryOK
  <2>6. PageOK'
    BY <2>1, <2>4, StillRows DEF HistoryInv, PageOK, Descends, IsRead, Reaches, Reached, Below
  <2> QED BY <2>2, <2>3, <2>5, <2>6 DEF HistoryInv
<1> QED BY <1>1, <1>2, <1>3, <1>4, <1>5, <1>6, <1>7, <1>8, <1>9, <1>10 DEF HistoryNext

LEMMA HistoryInductive == HistorySpec => []HistoryInv
<1>1. HistoryInit => HistoryInv
  BY InitHistory
<1>2. HistoryInv /\ [HistoryNext]_historyVars => HistoryInv'
  BY StepHistory
<1> QED BY <1>1, <1>2, PTL DEF HistorySpec

\* Whatever the sizes of pages, however many events arrive and statuses change
\* while a view walks over its rows, and wherever it is read again, no row is
\* listed twice (clickhouse-*.ts, issue-handlers.ts and useInfiniteQuery).
THEOREM NothingTwice == HistorySpec => []ListedOnce
<1>1. HistoryInv => ListedOnce
  BY DEF HistoryInv, IsWalk, ListedOnce
<1> QED BY <1>1, HistoryInductive, PTL

\* A walk that has come to its end has listed every row that matches and has
\* not changed since the walk began; measures of several units aside, which
\* the cursor does not tell apart.
THEOREM NothingLeftOut == HistorySpec => []SettledIsListed
<1>1. HistoryInv => SettledIsListed
  BY DEF HistoryInv, IsWalk, AllListed, SettledIsListed, Exhausted
<1> QED BY <1>1, HistoryInductive, PTL

-----------------------------------------------------------------------------
(* The live view.                                                          *)

LiveSpec == LiveInit /\ [][LiveNext]_liveVars

-----------------------------------------------------------------------------
(* The inductive invariant.                                                *)

Polls ==
  [stage : {"none", "asked", "answered"}, from : Nat, to : Nat, cursor : Nat \X Nat,
   page : Seq(Rows), more : BOOLEAN, data : Seq(Rows), pages : Nat]

LiveTypes ==
  /\ now \in Nat /\ last \in Nat /\ since \in Nat /\ gap \in BOOLEAN /\ truncated \in BOOLEAN
  /\ writing \subseteq [row : Rows, at : Nat]
  /\ table \in [Rows -> [at : Nat, seenAt : Nat]]
  /\ poll \in Polls
  /\ buffer \in [displayed : Seq(Rows), pending : Seq(Rows), seen : Seq(Rows), evicted : Int]

\* No row appears before its processing, nothing comes from the future, and
\* the first window begins after the beginning of time.
Stamps ==
  /\ now > Overlap /\ last <= now
  /\ last # 0 => last > Overlap
  /\ last = 0 => since = 0
  /\ \A c \in writing : c.at <= now
  /\ \A r \in Rows : table[r].at <= table[r].seenAt /\ table[r].seenAt <= now

\* The rows that the poll is to bring: those of its window that had appeared
\* before its snapshot, and have not been processed again since.
Reads(r) == table[r].at # 0 /\ table[r].seenAt < poll.to /\ poll.from <= table[r].at

\* What a poll has not brought is below its cursor.
PollStarts ==
  poll.stage = "asked" /\ poll.pages = 0 => poll.to = 0 /\ poll.cursor = <<0, 0>>
PollSnapshot ==
  poll.stage = "answered" \/ (poll.stage = "asked" /\ poll.pages # 0) =>
    poll.from # 0 /\ poll.to > Overlap /\ poll.to <= now
PollAsked ==
  poll.stage = "asked" /\ poll.pages # 0 =>
    \A r \in Rows : Reads(r) => r \in ToSet(poll.data) \/ Beyond(r, poll.cursor)
PollAnswered ==
  poll.stage = "answered" =>
    \A r \in Rows : Reads(r) => \/ r \in ToSet(poll.data) \/ r \in ToSet(poll.page)
                                \/ poll.more /\ Beyond(r, poll.cursor)
PollOverlaps == poll.stage # "none" /\ ~gap /\ last # 0 => poll.from = last - Overlap

PollOK == PollStarts /\ PollSnapshot /\ PollAsked /\ PollAnswered /\ PollOverlaps

LiveInv == LiveTypes /\ Stamps /\ PollOK /\ MissedIsReported /\ ShownOnce

-----------------------------------------------------------------------------
(* Steps of the rows.                                                      *)

LEMMA InitLive == LiveInit => LiveInv
<1> SUFFICES ASSUME LiveInit PROVE LiveInv
  OBVIOUS
<1> USE LiveAssumption DEF LiveInit
<1>1. poll = NoPoll /\ NoPoll \in Polls /\ NoPoll.stage = "none"
  BY DEF NoPoll, Polls
<1>2. <<>> \in Seq(Rows)
  OBVIOUS
<1>3. LiveTypes
  <2>1. EmptyBuffer \in [displayed : Seq(Rows), pending : Seq(Rows), seen : Seq(Rows), evicted : Int]
    BY <1>2 DEF EmptyBuffer
  <2>2. table \in [Rows -> [at : Nat, seenAt : Nat]]
    BY DEF Untouched
  <2>3. now \in Nat /\ writing = {}
    OBVIOUS
  <2> QED BY <1>1, <2>1, <2>2, <2>3 DEF LiveTypes
<1>4. Stamps
  BY DEF Stamps, Untouched
<1>5. PollOK
  BY <1>1 DEF PollOK, PollStarts, PollSnapshot, PollAsked, PollAnswered, PollOverlaps
<1>6. MissedIsReported
  BY DEF MissedIsReported, Timely
<1>7. ShownOnce
  <2>1. buffer.displayed \o buffer.pending = <<>>
    BY DEF EmptyBuffer
  <2> QED BY <2>1 DEF ShownOnce, IsInjective
<1> QED BY <1>3, <1>4, <1>5, <1>6, <1>7 DEF LiveInv

LEMMA TickLive ==
  ASSUME LiveInv, Tick
  PROVE  LiveInv'
<1>1. /\ now' = now + 1
      /\ UNCHANGED <<writing, table, poll, last, gap, buffer, since, observed, truncated>>
  BY DEF Tick
<1>2. LiveTypes /\ Stamps /\ PollOK /\ MissedIsReported /\ ShownOnce
  BY DEF LiveInv
<1>3. now \in Nat /\ last \in Nat /\ poll.to \in Nat /\ Overlap \in Nat
  BY <1>2, LiveAssumption DEF LiveTypes, Polls
<1>4. LiveTypes'
  BY <1>1, <1>2, <1>3 DEF LiveTypes
<1>5. Stamps'
  <2>1. \A c \in writing : c.at \in Nat /\ c.at <= now
    BY <1>2 DEF LiveTypes, Stamps
  <2>2. \A r \in Rows : table[r].seenAt \in Nat /\ table[r].seenAt <= now
    BY <1>2 DEF LiveTypes, Stamps
  <2>3. \A n \in Nat : n <= now => n <= now + 1
    BY <1>3
  <2>4. now + 1 > Overlap /\ last <= now + 1
    BY <1>2, <1>3 DEF Stamps
  <2> QED BY <1>1, <1>2, <2>1, <2>2, <2>3, <2>4 DEF Stamps
<1>6. \A r, c : Reads(r)' = Reads(r) /\ Beyond(r, c)' = Beyond(r, c) /\ Timely(r)' = Timely(r)
  BY <1>1 DEF Reads, Beyond, Timely
<1>7. PollSnapshot'
  <2>1. poll.to <= now => poll.to <= now + 1
    BY <1>3
  <2> QED BY <1>1, <1>2, <2>1 DEF PollOK, PollSnapshot
<1>8. PollOK'
  BY <1>1, <1>2, <1>6, <1>7 DEF PollOK, PollStarts, PollAsked, PollAnswered, PollOverlaps
<1>9. MissedIsReported' /\ ShownOnce'
  BY <1>1, <1>2, <1>6 DEF MissedIsReported, ShownOnce
<1> QED BY <1>4, <1>5, <1>8, <1>9 DEF LiveInv

\* Steps that leave the rows that have appeared alone, and the poll's clock.
LEMMA RestLive ==
  ASSUME LiveInv, UNCHANGED <<now, table, last, since, observed, truncated>>,
         writing' \subseteq writing \cup [row : Rows, at : {now}],
         (poll' = poll /\ gap' = gap) \/ poll' = NoPoll, gap' \in BOOLEAN, gap => gap',
         buffer' \in [displayed : Seq(Rows), pending : Seq(Rows), seen : Seq(Rows), evicted : Int],
         ShownOnce'
  PROVE  LiveInv'
<1> USE DEF LiveInv
<1>1. LiveTypes'
  <2>1. NoPoll \in Polls
    BY DEF NoPoll, Polls
  <2>2. writing' \subseteq [row : Rows, at : Nat]
    BY DEF LiveTypes
  <2> QED BY <2>1, <2>2 DEF LiveTypes
<1>2. Stamps'
  <2>1. \A c \in writing' : c.at <= now
    BY DEF Stamps, LiveTypes
  <2> QED BY <2>1 DEF Stamps
<1>3. \A r, c : (poll' = poll => Reads(r)' = Reads(r)) /\ Beyond(r, c)' = Beyond(r, c) /\ Timely(r)' = Timely(r)
  BY DEF Reads, Beyond, Timely
<1>4. PollOK'
  <2>1. CASE poll' = poll /\ gap' = gap
    BY <1>3, <2>1 DEF PollOK, PollStarts, PollSnapshot, PollAsked, PollAnswered, PollOverlaps
  <2>2. CASE poll' = NoPoll
    <3>1. poll'.stage = "none"
      BY <2>2 DEF NoPoll
    <3> QED BY <3>1 DEF PollOK, PollStarts, PollSnapshot, PollAsked, PollAnswered, PollOverlaps
  <2> QED BY <2>1, <2>2
<1>5. MissedIsReported'
  BY <1>3 DEF MissedIsReported
<1> QED BY <1>1, <1>2, <1>4, <1>5

LEMMA ProcessLive ==
  ASSUME LiveInv, NEW r \in Rows, Process(r)
  PROVE  LiveInv'
<1>1. /\ UNCHANGED <<now, table, last, since, observed, truncated, poll, gap, buffer>>
      /\ writing' = writing \cup {[row |-> r, at |-> now]}
  BY DEF Process
<1>2. writing' \subseteq writing \cup [row : Rows, at : {now}]
  BY <1>1
<1>3. ShownOnce'
  BY <1>1 DEF LiveInv, ShownOnce
<1> QED BY <1>1, <1>2, <1>3, RestLive DEF LiveInv, LiveTypes

LEMMA AppearLive ==
  ASSUME LiveInv, NEW c \in writing, Appear(c)
  PROVE  LiveInv'
<1> USE DEF LiveInv
<1>1. /\ UNCHANGED <<now, poll, last, gap, buffer, since, observed, truncated>>
      /\ writing' \subseteq writing
      /\ table' = IF c.at > table[c.row].at
                  THEN [table EXCEPT ![c.row] = [at |-> c.at, seenAt |-> now]] ELSE table
  BY DEF Appear
<1>2. c \in [row : Rows, at : Nat] /\ c.row \in Rows /\ c.at \in Nat /\ c.at <= now /\ now \in Nat
  BY DEF LiveTypes, Stamps
<1>3. \A r \in Rows : \/ table'[r] = table[r]
                      \/ table'[r] = [at |-> c.at, seenAt |-> now]
  BY <1>1, <1>2 DEF LiveTypes
<1>4. table' \in [Rows -> [at : Nat, seenAt : Nat]]
  BY <1>1, <1>2 DEF LiveTypes
<1>5. LiveTypes'
  BY <1>1, <1>4 DEF LiveTypes
<1>6. Stamps'
  <2>1. \A r \in Rows : table'[r].at <= table'[r].seenAt /\ table'[r].seenAt <= now
    BY <1>2, <1>3 DEF Stamps
  <2> QED BY <1>1, <2>1 DEF Stamps
<1>7. \A r \in Rows : Timely(r)' => Timely(r)
  <2> SUFFICES ASSUME NEW r \in Rows, Timely(r)', table'[r] # table[r] PROVE FALSE
    BY <1>1, <1>3 DEF Timely
  <2>1. table'[r].seenAt = now
    BY <1>3
  <2> QED BY <1>1, <1>2, <2>1 DEF Timely, Stamps, LiveTypes
<1>8. poll.to <= now => \A r \in Rows : Reads(r)' => Reads(r) /\ table'[r] = table[r]
  <2> SUFFICES ASSUME poll.to <= now, NEW r \in Rows, Reads(r)', table'[r] # table[r] PROVE FALSE
    BY <1>1, <1>3 DEF Reads
  <2>1. table'[r].seenAt = now
    BY <1>3
  <2>2. poll.to \in Nat
    BY DEF LiveTypes, Polls
  <2> QED BY <1>1, <1>2, <2>1, <2>2 DEF Reads
<1>9. \A p : \A r \in Rows : table'[r] = table[r] => (Beyond(r, p)' <=> Beyond(r, p))
  BY DEF Beyond
<1>10. PollSnapshot' /\ PollStarts' /\ PollOverlaps'
  BY <1>1 DEF PollOK, PollSnapshot, PollStarts, PollOverlaps
<1>11. PollAsked'
  BY <1>1, <1>8, <1>9 DEF PollOK, PollSnapshot, PollAsked
<1>12. PollAnswered'
  BY <1>1, <1>8, <1>9 DEF PollOK, PollSnapshot, PollAnswered
<1>13. MissedIsReported' /\ ShownOnce'
  BY <1>1, <1>7 DEF MissedIsReported, ShownOnce
<1> QED BY <1>5, <1>6, <1>10, <1>11, <1>12, <1>13 DEF PollOK

-----------------------------------------------------------------------------
(* Polls.                                                                  *)

LEMMA StartPollLive ==
  ASSUME LiveInv, StartPoll
  PROVE  LiveInv'
<1> USE DEF LiveInv
<1>1. PICK from : from = IF Interrupted \/ last = 0 THEN 0 ELSE last - Overlap
  OBVIOUS
<1>2. /\ UNCHANGED <<now, writing, table, last, buffer, since, observed, truncated>>
      /\ gap' = (gap \/ Interrupted)
      /\ poll' = [NoPoll EXCEPT !.stage = "asked", !.from = from]
  BY <1>1 DEF StartPoll
<1>3. poll' = [stage |-> "asked", from |-> from, to |-> 0, cursor |-> <<0, 0>>, page |-> <<>>,
               more |-> FALSE, data |-> <<>>, pages |-> 0]
  BY <1>2 DEF NoPoll
<1>4. from \in Nat
  BY <1>1, LiveAssumption DEF LiveTypes, Stamps
<1>5. gap' \in BOOLEAN /\ (gap => gap') /\ (~gap' => ~Interrupted)
  BY <1>2, Zenon
<1>6. LiveTypes'
  <2>1. poll' \in Polls
    BY <1>3, <1>4 DEF Polls
  <2> QED BY <1>2, <1>5, <2>1 DEF LiveTypes
<1>7. Stamps'
  BY <1>2 DEF Stamps
<1>8. /\ poll'.stage = "asked" /\ poll'.pages = 0 /\ poll'.to = 0 /\ poll'.cursor = <<0, 0>>
      /\ poll'.from = from
  BY <1>3
<1>9. PollOK'
  BY <1>1, <1>2, <1>5, <1>8 DEF PollOK, PollStarts, PollSnapshot, PollAsked, PollAnswered, PollOverlaps
<1>10. MissedIsReported' /\ ShownOnce'
  BY <1>2, <1>5 DEF MissedIsReported, Timely, ShownOnce
<1> QED BY <1>6, <1>7, <1>9, <1>10

\* The first rows of a sequence.
LEMMA FirstRows ==
  ASSUME NEW T, NEW s \in Seq(T), NEW n \in Nat
  PROVE  /\ FirstOf(s, n) \in Seq(T) /\ Len(FirstOf(s, n)) = IF Len(s) < n THEN Len(s) ELSE n
         /\ \A i \in DOMAIN FirstOf(s, n) : i \in DOMAIN s /\ FirstOf(s, n)[i] = s[i]
         /\ IsInjective(s) => IsInjective(FirstOf(s, n))
         /\ ToSet(FirstOf(s, n)) \subseteq ToSet(s)
<1>1. PICK k \in 0..Len(s) : k = IF Len(s) < n THEN Len(s) ELSE n
  OBVIOUS
<1>2. PICK q : q = FirstOf(s, n) /\ q = SubSeq(s, 1, k)
  BY <1>1 DEF FirstOf
<1>3. q \in Seq(T) /\ Len(q) = k /\ DOMAIN q = 1..k /\ \A i \in 1..k : i \in DOMAIN s /\ q[i] = s[i]
  BY <1>1, <1>2
<1>4. IsInjective(s) => IsInjective(q)
  BY <1>3 DEF IsInjective
<1>5. ToSet(q) \subseteq ToSet(s)
  BY <1>3 DEF ToSet
<1> QED BY <1>1, <1>2, <1>3, <1>4, <1>5

LEMMA AnswerPageLive ==
  ASSUME LiveInv, AnswerPage
  PROVE  LiveInv'
<1> USE DEF LiveInv
<1>1. /\ UNCHANGED <<now, writing, table, last, gap, buffer, since, observed, truncated>>
      /\ poll.stage = "asked"
  BY DEF AnswerPage
<1>2. PICK from, to : from = ResolvedFrom /\ to = ResolvedTo
  OBVIOUS
<1>3. CASE to - from > Window
  <2>1. poll' = NoPoll
    BY <1>2, <1>3 DEF AnswerPage
  <2>2. ShownOnce'
    BY <1>1 DEF ShownOnce
  <2> QED BY <1>1, <2>1, <2>2, RestLive DEF LiveTypes
<1>4. CASE ~(to - from > Window)
  <2>1. PICK wanted : wanted = RowsFrom(from, to, poll.cursor)
    OBVIOUS
  <2>2. PICK rows \in NewestFirst(wanted) :
          poll' = [poll EXCEPT
                     !.stage = "answered", !.from = from, !.to = to, !.page = FirstOf(rows, PageSize),
                     !.more = Len(rows) > PageSize,
                     !.cursor = IF FirstOf(rows, PageSize) = <<>> THEN @
                                ELSE <<table[Last(FirstOf(rows, PageSize))].at, Last(FirstOf(rows, PageSize))>>]
    BY <1>2, <1>4, <2>1 DEF AnswerPage
  <2>3. PICK page : page = FirstOf(rows, PageSize)
    OBVIOUS
  <2>4. wanted \subseteq Rows /\ IsFiniteSet(wanted)
    BY <2>1, LiveAssumption, FS_Subset DEF RowsFrom
  <2>5. PICK n \in Nat : n = Cardinality(wanted)
    BY <2>4, FS_CardinalityType
  <2>6. /\ rows \in [1..n -> wanted] /\ rows \in Seq(wanted) /\ Len(rows) = n /\ DOMAIN rows = 1..n
        /\ \A i, j \in 1..n : i < j => Older(rows[j], rows[i])
    BY <2>5 DEF NewestFirst
  <2>7. \A r \in wanted : \E i \in 1..n : rows[i] = r
    <3>1. \A i, j \in 1..n : rows[i] = rows[j] => i = j
      <4> SUFFICES ASSUME NEW i \in 1..n, NEW j \in 1..n, rows[i] = rows[j], i < j PROVE FALSE
        <5>1. \A i, j \in 1..n : i = j \/ i < j \/ j < i
          OBVIOUS
        <5> QED BY <5>1
      <4>1. Older(rows[i], rows[i]) /\ rows[i] \in Rows
        BY <2>4, <2>6
      <4>2. PICK r \in Rows : Older(r, r)
        BY <4>1
      <4>3. table[r].at \in Nat /\ r \in Nat
        BY LiveAssumption DEF LiveTypes
      <4> QED BY <4>2, <4>3 DEF Older
    <3>2. rows \in Injection(1..n, wanted)
      BY <2>6, <3>1 DEF Injection, IsInjective
    <3>3. IsFiniteSet(1..n) /\ Cardinality(1..n) = n
      <4>1. 1 \in Int /\ n \in Int
        OBVIOUS
      <4>2. IsFiniteSet(1..n) /\ Cardinality(1..n) = IF 1 > n THEN 0 ELSE n - 1 + 1
        BY ONLY <4>1, FS_Interval
      <4> QED BY <4>2
    <3>4. rows \in Surjection(1..n, wanted)
      BY <2>4, <2>5, <3>2, <3>3, FS_Injection
    <3> QED BY <3>4 DEF Surjection
  <2>8. PICK k \in 0..n : k = IF n < PageSize THEN n ELSE PageSize
    BY LiveAssumption
  <2>9. /\ page \in Seq(wanted) /\ Len(page) = k /\ DOMAIN page = 1..k
        /\ \A i \in 1..k : i \in 1..n /\ page[i] = rows[i]
    <3>1. PageSize \in Nat /\ rows \in Seq(wanted)
      BY <2>6, LiveAssumption
    <3>2. /\ page \in Seq(wanted) /\ Len(page) = IF Len(rows) < PageSize THEN Len(rows) ELSE PageSize
          /\ \A i \in DOMAIN page : i \in DOMAIN rows /\ page[i] = rows[i]
      BY <2>3, <3>1, FirstRows
    <3>3. Len(page) = k /\ DOMAIN page = 1..k
      BY <2>6, <2>8, <3>2
    <3> QED BY <2>6, <3>2, <3>3
  <2>10. PICK cursor : cursor = IF page = <<>> THEN poll.cursor ELSE <<table[Last(page)].at, Last(page)>>
    OBVIOUS
  <2>11. poll' = [poll EXCEPT !.stage = "answered", !.from = from, !.to = to, !.page = page,
                              !.more = n > PageSize, !.cursor = cursor]
    BY <2>2, <2>3, <2>6, <2>10
  <2>12. poll \in Polls
    BY DEF LiveTypes
  <2>13. /\ poll'.stage = "answered" /\ poll'.from = from /\ poll'.to = to /\ poll'.page = page
         /\ poll'.more = (n > PageSize) /\ poll'.cursor = cursor
         /\ poll'.data = poll.data /\ poll'.pages = poll.pages
    BY <2>11, <2>12 DEF Polls
  <2>14. /\ from \in Nat /\ to \in Nat /\ from # 0 /\ to > Overlap /\ to <= now /\ now \in Nat
         /\ poll.pages # 0 => from = poll.from /\ to = poll.to
         /\ ~gap /\ last # 0 => from = last - Overlap
    <3>1. /\ poll.from \in Nat /\ poll.to \in Nat /\ poll.pages \in Nat /\ now \in Nat /\ now > Overlap
          /\ Overlap \in Nat \ {0} /\ last \in Nat /\ (last # 0 => last > Overlap)
      BY <2>12, LiveAssumption DEF LiveTypes, Polls, Stamps
    <3>2. CASE poll.pages = 0
      BY <1>1, <1>2, <3>1, <3>2 DEF ResolvedFrom, ResolvedTo, PollOK, PollStarts, PollOverlaps
    <3>3. CASE poll.pages # 0
      BY <1>1, <1>2, <3>1, <3>3 DEF ResolvedFrom, ResolvedTo, PollOK, PollSnapshot, PollOverlaps
    <3> QED BY <3>2, <3>3
  <2>15. page # <<>> => k > 0 /\ k \in Nat /\ Last(page) = rows[k] /\ rows[k] \in wanted
    <3> SUFFICES ASSUME page # <<>> PROVE k > 0 /\ k \in Nat /\ Last(page) = rows[k] /\ rows[k] \in wanted
      OBVIOUS
    <3>1. k > 0 /\ k \in Nat /\ k \in 1..k
      BY <2>9
    <3> QED BY <2>6, <2>9, <3>1 DEF Last
  <2>16. cursor \in Nat \X Nat
    BY <2>4, <2>10, <2>12, <2>15, LiveAssumption DEF LiveTypes, Polls
  <2>17. LiveTypes'
    <3>1. (n > PageSize) \in BOOLEAN
      BY LiveAssumption
    <3>2. page \in Seq(Rows)
      BY <2>4, <2>9
    <3>3. poll' \in Polls
      BY <2>11, <2>12, <2>14, <2>16, <3>1, <3>2 DEF Polls
    <3> QED BY <1>1, <3>3 DEF LiveTypes
  <2>18. PollAnswered'
    <3> SUFFICES ASSUME NEW r \in Rows, table[r].at # 0, table[r].seenAt < to, from <= table[r].at,
                        r \notin ToSet(poll.data), r \notin ToSet(page)
                 PROVE  n > PageSize /\ Beyond(r, cursor)
      BY <1>1, <2>13 DEF PollAnswered, Reads, Beyond
    <3>1. poll.cursor = <<0, 0>> \/ Beyond(r, poll.cursor)
      <4>1. CASE poll.pages = 0
        BY <1>1, <4>1 DEF PollOK, PollStarts
      <4>2. CASE poll.pages # 0
        BY <1>1, <2>14, <4>2 DEF PollOK, PollAsked, Reads
      <4> QED BY <4>1, <4>2
    <3>2. table[r].at <= to
      BY <2>14 DEF Stamps, LiveTypes
    <3>3. r \in wanted
      BY <2>1, <3>1, <3>2 DEF RowsFrom
    <3>4. PICK j \in 1..n : rows[j] = r
      BY <2>7, <3>3
    <3>5. ~(j <= k)
      BY <2>9, <3>4 DEF ToSet
    <3>6. n > PageSize /\ k = PageSize
      BY <2>8, <3>5, LiveAssumption
    <3>7. k \in 1..n /\ k < j /\ page # <<>>
      BY <2>9, <3>5, <3>6, LiveAssumption
    <3>8. Older(r, rows[k])
      BY <2>6, <3>4, <3>7
    <3>9. cursor[1] = table[rows[k]].at /\ cursor[2] = rows[k]
      BY <2>10, <2>15, <3>7
    <3> QED BY <3>6, <3>8, <3>9 DEF Older, Beyond
  <2>19. PollOK'
    BY <1>1, <2>13, <2>14, <2>18 DEF PollOK, PollStarts, PollSnapshot, PollAsked, PollOverlaps
  <2>20. Stamps'
    BY <1>1 DEF Stamps
  <2>21. MissedIsReported' /\ ShownOnce'
    BY <1>1 DEF MissedIsReported, Timely, ShownOnce
  <2> QED BY <2>17, <2>19, <2>20, <2>21
<1> QED BY <1>3, <1>4

-----------------------------------------------------------------------------
(* The buffer.                                                             *)

Buffers == [displayed : Seq(Rows), pending : Seq(Rows), seen : Seq(Rows), evicted : Int]

\* Only the first of several copies is left.
LEMMA DistinctOnce ==
  ASSUME NEW s \in Seq(Rows)
  PROVE  Distinct(s) \in Seq(Rows) /\ IsInjective(Distinct(s))
<1>1. PICK firsts : firsts = {i \in DOMAIN s : \A j \in 1..(i - 1) : s[j] # s[i]}
  OBVIOUS
<1>2. PICK q : q = Distinct(s) /\ q = Subsequence(s, firsts)
  BY <1>1 DEF Distinct
<1>3. q \in Seq(Rows)
  BY <1>2, SubsequenceIsPlaced
<1>4. PICK index : IsPlacement(index, q, s, firsts)
  BY <1>2, SubsequenceIsPlaced
<1>5. ASSUME NEW k \in DOMAIN q, NEW l \in DOMAIN q, q[k] = q[l], k < l PROVE FALSE
  <2>1. index[k] \in firsts /\ index[l] \in firsts /\ index[k] < index[l] /\ s[index[k]] = s[index[l]]
    BY <1>4, <1>5 DEF IsPlacement
  <2>2. index[k] \in 1..(index[l] - 1)
    BY <1>1, <2>1
  <2> QED BY <1>1, <2>1, <2>2
<1>6. \A k, l \in DOMAIN q : k = l \/ k < l \/ l < k
  BY <1>3
<1> QED BY <1>2, <1>3, <1>5, <1>6 DEF IsInjective

\* What a poll brings goes before the rest, once.
LEMMA ArrivalsOnce ==
  ASSUME NEW data \in Seq(Rows), buffer \in Buffers, ShownOnce
  PROVE  /\ Arrivals(data) \in Buffers
         /\ IsInjective(Arrivals(data).displayed \o Arrivals(data).pending)
<1>1. PICK d, p, e : d = buffer.displayed /\ p = buffer.pending /\ e = buffer.seen
  OBVIOUS
<1>2. d \in Seq(Rows) /\ p \in Seq(Rows) /\ e \in Seq(Rows) /\ buffer.evicted \in Int
  BY <1>1 DEF Buffers
<1>3. IsInjective(d) /\ IsInjective(p) /\ ToSet(d) \cap ToSet(p) = {}
  BY <1>1, <1>2, ConcatOnce DEF ShownOnce
<1>4. PICK rows : rows = Distinct(data)
  OBVIOUS
<1>5. PICK news : news = {i \in DOMAIN rows : rows[i] \notin Known}
  OBVIOUS
<1>6. PICK fresh : fresh = Subsequence(rows, news)
  OBVIOUS
<1>7. rows \in Seq(Rows) /\ IsInjective(rows)
  BY <1>4, DistinctOnce
<1>8. fresh \in Seq(Rows) /\ IsInjective(fresh)
  BY <1>6, <1>7, SubsequenceIsPlaced, SubsequenceKeepsOnce
<1>9. ToSet(fresh) \cap Known = {}
  <2>1. \A k \in DOMAIN fresh : \E i \in news \cap DOMAIN rows : fresh[k] = rows[i]
    BY <1>6, <1>7, SubsequenceElements
  <2> QED BY <1>5, <2>1 DEF ToSet
<1>10. ToSet(fresh) \cap ToSet(d) = {} /\ ToSet(fresh) \cap ToSet(p) = {}
  BY <1>1, <1>9 DEF Known
<1>11. PICK before : before = fresh \o p
  OBVIOUS
<1>12. /\ before \in Seq(Rows) /\ IsInjective(before) /\ ToSet(before) = ToSet(fresh) \cup ToSet(p)
       /\ ToSet(before) \cap ToSet(d) = {}
  BY <1>2, <1>3, <1>8, <1>10, <1>11, ConcatOnce, ConcatElements
<1>13. before \o d \in Seq(Rows) /\ IsInjective(before \o d) /\ fresh \o p \o d = before \o d
  <2>1. fresh \o p \o d = before \o d
    BY <1>11
  <2>2. before \o d \in Seq(Rows)
    BY <1>2, <1>12
  <2>3. IsInjective(before \o d)
    BY <1>2, <1>3, <1>12, ConcatOnce
  <2> QED BY <2>1, <2>2, <2>3
<1>14. PICK displayed, pending : /\ displayed = IF paused THEN d ELSE before \o d
                                 /\ pending = IF paused THEN before ELSE <<>>
  OBVIOUS
<1>15. PICK space : space = Room(displayed, pending)
  OBVIOUS
<1>16. PICK seen : seen = Distinct(e \o d \o p \o fresh)
  OBVIOUS
<1>17. Arrivals(data)
         = [displayed |-> space.displayed, pending |-> space.pending,
            seen |-> SubSeq(seen, IF Len(seen) > SeenLimit THEN Len(seen) - SeenLimit + 1 ELSE 1, Len(seen)),
            evicted |-> buffer.evicted + Len(displayed) + Len(pending)
                                       - Len(space.displayed) - Len(space.pending)]
  BY <1>1, <1>4, <1>5, <1>6, <1>11, <1>13, <1>14, <1>15, <1>16 DEF Arrivals
<1>18. displayed \in Seq(Rows) /\ pending \in Seq(Rows)
  <2>1. <<>> \in Seq(Rows)
    OBVIOUS
  <2> QED BY <1>2, <1>12, <1>13, <1>14, <2>1
<1>19. /\ space.displayed \in Seq(Rows) /\ space.pending \in Seq(Rows)
       /\ IsInjective(space.displayed \o space.pending)
  <2>1. CASE paused
    <3>1. PICK m \in Nat : m = IF Len(d) < MaxRows THEN MaxRows - Len(d) ELSE 0
      BY <1>2, LiveAssumption
    <3>2. PICK q : q = FirstOf(before, m)
      OBVIOUS
    <3>3. space = [displayed |-> d, pending |-> q]
      BY <1>14, <1>15, <2>1, <3>1, <3>2 DEF Room
    <3>4. q \in Seq(Rows) /\ IsInjective(q) /\ ToSet(q) \subseteq ToSet(before)
      BY <1>12, <3>2, FirstRows
    <3>5. ToSet(d) \cap ToSet(q) = {}
      BY <1>12, <3>4
    <3>6. IsInjective(d \o q)
      BY <1>2, <1>3, <3>4, <3>5, ConcatOnce
    <3> QED BY <1>2, <3>3, <3>4, <3>6
  <2>2. CASE ~paused
    <3>1. PICK q : q = FirstOf(before \o d, MaxRows)
      OBVIOUS
    <3>2. space = [displayed |-> q, pending |-> <<>>]
      BY <1>14, <1>15, <2>2, <3>1 DEF Room
    <3>3. q \in Seq(Rows) /\ IsInjective(q)
      BY <1>13, <3>1, FirstRows, LiveAssumption
    <3>4. q \o <<>> = q /\ <<>> \in Seq(Rows)
      BY <3>3
    <3> QED BY <3>2, <3>3, <3>4
  <2> QED BY <2>1, <2>2
<1>20. SubSeq(seen, IF Len(seen) > SeenLimit THEN Len(seen) - SeenLimit + 1 ELSE 1, Len(seen)) \in Seq(Rows)
  <2>1. e \o d \o p \o fresh \in Seq(Rows)
    BY <1>2, <1>8
  <2>2. seen \in Seq(Rows)
    BY <1>16, <2>1, DistinctOnce
  <2>3. PICK a \in Nat \ {0}, b \in Nat :
          /\ a = IF Len(seen) > SeenLimit THEN Len(seen) - SeenLimit + 1 ELSE 1
          /\ b = Len(seen)
    BY <2>2, LiveAssumption
  <2>4. SubSeq(seen, a, b) \in Seq(Rows)
    BY <2>2, <2>3
  <2> QED BY <2>3, <2>4
<1>21. buffer.evicted + Len(displayed) + Len(pending) - Len(space.displayed) - Len(space.pending) \in Int
  <2>1. /\ Len(displayed) \in Nat /\ Len(pending) \in Nat
        /\ Len(space.displayed) \in Nat /\ Len(space.pending) \in Nat
    BY <1>18, <1>19
  <2>2. \A a \in Int : \A b, c, f, g \in Nat : a + b + c - f - g \in Int
    OBVIOUS
  <2> QED BY <1>2, <2>1, <2>2, Zenon
<1>22. PICK kept, evicted :
         /\ kept = SubSeq(seen, IF Len(seen) > SeenLimit THEN Len(seen) - SeenLimit + 1 ELSE 1, Len(seen))
         /\ evicted = buffer.evicted + Len(displayed) + Len(pending)
                                     - Len(space.displayed) - Len(space.pending)
  OBVIOUS
<1>23. Arrivals(data) = [displayed |-> space.displayed, pending |-> space.pending,
                         seen |-> kept, evicted |-> evicted]
  BY <1>17, <1>22
<1>24. kept \in Seq(Rows) /\ evicted \in Int
  BY <1>20, <1>21, <1>22
<1> QED BY <1>19, <1>23, <1>24 DEF Buffers

-----------------------------------------------------------------------------
(* The end of a page and of a poll.                                        *)

LEMMA CompletedLive ==
  ASSUME LiveInv, poll.stage = "answered", Completed, UNCHANGED <<now, writing, table, gap>>
  PROVE  LiveInv'
<1> USE DEF LiveInv
<1>1. PICK brought : brought = poll.data \o poll.page
  OBVIOUS
<1>2. /\ poll \in Polls /\ poll.data \in Seq(Rows) /\ poll.page \in Seq(Rows) /\ poll.more \in BOOLEAN
      /\ poll.from \in Nat /\ poll.to \in Nat
  BY DEF LiveTypes, Polls
<1>3. brought \in Seq(Rows) /\ ToSet(brought) = ToSet(poll.data) \cup ToSet(poll.page)
  BY <1>1, <1>2, ConcatElements
<1>4. /\ last' = poll.to /\ buffer' = Arrivals(brought) /\ observed' = observed \cup ToSet(brought)
      /\ since' = IF last = 0 THEN poll.from ELSE since
      /\ truncated' = (truncated \/ poll.more) /\ poll' = NoPoll
  BY <1>1 DEF Completed
<1>5. poll.from # 0 /\ poll.to > Overlap /\ poll.to <= now
  BY DEF PollOK, PollSnapshot
<1>6. buffer' \in Buffers /\ ShownOnce'
  BY <1>3, <1>4, ArrivalsOnce DEF LiveTypes, Buffers, ShownOnce
<1>7. truncated' \in BOOLEAN /\ (~truncated' => ~truncated /\ ~poll.more)
  BY <1>4, Zenon
<1>8. LiveTypes'
  <2>1. NoPoll \in Polls
    BY DEF NoPoll, Polls
  <2> QED BY <1>2, <1>4, <1>6, <1>7, <2>1 DEF LiveTypes, Buffers
<1>9. Stamps'
  <2>1. last' # 0
    BY <1>2, <1>4, <1>5, LiveAssumption
  <2> QED BY <1>4, <1>5, <2>1 DEF Stamps
<1>10. PollOK'
  <2>1. poll'.stage = "none"
    BY <1>4 DEF NoPoll
  <2> QED BY <2>1 DEF PollOK, PollStarts, PollSnapshot, PollAsked, PollAnswered, PollOverlaps
<1>11. MissedIsReported'
  <2> SUFFICES ASSUME ~gap, ~truncated', NEW r \in Rows, Timely(r)', r \notin observed'
               PROVE  FALSE
    BY DEF MissedIsReported
  <2>1. /\ table[r].at \in Nat /\ table[r].seenAt \in Nat /\ table[r].at <= table[r].seenAt
        /\ last \in Nat /\ Overlap \in Nat \ {0} /\ (last # 0 => last > Overlap)
    BY LiveAssumption DEF LiveTypes, Stamps
  <2>2. /\ since' # 0 /\ since' <= table[r].at
        /\ table[r].seenAt < poll.to /\ table[r].seenAt - table[r].at <= Overlap
    BY <1>4 DEF Timely
  <2>3. r \notin observed /\ r \notin ToSet(poll.data) /\ r \notin ToSet(poll.page) /\ ~poll.more
    BY <1>3, <1>4, <1>7
  <2>4. ~Reads(r)
    BY <2>3 DEF PollOK, PollAnswered
  <2>5. CASE last = 0
    <3>1. poll.from <= table[r].at
      BY <1>4, <2>2, <2>5
    <3> QED BY <1>2, <1>5, <2>1, <2>2, <2>4, <3>1 DEF Reads
  <2>6. CASE last # 0
    <3>1. since' = since /\ poll.from = last - Overlap
      BY <1>4, <2>6 DEF PollOK, PollOverlaps
    <3>2. ~Timely(r)
      BY <1>7, <2>3 DEF MissedIsReported
    <3>3. ~(table[r].seenAt < last)
      BY <2>2, <3>1, <3>2 DEF Timely
    <3>4. poll.from <= table[r].at /\ table[r].at # 0
      BY <2>1, <2>2, <2>6, <3>1, <3>3
    <3> QED BY <2>2, <2>4, <3>4 DEF Reads
  <2> QED BY <2>5, <2>6
<1> QED BY <1>6, <1>8, <1>9, <1>10, <1>11

LEMMA TakePageLive ==
  ASSUME LiveInv, TakePage
  PROVE  LiveInv'
<1> USE DEF LiveInv
<1>1. poll.stage = "answered" /\ UNCHANGED <<now, writing, table, gap>>
  BY DEF TakePage
<1>2. CASE ~(poll.more /\ poll.pages + 1 < MaxPages)
  BY <1>1, <1>2, CompletedLive DEF TakePage
<1>3. CASE poll.more /\ poll.pages + 1 < MaxPages
  <2>1. PICK brought : brought = poll.data \o poll.page
    OBVIOUS
  <2>2. /\ UNCHANGED <<last, buffer, since, observed, truncated>>
        /\ poll' = [poll EXCEPT !.stage = "asked", !.data = brought, !.page = <<>>,
                                !.more = FALSE, !.pages = @ + 1]
    BY <1>3, <2>1 DEF TakePage
  <2>3. /\ poll \in Polls /\ poll.data \in Seq(Rows) /\ poll.page \in Seq(Rows) /\ poll.pages \in Nat
    BY DEF LiveTypes, Polls
  <2>4. brought \in Seq(Rows) /\ ToSet(brought) = ToSet(poll.data) \cup ToSet(poll.page)
    BY <2>1, <2>3, ConcatElements
  <2>5. /\ poll'.stage = "asked" /\ poll'.from = poll.from /\ poll'.to = poll.to
        /\ poll'.cursor = poll.cursor /\ poll'.data = brought /\ poll'.pages = poll.pages + 1
        /\ poll' \in Polls
    <3>1. <<>> \in Seq(Rows)
      OBVIOUS
    <3>2. poll.pages + 1 \in Nat
      BY <2>3
    <3>3. poll' = [stage |-> "asked", from |-> poll.from, to |-> poll.to, cursor |-> poll.cursor,
                   page |-> <<>>, more |-> FALSE, data |-> brought, pages |-> poll.pages + 1]
      BY <2>2, <2>3 DEF Polls
    <3>4. poll.from \in Nat /\ poll.to \in Nat /\ poll.cursor \in Nat \X Nat
      BY <2>3 DEF Polls
    <3> QED BY <2>4, <3>1, <3>2, <3>3, <3>4 DEF Polls
  <2>6. poll'.pages # 0
    BY <2>3, <2>5
  <2>7. \A r, c : Reads(r)' = Reads(r) /\ Beyond(r, c)' = Beyond(r, c) /\ Timely(r)' = Timely(r)
    BY <1>1, <2>2, <2>5 DEF Reads, Beyond, Timely
  <2>8. LiveTypes'
    BY <1>1, <2>2, <2>5 DEF LiveTypes
  <2>9. Stamps'
    BY <1>1, <2>2 DEF Stamps
  <2>10. PollAsked'
    BY <1>1, <2>4, <2>5, <2>7 DEF PollOK, PollAnswered, PollAsked
  <2>11. PollOK'
    BY <1>1, <2>2, <2>5, <2>6, <2>10
       DEF PollOK, PollStarts, PollSnapshot, PollAnswered, PollOverlaps
  <2>12. MissedIsReported' /\ ShownOnce'
    BY <1>1, <2>2, <2>7 DEF MissedIsReported, ShownOnce
  <2> QED BY <2>8, <2>9, <2>11, <2>12
<1> QED BY <1>2, <1>3

-----------------------------------------------------------------------------
(* The view.                                                               *)

LEMMA ViewLive ==
  ASSUME LiveInv, PollFails \/ Hide \/ Show \/ RetryNow \/ Pause
  PROVE  LiveInv'
<1>1. /\ UNCHANGED <<now, table, last, since, observed, truncated, writing, gap, buffer>>
      /\ poll' = poll \/ poll' = NoPoll
  BY DEF PollFails, Hide, Show, RetryNow, Pause
<1>2. ShownOnce' /\ gap' \in BOOLEAN /\ (gap => gap')
  BY <1>1 DEF LiveInv, LiveTypes, ShownOnce
<1>3. buffer' \in [displayed : Seq(Rows), pending : Seq(Rows), seen : Seq(Rows), evicted : Int]
  BY <1>1 DEF LiveInv, LiveTypes
<1> QED BY <1>1, <1>2, <1>3, RestLive

LEMMA AccessDeniedLive ==
  ASSUME LiveInv, AccessDenied
  PROVE  LiveInv'
<1>1. /\ UNCHANGED <<now, table, last, since, observed, truncated, writing, gap>>
      /\ poll' = NoPoll /\ buffer' = EmptyBuffer
  BY DEF AccessDenied
<1>2. /\ EmptyBuffer \in [displayed : Seq(Rows), pending : Seq(Rows), seen : Seq(Rows), evicted : Int]
      /\ EmptyBuffer.displayed \o EmptyBuffer.pending = <<>>
  <2>1. <<>> \in Seq(Rows) /\ <<>> \o <<>> = <<>>
    OBVIOUS
  <2> QED BY <2>1 DEF EmptyBuffer
<1>3. ShownOnce'
  BY <1>1, <1>2 DEF ShownOnce, IsInjective
<1> QED BY <1>1, <1>2, <1>3, RestLive DEF LiveInv, LiveTypes

LEMMA RevealLive ==
  ASSUME LiveInv, Reveal
  PROVE  LiveInv'
<1>1. PICK d, p : d = buffer.displayed /\ p = buffer.pending
  OBVIOUS
<1>2. /\ UNCHANGED <<now, table, last, since, observed, truncated, writing, gap, poll>>
      /\ buffer' = [buffer EXCEPT !.displayed = p \o d, !.pending = <<>>]
  BY <1>1 DEF Reveal
<1>3. buffer \in [displayed : Seq(Rows), pending : Seq(Rows), seen : Seq(Rows), evicted : Int]
      /\ d \in Seq(Rows) /\ p \in Seq(Rows)
  BY <1>1 DEF LiveInv, LiveTypes
<1>4. IsInjective(p \o d) /\ p \o d \in Seq(Rows)
  BY <1>1, <1>3, ConcatOnce DEF LiveInv, ShownOnce
<1>5. /\ buffer'.displayed = p \o d /\ buffer'.pending = <<>>
      /\ buffer' \in [displayed : Seq(Rows), pending : Seq(Rows), seen : Seq(Rows), evicted : Int]
  <2>1. <<>> \in Seq(Rows)
    OBVIOUS
  <2> QED BY <1>2, <1>3, <1>4, <2>1
<1>6. ShownOnce'
  <2>1. \A s \in Seq(Rows) : s \o <<>> = s
    OBVIOUS
  <2> QED BY <1>4, <1>5, <2>1 DEF ShownOnce
<1> QED BY <1>2, <1>5, <1>6, RestLive DEF LiveInv, LiveTypes

LEMMA StepLive == LiveInv /\ [LiveNext]_liveVars => LiveInv'
<1> SUFFICES ASSUME LiveInv, [LiveNext]_liveVars PROVE LiveInv'
  OBVIOUS
<1>1. CASE UNCHANGED liveVars
  <2>1. UNCHANGED <<now, table, last, since, observed, truncated, writing, gap, buffer, poll>>
    BY <1>1 DEF liveVars
  <2>2. ShownOnce' /\ gap' \in BOOLEAN /\ (gap => gap')
    BY <2>1 DEF LiveInv, LiveTypes, ShownOnce
  <2>3. buffer' \in [displayed : Seq(Rows), pending : Seq(Rows), seen : Seq(Rows), evicted : Int]
    BY <2>1 DEF LiveInv, LiveTypes
  <2> QED BY <2>1, <2>2, <2>3, RestLive
<1>2. CASE \E r \in Rows : Process(r)
  BY <1>2, ProcessLive
<1>3. CASE \E c \in writing : Appear(c)
  BY <1>3, AppearLive
<1> QED BY <1>1, <1>2, <1>3, TickLive, StartPollLive, AnswerPageLive, TakePageLive, ViewLive,
           AccessDeniedLive, RevealLive DEF LiveNext

LEMMA LiveInductive == LiveSpec => []LiveInv
<1> QED BY InitLive, StepLive, PTL DEF LiveSpec

\* However polls fail, stall, are cancelled or take several pages, and whatever
\* is processed again meanwhile, each row that appeared within the overlap of
\* its processing and before the last snapshot has been brought to the view,
\* or the view has told that it may miss some (live-query.ts, live-explorer.tsx).
THEOREM MissedAreReported == LiveSpec => []MissedIsReported
<1>1. LiveInv => MissedIsReported
  BY DEF LiveInv
<1> QED BY <1>1, LiveInductive, PTL

\* No row is in the buffer twice, whatever has been cut from the ids seen
\* (observeArrivals and revealArrivals of live-observation.ts).
THEOREM ShownAtMostOnce == LiveSpec => []ShownOnce
<1>1. LiveInv => ShownOnce
  BY DEF LiveInv
<1> QED BY <1>1, LiveInductive, PTL

-----------------------------------------------------------------------------
(* The settings pages.                                                     *)

SettingsSpec == SettingsInit /\ [][SettingsNext]_settingsVars

-----------------------------------------------------------------------------
(* The inductive invariant.                                                *)

DirectoryOps == {"invite", "revoke invitation", "change", "remove", "leave"}

\* The fields of a call, of which only some matter here.
Call(c) ==
  [op : {c.op}, org : {c.org}, scope : {c.scope}, row : {c.row}, next : {c.next},
   stage : {"asked", "done", "refused", "told", "ended", "failed"}, version : {c.version},
   mounted : BOOLEAN]

\* A mutation of the directory whose component is still mounted finds the
\* directory of its own organization open.
CallOK(c) ==
  /\ c \in Call(c)
  /\ c.mounted /\ c.op \in DirectoryOps => place = <<"members", c.org>>

PagesInv ==
  /\ place \in Places
  /\ calls \in Seq({calls[i] : i \in DOMAIN calls})
  /\ \A i \in DOMAIN calls : CallOK(calls[i])
  /\ LinkIsOfOrganization

LEMMA InitPages == SettingsInit => PagesInv
  BY EmptySeq DEF SettingsInit, PagesInv, Places, Elsewhere, LinkIsOfOrganization

-----------------------------------------------------------------------------
(* Calls.                                                                  *)

\* A function with the domain of the calls is a sequence of what it holds.
LEMMA SameDomainIsSeq ==
  ASSUME PagesInv, NEW f, f = [i \in DOMAIN calls |-> f[i]]
  PROVE  f \in Seq({f[i] : i \in DOMAIN f})
<1>1. DOMAIN calls = 1 .. Len(calls) /\ Len(calls) \in Nat
  BY LenProperties DEF PagesInv
<1>2. f \in [1 .. Len(calls) -> {f[i] : i \in DOMAIN f}]
  BY <1>1
<1> QED
  BY <1>1, <1>2, SeqDef

\* What most steps do to the calls: they may go on, or be unmounted.
Keep(c, d) ==
  /\ d \in Call(d) /\ d.op = c.op /\ d.org = c.org
  /\ d.mounted => c.mounted

LEMMA KeptPages ==
  ASSUME PagesInv, UNCHANGED place, calls' = [i \in DOMAIN calls |-> calls'[i]],
         \A i \in DOMAIN calls : Keep(calls[i], calls'[i]), link' \in {link, Nothing}
  PROVE  PagesInv'
<1>1. calls' \in Seq({calls'[i] : i \in DOMAIN calls'})
  <2>1. PICK f : f = calls'
    OBVIOUS
  <2> QED
    BY <2>1, SameDomainIsSeq
<1>2. \A i \in DOMAIN calls : CallOK(calls[i])'
  BY DEF PagesInv, CallOK, Keep
<1> QED
  BY <1>1, <1>2 DEF PagesInv, LinkIsOfOrganization

LEMMA UnchangedPages ==
  ASSUME PagesInv, UNCHANGED <<place, calls>>, link' \in {link, Nothing}
  PROVE  PagesInv'
  BY DEF PagesInv, CallOK, LinkIsOfOrganization

\* One call goes on.
LEMMA ServedPages ==
  ASSUME PagesInv, UNCHANGED place, NEW i \in DOMAIN calls, NEW c, Keep(calls[i], c),
         calls' = [calls EXCEPT ![i] = c], link' \in {link, Nothing}
  PROVE  PagesInv'
<1>1. calls = [j \in DOMAIN calls |-> calls[j]]
  BY DEF PagesInv
<1>2. calls' = [j \in DOMAIN calls |-> calls'[j]]
  BY <1>1
<1>3. ASSUME NEW j \in DOMAIN calls PROVE Keep(calls[j], calls'[j])
  BY DEF PagesInv, CallOK, Keep
<1> QED
  BY <1>2, <1>3, KeptPages

LEMMA AskPages ==
  ASSUME PagesInv, NEW op, NEW row, NEW next, Ask(op, row, next), op \in DirectoryOps => Directory
  PROVE  PagesInv'
<1> DEFINE c == [op |-> op, org |-> Here, scope |-> Here, row |-> row, next |-> next,
                 stage |-> "asked", version |-> 0, mounted |-> TRUE]
           S == {calls[i] : i \in DOMAIN calls} \cup {c}
<1>1. calls' = Append(calls, c) /\ UNCHANGED <<place, link>>
  BY DEF Ask
<1>2. c \in Call(c) /\ c.mounted /\ c.op = op /\ c.org = Here
  BY DEF Call
<1>3. op \in DirectoryOps => place = <<"members", Here>>
  BY DEF PagesInv, Places, Elsewhere, Directory, Here
<1> HIDE DEF c
<1>4. calls \in Seq({calls[i] : i \in DOMAIN calls})
  BY DEF PagesInv
<1>5. calls \in Seq(S) /\ c \in S
  BY <1>4, SeqMonotonic
<1> PICK n \in Nat : n = Len(calls) + 1
  BY <1>4, LenProperties
<1> HIDE DEF S
<1>6. /\ calls' \in Seq(S) /\ calls'[n] = c /\ DOMAIN calls = 1 .. Len(calls) /\ DOMAIN calls' = 1 .. n
      /\ \A i \in DOMAIN calls : calls'[i] = calls[i]
  BY <1>1, <1>5, AppendProperties, LenProperties
<1>7. calls' \in Seq({calls'[i] : i \in DOMAIN calls'})
  <2>1. calls' \in [1 .. n -> S] /\ DOMAIN calls' = 1 .. n
    BY <1>6, SeqDef
  <2>2. calls' \in [1 .. n -> {calls'[i] : i \in DOMAIN calls'}]
    BY <2>1
  <2> QED
    BY <2>2, SeqDef
<1>8. \A i \in DOMAIN calls' : i \in DOMAIN calls \/ i = n
  BY <1>4, <1>6, LenProperties
<1>9. ASSUME NEW i \in DOMAIN calls' PROVE CallOK(calls[i])'
  <2>1. CASE i \in DOMAIN calls
    BY <1>1, <1>6, <2>1 DEF PagesInv, CallOK
  <2>2. CASE i = n
    BY <1>1, <1>2, <1>3, <1>6, <2>2 DEF CallOK
  <2> QED
    BY <1>8, <2>1, <2>2
<1> QED
  BY <1>1, <1>7, <1>9 DEF PagesInv, LinkIsOfOrganization

-----------------------------------------------------------------------------
(* The actions.                                                            *)

LEMMA RenderPages ==
  ASSUME PagesInv, NEW p \in Places, NEW roles, NEW old, Render(p, roles, old)
  PROVE  PagesInv'
<1> DEFINE rendered(c) == IF ~c.mounted THEN c
                          ELSE IF Stays(p) THEN [c EXCEPT !.scope = p[2]]
                          ELSE [c EXCEPT !.mounted = FALSE]
<1>1. calls' = [i \in DOMAIN calls |-> rendered(calls[i])] /\ place' = p
  BY DEF Render
<1>2. ASSUME NEW i \in DOMAIN calls
      PROVE  Keep(calls[i], rendered(calls[i])) /\ (~Stays(p) => ~rendered(calls[i]).mounted)
  BY DEF PagesInv, CallOK, Call, Keep
<1> HIDE DEF rendered
<1>3. calls' = [i \in DOMAIN calls |-> calls'[i]] /\ \A i \in DOMAIN calls : Keep(calls[i], calls'[i])
  BY <1>1, <1>2
<1>4. CASE p = place
  BY <1>1, <1>3, <1>4, KeptPages DEF Render
<1>5. CASE p # place /\ Stays(p)
  \* The page of keys stays, of which neither a link nor a call of the directory is one.
  <2>1. place[1] # "members" /\ p[1] # "members"
    BY <1>5 DEF Stays, PagesInv, Places, Elsewhere, Here
  <2>2. link = Nothing /\ \A i \in DOMAIN calls : ~(calls[i].mounted /\ calls[i].op \in DirectoryOps)
    BY <2>1 DEF PagesInv, CallOK, LinkIsOfOrganization
  <2>3. calls' \in Seq({calls'[i] : i \in DOMAIN calls'})
    <3>1. PICK f : f = calls'
      OBVIOUS
    <3> QED
      BY <1>3, <3>1, SameDomainIsSeq
  <2>4. link' = Nothing
    BY <1>5, <2>2 DEF Render
  <2> QED
    BY <1>1, <1>3, <2>2, <2>3, <2>4 DEF PagesInv, CallOK, Keep, LinkIsOfOrganization
<1>6. CASE ~Stays(p)
  <2>1. link' = Nothing /\ \A i \in DOMAIN calls : ~calls'[i].mounted
    BY <1>1, <1>2, <1>6 DEF Render
  <2>2. calls' \in Seq({calls'[i] : i \in DOMAIN calls'})
    <3>1. PICK f : f = calls'
      OBVIOUS
    <3> QED
      BY <1>3, <3>1, SameDomainIsSeq
  <2> QED
    BY <1>1, <1>3, <2>1, <2>2 DEF PagesInv, CallOK, Keep, LinkIsOfOrganization
<1> QED
  BY <1>4, <1>5, <1>6

LEMMA OpenedPages ==
  ASSUME PagesInv, ReadOrganizations \/ \E p \in Places : Open(p)
  PROVE  PagesInv'
<1>1. CASE ReadOrganizations
  <2>1. PICK p \in Places : Render(p, mine, {})
    BY <1>1 DEF ReadOrganizations, PagesInv, Places
  <2> QED
    BY <2>1, RenderPages
<1>2. ASSUME NEW p \in Places, Open(p) PROVE PagesInv'
  BY <1>2, RenderPages DEF Open
<1> QED
  BY <1>1, <1>2

LEMMA AskedPages ==
  ASSUME PagesInv,
         \/ SubmitInvitation \/ ConfirmRevocation \/ ConfirmRemoval \/ ConfirmLeaving
         \/ SubmitKey \/ ConfirmKeyRevocation \/ \E r \in MemberRoles : ConfirmChange(r)
  PROVE  PagesInv'
<1>1. CASE SubmitInvitation \/ ConfirmRevocation \/ ConfirmRemoval \/ ConfirmLeaving
  BY <1>1, AskPages DEF SubmitInvitation, ConfirmRevocation, ConfirmRemoval, ConfirmLeaving, RowIsManaged
<1>2. CASE SubmitKey \/ ConfirmKeyRevocation
  BY <1>2, AskPages DEF SubmitKey, ConfirmKeyRevocation, DirectoryOps
<1>3. ASSUME NEW r \in MemberRoles, ConfirmChange(r) PROVE PagesInv'
  BY <1>3, AskPages DEF ConfirmChange, RowIsManaged
<1> QED
  BY <1>1, <1>2, <1>3

\* What Serve makes of a call.
LEMMA ServePages ==
  ASSUME PagesInv, NEW i \in DOMAIN calls, NEW ops, NEW allowed, Serve(i, ops, allowed)
  PROVE  PagesInv'
<1>1. CASE allowed
  <2>1. PICK v : calls' = [calls EXCEPT ![i] = [@ EXCEPT !.stage = "done", !.version = v]]
    BY <1>1 DEF Serve
  <2> DEFINE c == [calls[i] EXCEPT !.stage = "done", !.version = v]
  <2>2. Keep(calls[i], c)
    BY DEF PagesInv, CallOK, Call, Keep
  <2> HIDE DEF c
  <2> QED
    BY <2>1, <2>2, ServedPages DEF Serve, c
<1>2. CASE ~allowed
  <2> DEFINE c == [calls[i] EXCEPT !.stage = "refused"]
  <2>1. Keep(calls[i], c)
    BY DEF PagesInv, CallOK, Call, Keep
  <2> QED
    BY <1>2, <2>1, ServedPages DEF Serve
<1> QED
  BY <1>1, <1>2

LEMMA ServedStepPages ==
  ASSUME PagesInv, NEW i \in DOMAIN calls, Served(i)
  PROVE  PagesInv'
<1>1. CASE ServeInvitations(i) \/ ServeKeys(i)
  BY <1>1, ServePages DEF ServeInvitations, ServeKeys
<1>2. CASE ServeChange(i)
  BY <1>2, ServePages DEF ServeChange
<1>3. CASE ServeRemoval(i)
  BY <1>3, ServePages DEF ServeRemoval
<1>4. CASE ServeLeaving(i)
  BY <1>4, ServePages DEF ServeLeaving
<1> QED
  BY <1>1, <1>2, <1>3, <1>4 DEF Served

LEMMA ToldPages ==
  ASSUME PagesInv, NEW i \in DOMAIN calls, DirectoryTold(i) \/ KeysTold(i)
  PROVE  PagesInv'
<1> DEFINE c == [calls[i] EXCEPT !.stage = "told"]
<1>1. Keep(calls[i], c) /\ calls' = [calls EXCEPT ![i] = c] /\ UNCHANGED place
  BY DEF PagesInv, CallOK, Call, Keep, DirectoryTold, KeysTold, Succeeds
<1> HIDE DEF c
<1>2. CASE link' \in {link, Nothing}
  BY <1>1, <1>2, ServedPages
<1>3. CASE DirectoryTold(i) /\ calls[i].op = "invite" /\ calls[i].mounted
  <2>1. place = <<"members", calls[i].org>> /\ link' = calls[i].org
    BY <1>3 DEF PagesInv, CallOK, DirectoryOps, DirectoryTold
  <2>2. calls = [j \in DOMAIN calls |-> calls[j]]
    BY DEF PagesInv
  <2>3. calls' = [j \in DOMAIN calls |-> calls'[j]]
        /\ \A j \in DOMAIN calls : Keep(calls[j], calls'[j])
    BY <1>1, <2>2 DEF PagesInv, CallOK, Keep
  <2>4. calls' \in Seq({calls'[j] : j \in DOMAIN calls'})
    <3>1. PICK f : f = calls'
      OBVIOUS
    <3> QED
      BY <2>3, <3>1, SameDomainIsSeq
  <2> QED
    BY <1>1, <2>1, <2>3, <2>4 DEF PagesInv, CallOK, Keep, LinkIsOfOrganization
<1> QED
  BY <1>2, <1>3 DEF DirectoryTold, KeysTold

LEMMA LeavingToldPages ==
  ASSUME PagesInv, NEW i \in DOMAIN calls, LeavingTold(i)
  PROVE  PagesInv'
<1> DEFINE ended(j) == [calls[j] EXCEPT !.mounted = FALSE, !.stage = IF j = i THEN "ended" ELSE @]
<1>1. calls' = [j \in DOMAIN calls |-> ended(j)] /\ place' = Elsewhere /\ link' = Nothing
  BY DEF LeavingTold
<1>2. \A j \in DOMAIN calls : Keep(calls[j], ended(j)) /\ ~ended(j).mounted
  BY DEF PagesInv, CallOK, Call, Keep
<1> HIDE DEF ended
<1>3. calls' \in Seq({calls'[j] : j \in DOMAIN calls'})
  <2>1. PICK f : f = calls'
    OBVIOUS
  <2> QED
    BY <1>1, <2>1, SameDomainIsSeq
<1> QED
  BY <1>1, <1>2, <1>3 DEF PagesInv, CallOK, Keep, LinkIsOfOrganization, Places

LEMMA EndPages ==
  ASSUME PagesInv, NEW i \in DOMAIN calls, CallEnds(i) \/ CallFails(i)
  PROVE  PagesInv'
<1> PICK stage \in {"ended", "failed"} : calls' = [calls EXCEPT ![i].stage = stage]
  BY DEF CallEnds, CallFails
<1> DEFINE c == [calls[i] EXCEPT !.stage = stage]
<1>1. Keep(calls[i], c)
  BY DEF PagesInv, CallOK, Call, Keep
<1>2. calls' = [calls EXCEPT ![i] = c] /\ UNCHANGED <<place, link>>
  BY DEF CallEnds, CallFails
<1> HIDE DEF c
<1> QED
  BY <1>1, <1>2, ServedPages

LEMMA StepPages == PagesInv /\ [SettingsNext]_settingsVars => PagesInv'
<1> SUFFICES ASSUME PagesInv, [SettingsNext]_settingsVars PROVE PagesInv'
  OBVIOUS
<1>1. CASE UNCHANGED settingsVars
  BY <1>1, UnchangedPages DEF settingsVars
<1>2. ASSUME NEW l \in Lists, ReadList(l) \/ ListArrives(l) \/ ListFails(l) \/ ReadAgain(l) \/ LoadMore(l)
      PROVE  PagesInv'
  BY <1>2, UnchangedPages DEF ReadList, ListArrives, ListFails, ReadAgain, LoadMore
<1>3. CASE Dismiss \/ \E o \in Organizations : OthersChange(o)
  BY <1>3, UnchangedPages DEF Dismiss, OthersChange
<1>4. ASSUME NEW i \in DOMAIN calls,
             Served(i) \/ DirectoryTold(i) \/ LeavingTold(i) \/ KeysTold(i) \/ CallEnds(i) \/ CallFails(i)
      PROVE  PagesInv'
  BY <1>4, ServedStepPages, ToldPages, LeavingToldPages, EndPages
<1> QED
  BY <1>1, <1>2, <1>3, <1>4, OpenedPages, AskedPages DEF SettingsNext

LEMMA PagesInductive == SettingsSpec => []PagesInv
BY InitPages, StepPages, PTL DEF SettingsSpec

-----------------------------------------------------------------------------
(* The theorems.                                                           *)

\* The invitation link is shown in the directory of its own organization,
\* whatever pages are opened while the invitation is created: the directory is
\* keyed by its organization, and only a mounted one takes the answer.
THEOREM LinkStaysHome == SettingsSpec => []LinkIsOfOrganization
<1>1. PagesInv => LinkIsOfOrganization
  BY DEF PagesInv
<1> QED
  BY PagesInductive, <1>1, PTL

-----------------------------------------------------------------------------
(* The gate.                                                               *)

GateSpec == GateInit /\ [][GateNext]_gateVars

AllOrganizations == Given \cup Fresh

-----------------------------------------------------------------------------
(* Types.                                                                  *)

Submission ==
  [org : AllOrganizations \cup {Nil}, project : Projects \cup {Nil}, made : Fresh \cup {Nil},
   seen : BOOLEAN, mounted : BOOLEAN,
   stage : {"organization", "organization made", "project", "project made", "failed", "done"}]

Location ==
  [path : {"list", "session", "members", "invite"}, organization : AllOrganizations \cup {Nil},
   project : Projects \cup {Nil}, environment : Environments \cup {Nil}, live : BOOLEAN,
   of : SUBSET (Projects \cup {Demo}), typed : BOOLEAN]

Query == [data : (SUBSET AllOrganizations) \cup {Nil}, failed : BOOLEAN]

ReadOK(o) ==
  /\ projs[o] \in [data : (SUBSET Projects) \cup {Nil}, failed : BOOLEAN]
  /\ projs[o].data # Nil => projs[o].data \subseteq Projects

TypesOK ==
  /\ memberOf \subseteq AllOrganizations /\ existing \subseteq Projects /\ invited \subseteq Given
  /\ orgs \in Query /\ (orgs.data # Nil => orgs.data \subseteq AllOrganizations)
  /\ projs = [o \in AllOrganizations |-> projs[o]] /\ \A o \in AllOrganizations : ReadOK(o)
  /\ location \in Location
  /\ form \in [mounted : BOOLEAN, org : AllOrganizations \cup {Nil}]
  /\ submits \in Seq(Submission)

\* The state of the route is that of its project, or filters of a list that the
\* user has typed another project over.
StateOK ==
  \/ location.of \subseteq {location.project}
  \/ location.typed /\ location.path = "list" /\ Demo \notin location.of

\* So it is unless it is illustrative data, which a page does not show; nor is
\* the directory ever illustrative.
RouteOK ==
  /\ location.live => StateOK
  /\ location.path = "members" => location.live

-----------------------------------------------------------------------------
(* The setup.                                                              *)

Waiting == {"organization", "organization made"}

\* Of the submissions of the form that is mounted, only the last goes on.
MountedOK(i) ==
  submits[i].mounted =>
    /\ form.mounted
    /\ \A j \in DOMAIN submits : i < j => submits[i].stage \in {"failed", "done"}

MadeOK(i) ==
  /\ submits[i].made # Nil => submits[i].made \in memberOf
  /\ submits[i].stage = "organization made" => submits[i].made # Nil
  /\ submits[i].stage = "project made" =>
       submits[i].project \in Projects /\ submits[i].org = HomeOf[submits[i].project]

\* Once the form knows of an organization, it has one whenever it is there; a
\* form that comes back finds it among those that are read; and no later
\* submission makes one.
SeenOK(i) ==
  submits[i].seen =>
    /\ submits[i].made # Nil
    /\ form.mounted => form.org # Nil
    /\ form.mounted \/ orgs.failed \/ orgs.data # {}
    /\ \A j \in DOMAIN submits :
         i < j => submits[j].made = Nil /\ submits[j].stage \notin Waiting

SubmitsOK == \A i \in DOMAIN submits : MountedOK(i) /\ MadeOK(i) /\ SeenOK(i)

FormOK == form.mounted => Screen = "setup"

GateInv == TypesOK /\ RouteOK /\ FormOK /\ SubmitsOK

USE GateAssumption DEF AllOrganizations

-----------------------------------------------------------------------------
(* What the screen tells.                                                  *)

LEMMA ScreenIsSetup ==
  /\ Screen = "setup" => /\ location.path # "invite" /\ session /\ ~orgs.failed
                         /\ orgs.data # Nil
  /\ location.path # "invite" /\ session /\ ~orgs.failed /\ orgs.data # Nil /\ orgs.data = {}
     => Screen = "setup"
  BY DEF Screen, Offered

LEMMA ScreenIsPage ==
  /\ Screen = "page" =>
       (location.path = "members" /\ location.organization \in Offered) \/ (Listed # {} /\ SelectionIsCurrent)
  /\ Screen = "redirect" => Listed # {} /\ location.path # "invite" /\ session
  /\ Screen = "page" => location.path # "invite" /\ session
  BY DEF Screen

LEMMA ListedAreProjects ==
  ASSUME TypesOK
  PROVE  Offered \subseteq AllOrganizations /\ Listed \subseteq Projects
<1>1. Offered \subseteq AllOrganizations
  BY DEF TypesOK, Offered
<1>2. ASSUME NEW o \in Offered
      PROVE  (IF projs[o].data = Nil THEN {} ELSE projs[o].data) \subseteq Projects
  BY <1>1 DEF TypesOK, ReadOK
<1> QED
  BY <1>1, <1>2 DEF Listed

LEMMA SelectedIsListed ==
  ASSUME TypesOK, Listed # {}
  PROVE  Selected \in Listed /\ HomeOf[Selected] \in AllOrganizations /\ SelectedEnvironment \in Environments
<1> DEFINE ofOrganization == {p \in Listed : HomeOf[p] = location.organization}
<1>1. Listed \subseteq Projects /\ ofOrganization \subseteq Listed
  BY ListedAreProjects
<1>2. ofOrganization # {} => Min(ofOrganization) \in ofOrganization
  BY <1>1, MinIsMember
<1>3. Min(Listed) \in Listed
  BY <1>1, MinIsMember
<1>4. Selected \in Listed
  BY <1>1, <1>2, <1>3 DEF Selected
<1>5. Selected \in Projects
  BY <1>1, <1>4
<1>6. HomeOf[Selected] \in AllOrganizations /\ EnvironmentsOf[Selected] \subseteq Environments
      /\ EnvironmentsOf[Selected] # {}
  BY <1>5
<1>7. Min(EnvironmentsOf[Selected]) \in EnvironmentsOf[Selected]
  BY <1>6, MinIsMember
<1> QED
  BY <1>4, <1>6, <1>7 DEF SelectedEnvironment

LEMMA FirstEnvironment ==
  ASSUME NEW p \in Projects
  PROVE  Min(EnvironmentsOf[p]) \in Environments /\ HomeOf[p] \in AllOrganizations
  BY MinIsMember

-----------------------------------------------------------------------------
(* Steps that render the page again, and end submissions or unmount them.  *)

\* What such a step does to the submissions.
Fade ==
  /\ DOMAIN submits' = DOMAIN submits
  /\ \A i \in DOMAIN submits :
       /\ submits'[i].made = submits[i].made /\ submits'[i].seen = submits[i].seen
       /\ submits'[i].org = submits[i].org /\ submits'[i].project = submits[i].project
       /\ submits'[i].stage \in {submits[i].stage, "failed", "done"}
       /\ submits'[i].mounted => submits[i].mounted /\ form'.mounted

\* What it does to the organizations that are read.
Reread ==
  \/ orgs'.data = memberOf
  \/ orgs'.data = orgs.data /\ (orgs.failed => orgs'.failed)

LEMMA SubmissionsHaveTypes ==
  ASSUME TypesOK, NEW i \in DOMAIN submits
  PROVE  submits[i] \in Submission /\ i \in Nat
  BY LenProperties DEF TypesOK

LEMMA RenderedType ==
  ASSUME TypesOK, orgs' \in Query, orgs'.data # Nil => orgs'.data \subseteq AllOrganizations, Rendered(form)
  PROVE  form' \in [mounted : BOOLEAN, org : AllOrganizations \cup {Nil}]
<1>1. Offered' \subseteq AllOrganizations
  BY DEF Offered
<1>2. Offered' # {} => Min(Offered') \in AllOrganizations
  BY <1>1, MinIsMember
<1> QED
  BY <1>2 DEF Rendered, NoForm, TypesOK

LEMMA UnmountedType ==
  ASSUME TypesOK, submits' = [i \in DOMAIN submits |-> [submits[i] EXCEPT !.mounted = FALSE]]
  PROVE  submits' \in Seq(Submission) /\ Fade
<1>1. \A i \in DOMAIN submits : [submits[i] EXCEPT !.mounted = FALSE] \in Submission
  BY SubmissionsHaveTypes DEF Submission
<1>2. DOMAIN submits = 1 .. Len(submits) /\ Len(submits) \in Nat
  BY LenProperties DEF TypesOK
<1>3. submits' \in [1 .. Len(submits) -> Submission]
  BY <1>1, <1>2
<1>4. submits' \in Seq(Submission)
  BY <1>2, <1>3, SeqDef
<1>5. ASSUME NEW i \in DOMAIN submits
      PROVE  /\ submits'[i].made = submits[i].made /\ submits'[i].seen = submits[i].seen
             /\ submits'[i].org = submits[i].org /\ submits'[i].project = submits[i].project
             /\ submits'[i].stage = submits[i].stage /\ submits'[i].mounted = FALSE
  BY SubmissionsHaveTypes DEF Submission
<1> QED
  BY <1>4, <1>5 DEF Fade

LEMMA UnmountFades ==
  ASSUME TypesOK, Unmount
  PROVE  submits' \in Seq(Submission) /\ Fade
<1>1. CASE form'.mounted
  BY <1>1 DEF Unmount, Fade, TypesOK
<1>2. CASE ~form'.mounted
  BY <1>2, UnmountedType DEF Unmount
<1> QED
  BY <1>1, <1>2

LEMMA ElsewhereFades ==
  ASSUME GateInv, Screen # "setup", UNCHANGED submits
  PROVE  submits' \in Seq(Submission) /\ Fade
  BY DEF GateInv, FormOK, SubmitsOK, MountedOK, Fade, TypesOK

LEMMA RenderedKeepsSetup ==
  ASSUME GateInv, TypesOK', Rendered(form), Reread, Fade,
         session => session', location.path # "invite" => location'.path # "invite",
         memberOf \cap Fresh \subseteq memberOf'
  PROVE  FormOK' /\ SubmitsOK'
<1> USE DEF GateInv
<1>1. FormOK'
  BY DEF Rendered, FormOK, NoForm
<1> SUFFICES ASSUME NEW i \in DOMAIN submits
             PROVE  MountedOK(i)' /\ MadeOK(i)' /\ SeenOK(i)'
  BY <1>1 DEF SubmitsOK, Fade
<1>2. MountedOK(i) /\ MadeOK(i) /\ SeenOK(i)
  BY DEF SubmitsOK
<1>3. MountedOK(i)'
  BY <1>2 DEF MountedOK, Fade
<1>4. MadeOK(i)'
  BY <1>2, SubmissionsHaveTypes DEF MadeOK, Fade, Submission
<1>5. ASSUME submits[i].seen
      PROVE  (form'.mounted => form'.org # Nil) /\ (form'.mounted \/ orgs'.failed \/ orgs'.data # {})
  <2>1. submits[i].made \in memberOf /\ submits[i].made # Nil
    BY <1>2, <1>5 DEF MadeOK, SeenOK
  <2>2. orgs'.failed \/ orgs'.data # {} \/ (form.mounted /\ orgs'.data = orgs.data)
    BY <1>2, <1>5, <2>1 DEF Reread, SeenOK
  <2>3. CASE Screen' # "setup"
    <3>1. ~form'.mounted
      BY <2>3 DEF Rendered, NoForm
    <3>2. form.mounted => location.path # "invite" /\ session /\ orgs.data # Nil
      BY ScreenIsSetup DEF FormOK
    <3>3. location'.path # "invite" /\ session' /\ ~orgs'.failed /\ orgs'.data # Nil /\ orgs'.data = {}
          => Screen' = "setup"
      BY DEF Screen, Offered
    <3> QED
      BY <2>2, <2>3, <3>1, <3>2, <3>3
  <2>4. CASE Screen' = "setup" /\ form.mounted
    BY <1>2, <1>5, <2>4 DEF Rendered, SeenOK
  <2>5. CASE Screen' = "setup" /\ ~form.mounted
    <3>1. ~orgs'.failed /\ orgs'.data # Nil
      BY <2>5 DEF Screen, Offered
    <3>2. Offered' # {} /\ Offered' \subseteq AllOrganizations
      BY <2>2, <2>5, <3>1 DEF Offered, TypesOK
    <3>3. Min(Offered') \in AllOrganizations
      BY <3>2, MinIsMember
    <3> QED
      BY <2>5, <3>1, <3>2, <3>3, <2>2 DEF Rendered
  <2> QED
    BY <2>3, <2>4, <2>5
<1>6. SeenOK(i)'
  BY <1>2, <1>5 DEF SeenOK, Fade, Waiting
<1> QED
  BY <1>3, <1>4, <1>6

-----------------------------------------------------------------------------
(* The actions.                                                            *)

LEMMA InitGate == GateInit => GateInv
<1> SUFFICES ASSUME GateInit PROVE GateInv
  OBVIOUS
<1>1. TypesOK
  BY EmptySeq DEF GateInit, TypesOK, ReadOK, Query, Unread, Location, NoForm
<1>2. RouteOK /\ FormOK /\ SubmitsOK
  BY EmptySeq DEF GateInit, RouteOK, StateOK, FormOK, SubmitsOK, NoForm
<1> QED
  BY <1>1, <1>2 DEF GateInv

\* Steps that only change the URL.
LEMMA NavigationGate ==
  ASSUME GateInv, Rendered(form), UNCHANGED <<memberOf, existing, invited, session, orgs, projs>>,
         location' \in Location, location.path # "invite" => location'.path # "invite", RouteOK',
         (UNCHANGED submits /\ Screen # "setup") \/ Unmount
  PROVE  GateInv'
<1>1. submits' \in Seq(Submission) /\ Fade
  BY ElsewhereFades, UnmountFades DEF GateInv
<1>2. form' \in [mounted : BOOLEAN, org : AllOrganizations \cup {Nil}]
  BY RenderedType DEF GateInv, TypesOK
<1>3. TypesOK'
  BY <1>1, <1>2 DEF GateInv, TypesOK, ReadOK
<1> QED
  BY <1>1, <1>3, RenderedKeepsSetup DEF GateInv, Reread

LEMMA RedirectGate == GateInv /\ Redirect => GateInv'
<1> SUFFICES ASSUME GateInv, Redirect PROVE GateInv'
  OBVIOUS
<1> USE DEF GateInv
<1>1. Listed # {} /\ location.path # "invite"
  BY ScreenIsPage DEF Redirect
<1>2. Selected \in Listed /\ HomeOf[Selected] \in AllOrganizations /\ SelectedEnvironment \in Environments
      /\ Listed \subseteq Projects
  BY <1>1, SelectedIsListed, ListedAreProjects
<1>3. location' \in Location /\ location'.path # "invite"
  BY <1>1, <1>2 DEF Redirect, Location, TypesOK
<1>4. ~ResetRouteState => location.live /\ Selected = location.project
  BY DEF ResetRouteState, Selected
<1>5. RouteOK'
  BY <1>4 DEF Redirect, RouteOK, StateOK
<1> QED
  BY <1>3, <1>5, NavigationGate DEF Redirect

LEMMA FollowLinkGate == GateInv /\ FollowLink => GateInv'
<1> SUFFICES ASSUME GateInv, FollowLink PROVE GateInv'
  OBVIOUS
<1>1. location' \in Links
  BY DEF FollowLink
<1> DEFINE toProject == {[path |-> path, organization |-> o, project |-> p, environment |-> e,
                          live |-> live, of |-> IF live THEN {p} ELSE {Demo},
                          typed |-> FALSE] :
                             path \in {"list", "session"}, o \in Given, p \in Projects,
                             e \in Environments, live \in BOOLEAN}
           toOrganization == {[path |-> path, organization |-> o, project |-> Nil, environment |-> Nil,
                               live |-> TRUE, of |-> {}, typed |-> FALSE] :
                                  path \in {"list", "members"}, o \in Given \cup {Nil}}
<1>6. ASSUME NEW path \in {"list", "session"}, NEW o \in Given, NEW p \in Projects,
             NEW e \in Environments, NEW live \in BOOLEAN,
             location' = [path |-> path, organization |-> o, project |-> p, environment |-> e,
                          live |-> live, of |-> IF live THEN {p} ELSE {Demo}, typed |-> FALSE]
      PROVE  GateInv'
  <2>1. location' \in Location /\ location'.path # "invite" /\ RouteOK'
    BY <1>6 DEF Location, RouteOK, StateOK
  <2> QED
    BY <2>1, NavigationGate DEF FollowLink
<1>2. CASE location' \in toProject
  <2> HIDE DEF GateInv
  <2> QED
    BY <1>2, <1>6
<1>3. ASSUME NEW path \in {"list", "members"}, NEW o \in Given \cup {Nil},
             location' = [path |-> path, organization |-> o, project |-> Nil, environment |-> Nil,
                          live |-> TRUE, of |-> {}, typed |-> FALSE]
      PROVE  GateInv'
  <2>1. location' \in Location /\ location'.path # "invite" /\ RouteOK'
    BY <1>3 DEF Location, RouteOK, StateOK
  <2> QED
    BY <2>1, NavigationGate DEF FollowLink
<1>4. CASE location' \in toOrganization
  <2> HIDE DEF GateInv
  <2> QED
    BY <1>3, <1>4
<1>5. Links = toProject \cup toOrganization
  BY DEF Links
<1> HIDE DEF toProject, toOrganization
<1> QED
  BY <1>1, <1>2, <1>4, <1>5

LEMMA SwitchProjectGate == GateInv /\ SwitchProject => GateInv'
<1> SUFFICES ASSUME GateInv, SwitchProject PROVE GateInv'
  OBVIOUS
<1>1. PICK p \in Listed :
        location' = [path |-> "list", organization |-> HomeOf[p], project |-> p,
                     environment |-> Min(EnvironmentsOf[p]), live |-> TRUE, of |-> {}, typed |-> FALSE]
  BY DEF SwitchProject
<1>2. p \in Projects
  BY ListedAreProjects DEF GateInv
<1>3. location' \in Location /\ location'.path # "invite" /\ RouteOK'
  BY <1>1, <1>2, FirstEnvironment DEF Location, RouteOK, StateOK
<1> QED
  BY <1>3, NavigationGate DEF SwitchProject

\* A list or a session that is shown has live data of a project.
LEMMA ShownProject ==
  ASSUME GateInv, Screen = "page", location.path \in {"list", "session"}
  PROVE  location.live /\ location.project \in Projects /\ StateOK
<1>1. SelectionIsCurrent
  BY ScreenIsPage
<1> QED
  BY <1>1, ListedAreProjects DEF GateInv, SelectionIsCurrent, RouteOK

\* What the user does on a page changes the URL alone.
LEMMA UseProjectGate ==
  ASSUME GateInv, NEW url, UseProject(url), url \in Location, url.path # "invite", RouteOK'
  PROVE  GateInv'
BY NavigationGate DEF UseProject

LEMMA SetFilterGate == GateInv /\ SetFilter => GateInv'
<1> SUFFICES ASSUME GateInv, SetFilter PROVE GateInv'
  OBVIOUS
<1> DEFINE url == [location EXCEPT !.of = @ \cup {location.project}]
<1>1. UseProject(url) /\ location' = url
  BY DEF SetFilter, UseProject
<1>2. location \in Location /\ location.project \in Projects /\ StateOK /\ location.path # "invite"
      /\ location.path # "members"
  BY <1>1, ShownProject DEF UseProject, GateInv, TypesOK
<1>3. url \in Location /\ url.path # "invite"
  BY <1>2 DEF Location
<1>4. RouteOK'
  BY <1>1, <1>2 DEF RouteOK, StateOK, Location
<1> QED
  BY <1>1, <1>3, <1>4, UseProjectGate

LEMMA OpenSessionGate == GateInv /\ OpenSession => GateInv'
<1> SUFFICES ASSUME GateInv, OpenSession PROVE GateInv'
  OBVIOUS
<1> DEFINE url == [location EXCEPT !.path = "session", !.of = {location.project}, !.typed = FALSE]
<1>1. UseProject(url) /\ location' = url
  BY DEF OpenSession, UseProject
<1>2. location \in Location /\ location.project \in Projects
  BY <1>1, ShownProject DEF UseProject, GateInv, TypesOK
<1>3. url \in Location /\ url.path # "invite"
  BY <1>2 DEF Location
<1>4. RouteOK'
  BY <1>1, <1>2 DEF RouteOK, StateOK, Location
<1> QED
  BY <1>1, <1>3, <1>4, UseProjectGate

LEMMA NavigateGate == GateInv /\ Navigate => GateInv'
<1> SUFFICES ASSUME GateInv, Navigate PROVE GateInv'
  OBVIOUS
<1> DEFINE url == [location EXCEPT !.path = "list", !.of = {}, !.typed = FALSE]
<1>1. UseProject(url) /\ location' = url /\ location \in Location
  BY DEF Navigate, UseProject, GateInv, TypesOK
<1>2. url \in Location /\ url.path # "invite"
  BY <1>1 DEF Location
<1>3. RouteOK'
  BY <1>1 DEF RouteOK, StateOK, Location
<1> QED
  BY <1>1, <1>2, <1>3, UseProjectGate

\* The filters that stay are those of a project, for the page has shown them.
LEMMA TypeProjectGate == GateInv /\ TypeProject => GateInv'
<1> SUFFICES ASSUME GateInv, TypeProject PROVE GateInv'
  OBVIOUS
<1>1. PICK p \in Projects : UseProject([location EXCEPT !.project = p, !.typed = TRUE])
  BY DEF TypeProject
<1> DEFINE url == [location EXCEPT !.project = p, !.typed = TRUE]
<1>2. location' = url /\ location.path = "list" /\ location \in Location
  BY <1>1 DEF TypeProject, UseProject, GateInv, TypesOK
<1>3. Demo \notin location.of
  <2>1. location.project \in Projects /\ StateOK
    BY <1>1, ShownProject DEF UseProject
  <2> QED
    BY <2>1 DEF StateOK
<1>4. url \in Location /\ url.path # "invite"
  BY <1>2 DEF Location
<1>5. RouteOK'
  BY <1>2, <1>3 DEF RouteOK, StateOK, Location
<1> QED
  BY <1>1, <1>4, <1>5, UseProjectGate

LEMMA TypeEnvironmentGate == GateInv /\ TypeEnvironment => GateInv'
<1> SUFFICES ASSUME GateInv, TypeEnvironment PROVE GateInv'
  OBVIOUS
<1>1. PICK e \in Environments : UseProject([location EXCEPT !.environment = e])
  BY DEF TypeEnvironment
<1> DEFINE url == [location EXCEPT !.environment = e]
<1>2. location' = url /\ location.path = "list" /\ location \in Location
  BY <1>1 DEF TypeEnvironment, UseProject, GateInv, TypesOK
<1>3. StateOK
  BY <1>1, ShownProject DEF UseProject
<1>4. url \in Location /\ url.path # "invite"
  BY <1>2 DEF Location
<1>5. RouteOK'
  BY <1>2, <1>3 DEF RouteOK, StateOK, Location
<1> QED
  BY <1>1, <1>4, <1>5, UseProjectGate

LEMMA LeaveInvitationGate == GateInv /\ LeaveInvitation => GateInv'
<1> SUFFICES ASSUME GateInv, LeaveInvitation PROVE GateInv'
  OBVIOUS
<1>1. location' \in Location /\ location'.path # "invite" /\ RouteOK' /\ Screen # "setup"
  BY ScreenIsSetup DEF LeaveInvitation, Joining, Location, RouteOK
<1> QED
  BY <1>1, NavigationGate DEF LeaveInvitation

LEMMA LoadOrganizationsGate == GateInv /\ LoadOrganizations => GateInv'
<1> SUFFICES ASSUME GateInv, LoadOrganizations PROVE GateInv'
  OBVIOUS
<1> USE DEF GateInv, LoadOrganizations
<1>1. submits' \in Seq(Submission) /\ Fade
  BY UnmountFades
<1>2. orgs' \in Query /\ orgs'.data = memberOf /\ memberOf \subseteq AllOrganizations
  BY DEF Query, TypesOK
<1>3. form' \in [mounted : BOOLEAN, org : AllOrganizations \cup {Nil}]
  BY <1>2, RenderedType
<1>4. TypesOK'
  BY <1>1, <1>2, <1>3 DEF TypesOK, ReadOK
<1>5. RouteOK'
  BY DEF RouteOK, StateOK
<1> QED
  BY <1>1, <1>2, <1>4, <1>5, RenderedKeepsSetup DEF Reread

LEMMA OrganizationsFailGate == GateInv /\ OrganizationsFail => GateInv'
<1> SUFFICES ASSUME GateInv, OrganizationsFail PROVE GateInv'
  OBVIOUS
<1> USE DEF GateInv, OrganizationsFail
<1>1. submits' \in Seq(Submission) /\ Fade
  BY UnmountFades
<1>2. orgs' \in Query /\ orgs'.data = orgs.data /\ orgs'.failed
  BY DEF Query, TypesOK
<1>3. form' \in [mounted : BOOLEAN, org : AllOrganizations \cup {Nil}]
  BY <1>2, RenderedType DEF TypesOK
<1>4. TypesOK'
  BY <1>1, <1>2, <1>3 DEF TypesOK, ReadOK
<1>5. RouteOK'
  BY DEF RouteOK, StateOK
<1> QED
  BY <1>1, <1>2, <1>4, <1>5, RenderedKeepsSetup DEF Reread

LEMMA LoadProjectsGate ==
  ASSUME GateInv, NEW o \in AllOrganizations, LoadProjects(o)
  PROVE  GateInv'
<1> USE DEF GateInv, LoadProjects
<1>1. submits' \in Seq(Submission) /\ Fade
  BY UnmountFades
<1>2. form' \in [mounted : BOOLEAN, org : AllOrganizations \cup {Nil}]
  BY RenderedType DEF TypesOK
<1>3. projs' = [q \in AllOrganizations |-> projs'[q]]
  BY DEF TypesOK
<1>4. ASSUME NEW q \in AllOrganizations PROVE ReadOK(q)'
  <2>1. ReadOK(q) /\ existing \subseteq Projects
    BY DEF TypesOK
  <2>2. CASE q # o
    BY <2>1, <2>2 DEF ReadOK, TypesOK
  <2>3. CASE q = o /\ o \in memberOf
    <3>1. projs'[q] = [data |-> {p \in existing : HomeOf[p] = o}, failed |-> FALSE]
      BY <2>3 DEF TypesOK
    <3> QED
      BY <2>1, <3>1 DEF ReadOK
  <2>4. CASE q = o /\ o \notin memberOf
    <3>1. projs'[q] = [projs[q] EXCEPT !.failed = TRUE]
      BY <2>4 DEF TypesOK
    <3> QED
      BY <2>1, <3>1 DEF ReadOK
  <2> QED
    BY <2>2, <2>3, <2>4
<1>5. TypesOK'
  BY <1>1, <1>2, <1>3, <1>4 DEF TypesOK
<1>6. RouteOK'
  BY DEF RouteOK, StateOK
<1> QED
  BY <1>1, <1>5, <1>6, RenderedKeepsSetup DEF Reread

LEMMA SignInGate == GateInv /\ SignIn => GateInv'
<1> SUFFICES ASSUME GateInv, SignIn PROVE GateInv'
  OBVIOUS
<1> USE DEF GateInv, SignIn
<1>1. submits' \in Seq(Submission) /\ Fade
  BY ElsewhereFades, ScreenIsSetup
<1>2. form' \in [mounted : BOOLEAN, org : AllOrganizations \cup {Nil}]
  BY RenderedType DEF TypesOK
<1>3. TypesOK'
  BY <1>1, <1>2 DEF TypesOK, ReadOK
<1>4. RouteOK'
  BY DEF RouteOK, StateOK
<1> QED
  BY <1>1, <1>3, <1>4, RenderedKeepsSetup DEF Reread

LEMMA AcceptGate ==
  ASSUME GateInv, NEW lost \in BOOLEAN, Accept(lost)
  PROVE  GateInv'
<1> USE DEF GateInv, Accept
<1>1. submits' \in Seq(Submission) /\ Fade
  BY ElsewhereFades, ScreenIsSetup DEF Joining
<1>2. form' \in [mounted : BOOLEAN, org : AllOrganizations \cup {Nil}]
  BY RenderedType DEF TypesOK
<1>3. location' \in Location /\ (location.path # "invite" => location'.path # "invite") /\ RouteOK'
  <2>1. CASE lost
    BY <2>1 DEF TypesOK, RouteOK, StateOK
  <2>2. CASE ~lost
    <3>1. cookie \in AllOrganizations
      BY DEF TypesOK
    <3>2. location' = [path |-> "members", organization |-> cookie, project |-> Nil,
                       environment |-> Nil, live |-> TRUE, of |-> {}, typed |-> FALSE]
      BY <2>2
    <3> QED
      BY <3>1, <3>2 DEF Location, RouteOK, StateOK
  <2> QED
    BY <2>1, <2>2
<1>4. TypesOK'
  BY <1>1, <1>2, <1>3 DEF TypesOK, ReadOK
<1> QED
  BY <1>1, <1>3, <1>4, RenderedKeepsSetup DEF Reread

-----------------------------------------------------------------------------
(* Steps that render nothing.                                              *)

LEMMA UnseenGate ==
  ASSUME GateInv, UNCHANGED <<existing, session, orgs, projs, location, form, submits>>,
         memberOf' \subseteq memberOf, memberOf \cap Fresh \subseteq memberOf', invited' \subseteq invited
  PROVE  GateInv'
<1> USE DEF GateInv
<1>1. TypesOK'
  BY DEF TypesOK, ReadOK
<1>4. Screen' = Screen
  BY DEF Screen, Offered, Listed, SelectionIsCurrent, Selected, SelectedEnvironment
<1>2. RouteOK' /\ FormOK'
  BY <1>4 DEF RouteOK, StateOK, FormOK
<1>3. ASSUME NEW i \in DOMAIN submits PROVE MountedOK(i)' /\ MadeOK(i)' /\ SeenOK(i)'
  BY <1>1, SubmissionsHaveTypes DEF SubmitsOK, MountedOK, MadeOK, SeenOK, Submission
<1> QED
  BY <1>1, <1>2, <1>3 DEF SubmitsOK

\* The same for steps of a submission: what is left to show is its own part.
LEMMA SubmissionGate ==
  ASSUME GateInv, UNCHANGED <<invited, session, orgs, projs, location>>,
         memberOf \subseteq memberOf', memberOf' \subseteq AllOrganizations, existing' \subseteq Projects,
         form' \in [mounted : BOOLEAN, org : AllOrganizations \cup {Nil}], form'.mounted => form.mounted,
         submits' \in Seq(Submission), SubmitsOK'
  PROVE  GateInv'
<1> USE DEF GateInv
<1>1. TypesOK'
  BY DEF TypesOK, ReadOK
<1>2. RouteOK'
  BY DEF RouteOK, StateOK
<1>3. Screen' = Screen
  BY DEF Screen, Offered, Listed, SelectionIsCurrent, Selected, SelectedEnvironment
<1> QED
  BY <1>1, <1>2, <1>3 DEF FormOK

LEMMA SubmitGate == GateInv /\ Submit => GateInv'
<1> SUFFICES ASSUME GateInv, Submit PROVE GateInv'
  OBVIOUS
<1> USE DEF GateInv
<1> DEFINE new == [org |-> form.org, project |-> Nil, made |-> Nil, seen |-> FALSE, mounted |-> TRUE,
                   stage |-> IF form.org = Nil THEN "organization" ELSE "project"]
<1>1. submits' = Append(submits, new) /\ new \in Submission /\ form.mounted
  BY DEF Submit, SubmittedOrganization, Submission, TypesOK
<1>2. submits \in Seq(Submission)
  BY DEF TypesOK
<1> PICK n \in Nat : n = Len(submits) + 1
  BY <1>2, LenProperties
<1>3. /\ submits' \in Seq(Submission) /\ DOMAIN submits' = DOMAIN submits \cup {n}
      /\ DOMAIN submits = 1 .. Len(submits) /\ Len(submits) \in Nat
      /\ submits'[n] = new /\ \A i \in DOMAIN submits : submits'[i] = submits[i]
  <2> HIDE DEF new
  <2> QED
    BY <1>1, <1>2, AppendProperties, LenProperties
<1>4. MountedOK(n)' /\ MadeOK(n)' /\ SeenOK(n)'
  <2>1. new.made = Nil /\ ~new.seen /\ new.stage \notin {"organization made", "project made"} /\ form'.mounted
    BY <1>1 DEF Submit
  <2>2. \A j \in DOMAIN submits' : ~(n < j)
    BY <1>3
  <2> HIDE DEF new
  <2> QED
    BY <1>3, <2>1, <2>2 DEF MountedOK, MadeOK, SeenOK
<1>5. ASSUME NEW i \in DOMAIN submits PROVE MountedOK(i)' /\ MadeOK(i)' /\ SeenOK(i)'
  <2>1. MountedOK(i) /\ MadeOK(i) /\ SeenOK(i)
    BY DEF SubmitsOK
  <2>2. MountedOK(i)'
    BY <1>1, <1>3, <2>1 DEF MountedOK, Submit, Saving
  <2>3. MadeOK(i)'
    BY <1>3, <2>1 DEF MadeOK, Submit
  <2>4. SeenOK(i)'
    <3>1. UNCHANGED <<form, orgs>>
      BY DEF Submit
    <3>2. submits[i].seen => new.made = Nil /\ new.stage \notin Waiting
      BY <1>1, <2>1 DEF SeenOK, Waiting
    <3> HIDE DEF new
    <3> QED
      BY <1>3, <2>1, <3>1, <3>2 DEF SeenOK
  <2> QED
    BY <2>2, <2>3, <2>4
<1>6. SubmitsOK'
  <2> HIDE DEF new
  <2> QED
    BY <1>3, <1>4, <1>5 DEF SubmitsOK
<1> QED
  BY <1>3, <1>6, SubmissionGate DEF Submit, TypesOK

LEMMA UpdatedType ==
  ASSUME TypesOK, NEW i \in DOMAIN submits, NEW c \in Submission, submits' = [submits EXCEPT ![i] = c]
  PROVE  /\ submits' \in Seq(Submission) /\ DOMAIN submits' = DOMAIN submits
         /\ submits'[i] = c /\ \A j \in DOMAIN submits : j # i => submits'[j] = submits[j]
         /\ DOMAIN submits \subseteq Nat
  BY ExceptSeq, SubmissionsHaveTypes DEF TypesOK

LEMMA CreateOrganizationGate ==
  ASSUME GateInv, NEW i \in DOMAIN submits, CreateOrganization(i)
  PROVE  GateInv'
<1> USE DEF GateInv
<1> DEFINE o == Min(Fresh \ memberOf)
           c == [submits[i] EXCEPT !.made = o, !.stage = "organization made"]
<1>1. o \in Fresh \ memberOf
  BY MinIsMember DEF CreateOrganization
<1>2. submits[i] \in Submission /\ submits[i].stage = "organization"
  BY SubmissionsHaveTypes DEF CreateOrganization
<1>3. /\ c \in Submission /\ c.made = o /\ c.stage = "organization made" /\ o # Nil
      /\ c.seen = submits[i].seen /\ c.mounted = submits[i].mounted
  BY <1>1, <1>2 DEF Submission
<1>4. submits' = [submits EXCEPT ![i] = c] /\ memberOf' = memberOf \cup {o}
  BY DEF CreateOrganization
<1> HIDE DEF c, o
<1>5. /\ submits' \in Seq(Submission) /\ DOMAIN submits' = DOMAIN submits
      /\ submits'[i] = c /\ \A j \in DOMAIN submits : j # i => submits'[j] = submits[j]
      /\ DOMAIN submits \subseteq Nat
  BY <1>3, <1>4, UpdatedType
<1>6. ASSUME NEW j \in DOMAIN submits PROVE MountedOK(j)' /\ MadeOK(j)' /\ SeenOK(j)'
  <2>1. MountedOK(j) /\ MadeOK(j) /\ SeenOK(j) /\ UNCHANGED <<form, orgs>>
    BY DEF SubmitsOK, CreateOrganization
  <2>2. MountedOK(j)'
    BY <1>2, <1>3, <1>5, <2>1 DEF MountedOK
  <2>3. MadeOK(j)'
    BY <1>3, <1>4, <1>5, <2>1 DEF MadeOK
  <2>4. submits[j].seen => ~(j < i)
    BY <1>2, <2>1 DEF SeenOK, Waiting
  <2>5. ASSUME submits'[j].seen, NEW k \in DOMAIN submits, j < k
        PROVE  submits'[k].made = Nil /\ submits'[k].stage \notin Waiting
    <3>1. submits[j].seen /\ k # i
      BY <1>3, <1>5, <2>4, <2>5
    <3> QED
      BY <1>5, <2>1, <2>5, <3>1 DEF SeenOK
  <2>6. submits'[j].seen => submits[j].seen /\ submits'[j].made # Nil
    BY <1>3, <1>5, <2>1 DEF SeenOK
  <2>7. SeenOK(j)'
    BY <1>5, <2>1, <2>5, <2>6 DEF SeenOK
  <2> QED
    BY <2>2, <2>3, <2>7
<1>7. SubmitsOK'
  BY <1>5, <1>6 DEF SubmitsOK
<1> QED
  BY <1>1, <1>4, <1>5, <1>7, SubmissionGate DEF CreateOrganization, TypesOK

LEMMA OrganizationMadeGate ==
  ASSUME GateInv, NEW i \in DOMAIN submits, OrganizationMade(i)
  PROVE  GateInv'
<1> USE DEF GateInv
<1> DEFINE c == [submits[i] EXCEPT !.org = submits[i].made, !.stage = "project", !.seen = submits[i].mounted]
<1>1. submits[i] \in Submission /\ submits[i].stage = "organization made" /\ i \in Nat
  BY SubmissionsHaveTypes DEF OrganizationMade
<1>2. /\ c \in Submission /\ c.made = submits[i].made /\ c.stage = "project"
      /\ c.seen = submits[i].mounted /\ c.mounted = submits[i].mounted
  BY <1>1 DEF Submission
<1>3. submits' = [submits EXCEPT ![i] = c]
  BY DEF OrganizationMade
<1> HIDE DEF c
<1>4. /\ submits' \in Seq(Submission) /\ DOMAIN submits' = DOMAIN submits
      /\ submits'[i] = c /\ \A j \in DOMAIN submits : j # i => submits'[j] = submits[j]
      /\ DOMAIN submits \subseteq Nat
  BY <1>2, <1>3, UpdatedType
<1>5. submits[i].made # Nil /\ submits[i].made \in Fresh
  BY <1>1 DEF SubmitsOK, MadeOK, Submission
<1>6. /\ form' \in [mounted : BOOLEAN, org : AllOrganizations \cup {Nil}] /\ form'.mounted = form.mounted
      /\ IF submits[i].mounted THEN form'.org # Nil ELSE form' = form
  BY <1>5 DEF OrganizationMade, TypesOK
<1>7. ASSUME NEW j \in DOMAIN submits PROVE MountedOK(j)' /\ MadeOK(j)' /\ SeenOK(j)'
  <2>1. MountedOK(i) /\ MountedOK(j) /\ MadeOK(j) /\ SeenOK(j) /\ UNCHANGED <<memberOf, orgs>> /\ j \in Nat
    BY SubmissionsHaveTypes DEF SubmitsOK, OrganizationMade
  <2>2. MountedOK(j)'
    BY <1>1, <1>2, <1>4, <1>6, <2>1 DEF MountedOK
  <2>3. MadeOK(j)'
    BY <1>2, <1>4, <2>1 DEF MadeOK
  <2>4. CASE j = i
    \* It is the last: a later one would find it at its end.
    <3>1. submits[i].mounted => form.mounted /\ \A k \in DOMAIN submits : ~(i < k)
      BY <1>1, <2>1 DEF MountedOK
    <3> QED
      BY <1>2, <1>4, <1>5, <1>6, <2>1, <2>2, <2>3, <2>4, <3>1 DEF SeenOK
  <2>5. CASE j # i
    <3>1. submits[j].seen => ~(j < i)
      BY <1>1, <2>1 DEF SeenOK, Waiting
    <3> QED
      BY <1>4, <1>6, <2>1, <2>2, <2>3, <2>5, <3>1 DEF SeenOK
  <2> QED
    BY <2>2, <2>3, <2>4, <2>5
<1>8. SubmitsOK'
  BY <1>4, <1>7 DEF SubmitsOK
<1> QED
  BY <1>4, <1>6, <1>8, SubmissionGate DEF OrganizationMade, TypesOK

\* A submission that makes a project or fails, and can make no organization.
LEMMA ClosingGate ==
  ASSUME GateInv, NEW i \in DOMAIN submits, NEW c \in Submission, submits' = [submits EXCEPT ![i] = c],
         c.made = submits[i].made, c.seen = submits[i].seen, c.mounted = submits[i].mounted,
         \/ c.stage = "failed"
         \/ /\ c.stage = "project made" /\ submits[i].stage = "project"
            /\ c.project \in Projects /\ c.org = HomeOf[c.project],
         UNCHANGED <<memberOf, invited, session, orgs, projs, location, form>>, existing' \subseteq Projects
  PROVE  GateInv'
<1> USE DEF GateInv
<1>1. /\ submits' \in Seq(Submission) /\ DOMAIN submits' = DOMAIN submits
      /\ submits'[i] = c /\ \A j \in DOMAIN submits : j # i => submits'[j] = submits[j]
  BY UpdatedType
<1>2. ASSUME NEW j \in DOMAIN submits PROVE MountedOK(j)' /\ MadeOK(j)' /\ SeenOK(j)'
  <2>1. MountedOK(j) /\ MadeOK(j) /\ SeenOK(j)
    BY DEF SubmitsOK
  <2>2. MountedOK(j)'
    BY <1>1, <2>1 DEF MountedOK
  <2>3. MadeOK(j)' /\ SeenOK(j)'
    BY <1>1, <2>1, ZenonT(40) DEF MadeOK, SeenOK, Waiting
  <2> QED
    BY <2>2, <2>3
<1>3. SubmitsOK'
  BY <1>1, <1>2 DEF SubmitsOK
<1> QED
  BY <1>1, <1>3, SubmissionGate DEF TypesOK

LEMMA CreateProjectGate ==
  ASSUME GateInv, NEW i \in DOMAIN submits, CreateProject(i)
  PROVE  GateInv'
<1>1. PICK p \in Projects : /\ HomeOf[p] = submits[i].org /\ submits[i].stage = "project"
                            /\ existing' = existing \cup {p}
                            /\ submits' = [submits EXCEPT ![i] = [@ EXCEPT !.project = p,
                                                                           !.stage = "project made"]]
  BY DEF CreateProject
<1> DEFINE c == [submits[i] EXCEPT !.project = p, !.stage = "project made"]
<1>2. submits[i] \in Submission
  BY SubmissionsHaveTypes DEF GateInv
<1>3. /\ c \in Submission /\ c.made = submits[i].made /\ c.seen = submits[i].seen
      /\ c.mounted = submits[i].mounted /\ c.stage = "project made" /\ c.project = p
      /\ c.org = HomeOf[p]
  BY <1>1, <1>2 DEF Submission
<1>4. existing' \subseteq Projects /\ submits' = [submits EXCEPT ![i] = c]
  BY <1>1 DEF GateInv, TypesOK
<1> HIDE DEF c
<1> QED
  BY <1>1, <1>3, <1>4, ClosingGate, ZenonT(40) DEF CreateProject

LEMMA SubmissionFailsGate ==
  ASSUME GateInv, NEW i \in DOMAIN submits, SubmissionFails(i)
  PROVE  GateInv'
<1> DEFINE c == [submits[i] EXCEPT !.stage = "failed"]
<1>1. submits[i] \in Submission
  BY SubmissionsHaveTypes DEF GateInv
<1>2. /\ c \in Submission /\ c.made = submits[i].made /\ c.seen = submits[i].seen
      /\ c.mounted = submits[i].mounted /\ c.stage = "failed"
  BY <1>1 DEF Submission
<1>3. submits' = [submits EXCEPT ![i] = c]
  BY DEF SubmissionFails
<1> HIDE DEF c
<1> QED
  BY <1>2, <1>3, ClosingGate DEF SubmissionFails, GateInv, TypesOK

LEMMA ProjectMadeGate ==
  ASSUME GateInv, NEW i \in DOMAIN submits, ProjectMade(i)
  PROVE  GateInv'
<1> USE DEF GateInv
<1> DEFINE ended(j) == [submits[j] EXCEPT !.mounted = FALSE, !.stage = IF j = i THEN "done" ELSE @]
<1>1. submits' = [j \in DOMAIN submits |-> ended(j)]
  BY DEF ProjectMade
<1>2. ASSUME NEW j \in DOMAIN submits
      PROVE  /\ ended(j) \in Submission /\ ended(j).made = submits[j].made
             /\ ended(j).seen = submits[j].seen /\ ended(j).org = submits[j].org
             /\ ended(j).project = submits[j].project /\ ~ended(j).mounted
             /\ ended(j).stage \in {submits[j].stage, "done"}
  BY SubmissionsHaveTypes, ZenonT(40) DEF Submission
<1> HIDE DEF ended
<1>3. submits' \in Seq(Submission) /\ Fade
  <2>1. DOMAIN submits = 1 .. Len(submits) /\ Len(submits) \in Nat
    BY LenProperties DEF TypesOK
  <2>2. submits' \in [1 .. Len(submits) -> Submission]
    BY <1>1, <1>2, <2>1
  <2> QED
    BY <1>1, <1>2, <2>1, <2>2, SeqDef DEF Fade
<1>4. orgs' \in Query /\ orgs'.data = memberOf /\ memberOf \subseteq AllOrganizations
  BY DEF Query, TypesOK, ProjectMade
<1>5. form' \in [mounted : BOOLEAN, org : AllOrganizations \cup {Nil}]
  BY <1>4, RenderedType DEF ProjectMade
<1>6. projs' = [o \in AllOrganizations |-> projs'[o]] /\ existing \subseteq Projects
  BY DEF TypesOK, ProjectMade
<1>7. ASSUME NEW o \in AllOrganizations PROVE ReadOK(o)'
  <2>1. ReadOK(o)
    BY DEF TypesOK
  <2>2. projs'[o] = IF o \in memberOf THEN [data |-> {p \in existing : HomeOf[p] = o}, failed |-> FALSE]
                    ELSE projs[o]
    BY DEF ProjectMade, TypesOK
  <2> QED
    BY <1>6, <2>1, <2>2 DEF ReadOK
<1>8. location' \in Location /\ location'.path # "invite" /\ RouteOK'
  <2>1. PICK p \in Projects : p = submits[i].project /\ submits[i].org = HomeOf[p]
    BY DEF ProjectMade, SubmitsOK, MadeOK
  <2>2. location' = [path |-> "list", organization |-> HomeOf[p], project |-> p,
                     environment |-> Min(EnvironmentsOf[p]), live |-> TRUE, of |-> {}, typed |-> FALSE]
    BY <2>1 DEF ProjectMade
  <2> QED
    BY <2>2, FirstEnvironment DEF Location, RouteOK, StateOK
<1> QED
  BY <1>3, <1>4, <1>5, <1>6, <1>7, <1>8, RenderedKeepsSetup DEF ProjectMade, TypesOK, Reread

LEMMA StepGate == GateInv /\ [GateNext]_gateVars => GateInv'
<1> SUFFICES ASSUME GateInv, [GateNext]_gateVars PROVE GateInv'
  OBVIOUS
<1>1. CASE UNCHANGED gateVars
  BY <1>1, UnseenGate DEF gateVars
<1>9. CASE SetFilter \/ OpenSession \/ Navigate \/ TypeProject \/ TypeEnvironment
  BY <1>9, SetFilterGate, OpenSessionGate, NavigateGate, TypeProjectGate, TypeEnvironmentGate
<1>2. CASE Redirect \/ FollowLink \/ SwitchProject \/ LeaveInvitation
  BY <1>2, RedirectGate, FollowLinkGate, SwitchProjectGate, LeaveInvitationGate
<1>3. CASE LoadOrganizations \/ OrganizationsFail \/ SignIn \/ Submit
  BY <1>3, LoadOrganizationsGate, OrganizationsFailGate, SignInGate, SubmitGate
<1>4. ASSUME NEW o \in Given \cup Fresh, LoadProjects(o) PROVE GateInv'
  BY <1>4, LoadProjectsGate
<1>5. ASSUME NEW o \in Given \cup Fresh, Removed(o) PROVE GateInv'
  <2>1. memberOf \cap Fresh \subseteq memberOf'
    BY <1>5 DEF Removed
  <2> QED
    BY <1>5, <2>1, UnseenGate DEF Removed
<1>6. ASSUME NEW i \in DOMAIN submits,
             CreateOrganization(i) \/ OrganizationMade(i) \/ CreateProject(i) \/ ProjectMade(i)
             \/ SubmissionFails(i)
      PROVE  GateInv'
  BY <1>6, CreateOrganizationGate, OrganizationMadeGate, CreateProjectGate, ProjectMadeGate,
     SubmissionFailsGate
<1>7. CASE Claim \/ Preview \/ CookieChanges
  BY <1>7, UnseenGate DEF Claim, Preview, CookieChanges
<1>8. ASSUME NEW lost \in BOOLEAN, Accept(lost) PROVE GateInv'
  BY <1>8, AcceptGate
<1> QED
  BY <1>1, <1>2, <1>3, <1>4, <1>5, <1>6, <1>7, <1>8, <1>9 DEF GateNext

LEMMA GateInductive == GateSpec => []GateInv
BY InitGate, StepGate, PTL DEF GateSpec

-----------------------------------------------------------------------------
(* The theorems.                                                           *)

\* Whatever links are followed and projects typed while memberships end and
\* lists fail, a page of the console never shows a project with a session of
\* another or with illustrative state, nor with filters of another that the user
\* has not typed it over (WorkspaceGate and WorkspaceSelectionRedirect).
THEOREM RouteConsistency == GateSpec => []RouteIsOfProject
<1>1. GateInv => RouteIsOfProject
  <2> SUFFICES ASSUME GateInv, Screen = "page" PROVE location.live
    BY DEF GateInv, RouteOK, StateOK, RouteIsOfProject
  <2> QED
    BY ScreenIsPage DEF GateInv, RouteOK, SelectionIsCurrent
<1> QED
  BY GateInductive, <1>1, PTL

\* Once the setup knows of the organization it has created, no submission
\* creates another, however often it fails, is tried again, is unmounted or
\* comes back (WorkspaceSetup.handleSubmit).
THEOREM SetupReuse == GateSpec => []SetupReusesOrganization
<1>1. GateInv => SetupReusesOrganization
  BY DEF GateInv, SubmitsOK, SeenOK, SetupReusesOrganization
<1> QED
  BY GateInductive, <1>1, PTL

=============================================================================
