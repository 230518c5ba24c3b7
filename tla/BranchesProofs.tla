--------------------------- MODULE BranchesProofs ---------------------------
(***************************************************************************)
(* Proofs about Branches and its pickers, for any repositories and any     *)
(* number of queries, commands and steps of other processes.               *)
(***************************************************************************)
EXTENDS Branches, RetainingProofs, FiniteSetTheorems, SequenceTheorems

-----------------------------------------------------------------------------
(* Pickers.                                                                *)

\* Enter on the selected row enters an enabled item.
Selectable(p) == p.selected \in EnabledRows(p) \cup {NoRow}

LEMMA FirstIsOne ==
  ASSUME NEW rows \in SUBSET Nat
  PROVE  /\ First(rows) \in rows \cup {NoRow} /\ First(rows) \in Nat
         /\ rows # {} => First(rows) \in rows
  <1>1. CASE rows = {}
    BY <1>1 DEF First, NoRow
  <1>2. CASE rows # {}
    <2>1. PICK n \in rows : \A m \in rows : n <= m
      BY <1>2, LeastNatural
    <2>2. First(rows) = CHOOSE i \in rows : \A j \in rows : i <= j
      BY <1>2 DEF First
    <2>3. First(rows) \in rows
      BY <2>1, <2>2
    <2> QED BY <2>3
  <1> QED BY <1>1, <1>2

\* Bounded rows have a last one as well.
LEMMA LastOfRows ==
  ASSUME NEW n \in Nat, NEW rows \in SUBSET (1..n), rows # {}
  PROVE  \E i \in rows : \A j \in rows : i >= j
  <1> DEFINE T == {m \in Nat : \E i \in rows : m = n - i}
  <1>1. T \subseteq Nat /\ T # {}
    <2>1. PICK i \in rows : TRUE
      OBVIOUS
    <2>2. n - i \in T
      BY <2>1
    <2> QED BY <2>2
  <1>2. PICK m \in T : \A x \in T : m <= x
    <2> HIDE DEF T
    <2> QED BY <1>1, LeastNatural
  <1>3. PICK i \in rows : m = n - i
    BY <1>2
  <1>4. ASSUME NEW j \in rows PROVE i >= j
    <2>1. n - j \in T
      OBVIOUS
    <2>2. m <= n - j
      BY <1>2, <2>1
    <2> QED BY <1>3, <2>2
  <1> QED BY <1>4

LEMMA RowsOfASequence ==
  ASSUME NEW T, NEW s \in Seq(T)
  PROVE  Len(s) \in Nat /\ DOMAIN s = 1..Len(s)
  OBVIOUS

LEMMA PickerFields ==
  ASSUME NEW S, NEW p \in Pickers(S)
  PROVE  /\ p.items \in Seq(Items(S)) /\ p.query \in Texts \cup {""}
         /\ p.matches \in Seq(Items(S)) /\ p.selected \in Nat /\ p.offset \in Int
         /\ Len(p.matches) \in Nat /\ DOMAIN p.matches = 1..Len(p.matches)
         /\ DOMAIN p.matches \subseteq Nat
         /\ EnabledRows(p) \subseteq DOMAIN p.matches /\ EnabledRows(p) \subseteq Nat
  <1>1. /\ p.items \in Seq(Items(S)) /\ p.query \in Texts \cup {""}
        /\ p.matches \in Seq(Items(S)) /\ p.selected \in Nat /\ p.offset \in Int
    BY DEF Pickers
  <1>2. Len(p.matches) \in Nat /\ DOMAIN p.matches = 1..Len(p.matches)
    BY <1>1, RowsOfASequence
  <1>3. DOMAIN p.matches \subseteq Nat
    <2>1. 1..Len(p.matches) \subseteq Nat
      BY <1>2
    <2> QED BY <1>2, <2>1
  <1>4. EnabledRows(p) \subseteq DOMAIN p.matches
    BY DEF EnabledRows
  <1> QED BY <1>1, <1>2, <1>3, <1>4

LEMMA RankedTyped ==
  ASSUME NEW S, NEW p \in Pickers(S)
  PROVE  RankMatches(p) \in Pickers(S)
  <1> DEFINE m == Retained(p.items, {i \in DOMAIN p.items : Scores(p.query, p.items[i])})
  <1>1. m \in Seq(Items(S))
    <2> DEFINE kept == {i \in DOMAIN p.items : Scores(p.query, p.items[i])}
    <2>1. p.items \in Seq(Items(S))
      BY PickerFields
    <2> HIDE DEF kept
    <2> QED BY <2>1, RetainedElements
  <1>2. RankMatches(p) = [p EXCEPT !.matches = m]
    BY DEF RankMatches
  <1> HIDE DEF m
  <1> QED BY <1>1, <1>2 DEF Pickers

LEMMA NewPickerTyped ==
  ASSUME NEW S
  PROVE  NewPicker \in Pickers(S) /\ Selectable(NewPicker)
  <1>1. <<>> \in Seq(Items(S)) /\ "" \in Texts \cup {""} /\ 0 \in Nat /\ 1 \in Int
    OBVIOUS
  <1>2. NewPicker \in Pickers(S)
    BY <1>1 DEF NewPicker, Pickers, NoRow
  <1>3. NewPicker.selected = NoRow
    BY DEF NewPicker
  <1> QED BY <1>2, <1>3 DEF Selectable

LEMMA FirstSelected ==
  ASSUME NEW S, NEW p \in Pickers(S)
  PROVE  LET q == SelectFirstEnabled(p) IN q \in Pickers(S) /\ Selectable(q)
  <1> DEFINE k == First(EnabledRows(p))
             q == [p EXCEPT !.selected = k, !.offset = 1]
  <1>1. k \in EnabledRows(p) \cup {NoRow} /\ k \in Nat
    BY PickerFields, FirstIsOne DEF NoRow
  <1>2. SelectFirstEnabled(p) = q
    BY DEF SelectFirstEnabled
  <1> HIDE DEF k
  <1>3. q \in Pickers(S) /\ q.matches = p.matches /\ q.selected = k
    <2> DEFINE r == [p EXCEPT !.selected = k]
    <2>1. r \in Pickers(S) /\ r.matches = p.matches /\ r.selected = k
      BY <1>1 DEF Pickers
    <2>2. q = [r EXCEPT !.offset = 1]
      OBVIOUS
    <2> HIDE DEF r
    <2>3. 1 \in Int
      OBVIOUS
    <2> QED BY <2>1, <2>2, <2>3 DEF Pickers
  <1> HIDE DEF q
  <1> QED BY <1>1, <1>2, <1>3 DEF Selectable, EnabledRows

LEMMA ItemsSet ==
  ASSUME NEW S, NEW p \in Pickers(S), NEW items \in Seq(Items(S))
  PROVE  /\ [p EXCEPT !.items = items] \in Pickers(S)
         /\ SetItems(p, items) \in Pickers(S) /\ Selectable(SetItems(p, items))
         /\ Reconcile(p, items) \in Pickers(S) /\ Selectable(Reconcile(p, items))
  <1> DEFINE b == [p EXCEPT !.items = items]
             q == RankMatches(b)
  <1>1. b \in Pickers(S)
    BY DEF Pickers
  <1>2. q \in Pickers(S)
    <2> HIDE DEF b
    <2> QED BY <1>1, RankedTyped
  <1>3. SetItems(p, items) = SelectFirstEnabled(q)
    BY DEF SetItems
  <1> DEFINE kept == First({i \in EnabledRows(q) : SelectedIdentity(p) = IdentityAt(q, i)})
             top == First({i \in DOMAIN q.matches : TopIdentity(p) = IdentityAt(q, i)})
             last == IF q.matches = <<>> THEN 1 ELSE Len(q.matches)
             from == IF top = NoRow THEN p.offset ELSE top
             offset == IF from < last THEN from ELSE last
             r == [q EXCEPT !.selected = kept, !.offset = offset]
  <1>4. Reconcile(p, items) = IF kept = NoRow THEN SelectFirstEnabled(q) ELSE r
    BY DEF Reconcile
  <1> HIDE DEF q
  <1>5. kept \in EnabledRows(q) \cup {NoRow} /\ kept \in Nat
    BY <1>2, PickerFields, FirstIsOne DEF NoRow
  <1>6. offset \in Int
    <2>1. q.matches \in Seq(Items(S)) /\ p.offset \in Int
      BY <1>2, PickerFields
    <2>2. {i \in DOMAIN q.matches : TopIdentity(p) = IdentityAt(q, i)} \subseteq Nat
      BY <1>2, PickerFields
    <2>3. top \in Nat
      BY <2>2, FirstIsOne DEF NoRow
    <2> HIDE DEF top
    <2> QED BY <2>1, <2>3
  <1> HIDE DEF kept, offset
  <1>7. r \in Pickers(S) /\ r.matches = q.matches /\ r.selected = kept
    BY <1>2, <1>5, <1>6 DEF Pickers
  <1> HIDE DEF r
  <1>8. Selectable(r)
    BY <1>5, <1>7 DEF Selectable, EnabledRows
  <1> QED BY <1>1, <1>2, <1>3, <1>4, <1>7, <1>8, FirstSelected

LEMMA FilterTyped ==
  ASSUME NEW S, NEW p \in Pickers(S), NEW text \in Texts
  PROVE  Filter(p, text) \in Pickers(S) /\ Selectable(Filter(p, text))
  <1>1. [p EXCEPT !.query = text] \in Pickers(S)
    BY DEF Pickers
  <1> QED BY <1>1, RankedTyped, FirstSelected DEF Filter

LEMMA MoveTyped ==
  ASSUME NEW S, NEW p \in Pickers(S), Selectable(p), NEW down \in BOOLEAN
  PROVE  LET q == MoveSelection(p, down) IN q \in Pickers(S) /\ Selectable(q)
  <1> DEFINE enabled == EnabledRows(p)
             beyond == {i \in enabled : IF down THEN i > p.selected ELSE i < p.selected}
             nearest == CHOOSE i \in beyond : \A j \in beyond : IF down THEN i <= j ELSE i >= j
             k == IF enabled = {} \/ p.selected = NoRow THEN First(enabled)
                  ELSE IF beyond = {} THEN p.selected ELSE nearest
             q == [p EXCEPT !.selected = k]
             n == Viewport
             o == IF k # NoRow /\ k < p.offset THEN k
                  ELSE IF k # NoRow /\ k >= p.offset + n THEN k - n + 1
                  ELSE p.offset
  <1>1. /\ enabled \subseteq 1..Len(p.matches) /\ enabled \subseteq Nat /\ Len(p.matches) \in Nat
        /\ p.selected \in enabled \cup {NoRow} /\ p.offset \in Int
    BY PickerFields DEF Selectable
  <1>2. ASSUME beyond # {} PROVE nearest \in beyond
    <2>1. beyond \in SUBSET (1..Len(p.matches)) /\ beyond \subseteq Nat
      BY <1>1
    <2> HIDE DEF enabled, beyond
    <2>2. CASE down
      <3>1. PICK i \in beyond : \A j \in beyond : i <= j
        BY <1>2, <2>1, LeastNatural
      <3> QED BY <2>2, <3>1
    <2>3. CASE ~down
      <3>1. PICK i \in beyond : \A j \in beyond : i >= j
        BY <1>1, <1>2, <2>1, LastOfRows
      <3> QED BY <2>3, <3>1
    <2> QED BY <2>2, <2>3
  <1>3. k \in enabled \cup {NoRow} /\ k \in Nat
    <2>1. First(enabled) \in enabled \cup {NoRow}
      BY <1>1, FirstIsOne
    <2> HIDE DEF nearest
    <2>2. k \in enabled \cup {NoRow}
      BY <1>1, <1>2, <2>1
    <2> HIDE DEF k, enabled
    <2> QED BY <1>1, <2>2 DEF NoRow
  <1>4. MoveSelection(p, down) = Reveal(q)
    BY DEF MoveSelection
  <1> HIDE DEF k, enabled
  <1>5. /\ q \in Pickers(S) /\ q.matches = p.matches /\ q.selected = k /\ q.offset = p.offset
    BY <1>3 DEF Pickers
  <1> HIDE DEF q
  <1>6. o \in Int
    BY <1>1, <1>3, ViewportAssumption
  <1>7. Reveal(q) = [q EXCEPT !.offset = o]
    BY <1>5 DEF Reveal
  <1> HIDE DEF o
  <1> DEFINE r == [q EXCEPT !.offset = o]
  <1>8. r \in Pickers(S) /\ r.matches = p.matches /\ r.selected = k
    BY <1>5, <1>6 DEF Pickers
  <1> HIDE DEF r
  <1>9. Selectable(r)
    BY <1>3, <1>8 DEF Selectable, EnabledRows, enabled
  <1> QED BY <1>4, <1>7, <1>8, <1>9 DEF r

LEMMA WheelTyped ==
  ASSUME NEW S, NEW p \in Pickers(S), Selectable(p), NEW down \in BOOLEAN
  PROVE  LET q == Wheel(p, down) IN q \in Pickers(S) /\ Selectable(q)
  <1> DEFINE m == MaximumOffset(p)
             o == IF down THEN IF p.offset < m THEN p.offset + 1 ELSE m
                  ELSE IF p.offset > 1 THEN p.offset - 1 ELSE 1
             q == [p EXCEPT !.offset = o]
  <1>1. m \in Int
    <2>1. Len(p.matches) \in Nat
      BY PickerFields
    <2>2. Len(p.matches) \in Int /\ Viewport \in Int
      BY <2>1, ViewportAssumption
    <2> QED BY <2>2 DEF MaximumOffset
  <1> HIDE DEF m
  <1>2. o \in Int
    <2>1. p.offset \in Int
      BY PickerFields
    <2> QED BY <1>1, <2>1
  <1>3. Wheel(p, down) = q
    BY DEF Wheel, m
  <1> HIDE DEF o
  <1>4. q \in Pickers(S) /\ q.matches = p.matches /\ q.selected = p.selected
    BY <1>2 DEF Pickers
  <1> HIDE DEF q
  <1> QED BY <1>3, <1>4 DEF Selectable, EnabledRows

LEMMA ActivationsListed ==
  ASSUME NEW S, NEW p \in Pickers(S)
  PROVE  Activations(p) \subseteq S
  <1>1. p.matches \in Seq(Items(S))
    BY PickerFields
  <1>2. \A i \in DOMAIN p.matches : p.matches[i] \in Items(S)
    BY <1>1
  <1>3. \A x \in Items(S) : x.payload \in S
    BY DEF Items
  <1>4. \A i \in DOMAIN p.matches : p.matches[i].payload \in S
    BY <1>2, <1>3
  <1> QED BY <1>4 DEF Activations

-----------------------------------------------------------------------------
(* Orders.                                                                 *)

\* before is a strict total order of a finite set.
Orders(before) ==
  /\ IsFiniteSet(DOMAIN before)
  /\ \A x \in DOMAIN before : before[x] \subseteq DOMAIN before /\ x \notin before[x]
  /\ \A x, y \in DOMAIN before : x # y => x \in before[y] \/ y \in before[x]
  /\ \A x, y \in DOMAIN before : x \in before[y] => before[x] \subseteq before[y]

\* The sequence Sorted makes of an order holds every element once.
LEMMA SortedLists ==
  ASSUME NEW before, Orders(before)
  PROVE  /\ DOMAIN Sorted(before) = 1..Cardinality(DOMAIN before)
         /\ \A i \in DOMAIN Sorted(before) :
              /\ Sorted(before)[i] \in DOMAIN before
              /\ Cardinality(before[Sorted(before)[i]]) = i - 1
         /\ Sorted(before) \in Seq(DOMAIN before)
  <1> DEFINE S == DOMAIN before
             n == Cardinality(S)
             rank == [x \in S |-> Cardinality(before[x]) + 1]
  <1>1. n \in Nat /\ IsFiniteSet(S)
    BY FS_CardinalityType DEF Orders
  <1>2. ASSUME NEW x \in S
        PROVE  IsFiniteSet(before[x]) /\ Cardinality(before[x]) \in Nat /\ Cardinality(before[x]) < n
    <2>1. before[x] \in SUBSET (S \ {x})
      BY DEF Orders
    <2>2. IsFiniteSet(S \ {x}) /\ Cardinality(S \ {x}) = n - 1
      BY <1>1, FS_RemoveElement
    <2>3. IsFiniteSet(before[x]) /\ Cardinality(before[x]) <= n - 1
      BY <2>1, <2>2, FS_Subset
    <2>4. Cardinality(before[x]) \in Nat
      BY <2>3, FS_CardinalityType
    <2> QED BY <1>1, <2>3, <2>4
  <1>3. ASSUME NEW x \in S, NEW y \in S, x \in before[y]
        PROVE  Cardinality(before[x]) < Cardinality(before[y])
    <2>1. before[x] \in SUBSET before[y] /\ before[x] # before[y]
      BY <1>3 DEF Orders
    <2>2. Cardinality(before[x]) <= Cardinality(before[y]) /\ Cardinality(before[x]) # Cardinality(before[y])
      BY <1>2, <2>1, FS_Subset
    <2> QED BY <1>2, <2>2
  <1>4. rank \in [S -> 1..n]
    BY <1>1, <1>2
  <1>5. \A x, y \in S : rank[x] = rank[y] => x = y
    <2> SUFFICES ASSUME NEW x \in S, NEW y \in S, x # y PROVE rank[x] # rank[y]
      OBVIOUS
    <2>1. x \in before[y] \/ y \in before[x]
      BY DEF Orders
    <2>2. Cardinality(before[x]) < Cardinality(before[y]) \/ Cardinality(before[y]) < Cardinality(before[x])
      BY <1>3, <2>1
    <2> QED BY <1>2, <2>2
  <1>6. rank \in Injection(S, 1..n)
    <2> HIDE DEF rank
    <2> QED BY <1>4, <1>5 DEF Injection, IsInjective
  <1>7. IsFiniteSet(1..n) /\ Cardinality(1..n) = n
    BY <1>1, FS_Interval
  <1>8. rank \in Surjection(S, 1..n)
    <2> HIDE DEF rank, S
    <2> QED BY <1>6, <1>7, FS_Injection
  <1>9. ASSUME NEW i \in 1..n PROVE \E x \in S : Cardinality(before[x]) = i - 1
    <2>1. PICK x \in S : rank[x] = i
      <3> HIDE DEF rank
      <3> QED BY <1>8 DEF Surjection
    <2>2. Cardinality(before[x]) = i - 1
      BY <1>1, <1>2, <2>1
    <2> QED BY <2>2
  <1>10. Sorted(before) = [i \in 1..n |-> CHOOSE x \in S : Cardinality(before[x]) = i - 1]
    BY DEF Sorted
  <1>11. \A i \in 1..n : Sorted(before)[i] \in S /\ Cardinality(before[Sorted(before)[i]]) = i - 1
    BY <1>9, <1>10
  <1>12. DOMAIN Sorted(before) = 1..n
    BY <1>10
  <1>13. Sorted(before) \in Seq(S)
    <2> DEFINE q == [i \in 1..n |-> CHOOSE x \in S : Cardinality(before[x]) = i - 1]
    <2>1. \A i \in 1..n : q[i] \in S
      BY <1>10, <1>11
    <2> HIDE DEF S, n
    <2>2. q \in [1..n -> S]
      BY <2>1
    <2>3. q \in Seq(S)
      <3> HIDE DEF q
      <3> QED BY <1>1, <2>2
    <2> QED BY <1>10, <2>3
  <1> QED BY <1>11, <1>12, <1>13

LEMMA PositionsDiffer ==
  ASSUME NEW r \in Refs
  PROVE  /\ Position(r) \in Nat
         /\ \A q \in Refs : q # r => Position(q) # Position(r)
  <1>1. RefNames \in Seq(Refs)
    BY BranchesAssumption
  <1>2. \A q \in Refs : \E i \in DOMAIN RefNames : RefNames[i] = q
    BY DEF Refs, ToSet
  <1>3. \A q \in Refs : Position(q) \in DOMAIN RefNames /\ RefNames[Position(q)] = q
    BY <1>2 DEF Position
  <1>4. DOMAIN RefNames \subseteq Nat
    <2>1. Len(RefNames) \in Nat /\ DOMAIN RefNames = 1..Len(RefNames)
      BY <1>1, RowsOfASequence
    <2>2. 1..Len(RefNames) \subseteq Nat
      BY <2>1
    <2> QED BY <2>1, <2>2
  <1> QED BY <1>3, <1>4

LEMMA RanksTyped == \A r \in Refs : Rank(r) \in Nat
  BY BranchesAssumption DEF Rank

\* The parts both orders compare.
LEMMA RecordsDiffer ==
  ASSUME NEW kinds, NEW found \in Lists(kinds), NEW x \in found
  PROVE  /\ x.ref \in Refs /\ x.commit \in Commits /\ x \in RefRecords(kinds)
         /\ Time[x.commit] \in Int /\ Rank(x.ref) \in Nat /\ Position(x.ref) \in Nat
         /\ \A y \in found : x # y => Position(x.ref) # Position(y.ref)
  <1>1. x \in RefRecords(kinds) /\ \A y \in found : y \in RefRecords(kinds) /\ (x.ref = y.ref => x = y)
    BY DEF Lists
  <1>2. \A y \in RefRecords(kinds) : y.ref \in Refs /\ y.commit \in Commits
    BY DEF RefRecords, OfKind
  <1>3. Time[x.commit] \in Int
    BY <1>1, <1>2, BranchesAssumption
  <1>4. \A y \in found : x # y => x.ref # y.ref /\ x.ref \in Refs /\ y.ref \in Refs
    BY <1>1, <1>2
  <1> QED BY <1>1, <1>2, <1>3, <1>4, PositionsDiffer, RanksTyped

LEMMA ListsSubset ==
  ASSUME NEW kinds, NEW found \in Lists(kinds), NEW listed \in SUBSET found
  PROVE  listed \in Lists(kinds)
  <1>1. IsFiniteSet(found) /\ found \in SUBSET RefRecords(kinds)
    BY DEF Lists
  <1>2. IsFiniteSet(listed)
    BY <1>1, FS_Subset
  <1> QED BY <1>1, <1>2 DEF Lists

LEMMA RecencyOrders ==
  ASSUME NEW kinds, NEW listed \in Lists(kinds)
  PROVE  Orders([x \in listed |-> {y \in listed : ByRecency(y, x)}])
  <1> DEFINE before == [x \in listed |-> {y \in listed : ByRecency(y, x)}]
  <1>1. IsFiniteSet(listed)
    BY DEF Lists
  <1>2. \A x \in listed : ~ByRecency(x, x)
    BY RecordsDiffer DEF ByRecency
  <1>3. \A x, y \in listed : x # y => ByRecency(x, y) \/ ByRecency(y, x)
    BY RecordsDiffer DEF ByRecency
  <1>4. \A x, y, z \in listed : ByRecency(x, y) /\ ByRecency(y, z) => ByRecency(x, z)
    BY RecordsDiffer DEF ByRecency
  <1> QED BY <1>1, <1>2, <1>3, <1>4, Zenon DEF Orders

LEMMA KindOrders ==
  ASSUME NEW kinds, NEW listed \in Lists(kinds)
  PROVE  Orders([x \in listed |-> {y \in listed : ByKind(y, x)}])
  <1> DEFINE before == [x \in listed |-> {y \in listed : ByKind(y, x)}]
  <1>1. IsFiniteSet(listed)
    BY DEF Lists
  <1>2. \A x \in listed : ~ByKind(x, x)
    BY RecordsDiffer DEF ByKind
  <1>3. \A x, y \in listed : x # y => ByKind(x, y) \/ ByKind(y, x)
    BY RecordsDiffer DEF ByKind
  <1>4. \A x, y, z \in listed : ByKind(x, y) /\ ByKind(y, z) => ByKind(x, z)
    BY RecordsDiffer DEF ByKind
  <1> QED BY <1>1, <1>2, <1>3, <1>4, Zenon DEF Orders

-----------------------------------------------------------------------------
(* What the pickers list.                                                  *)

LEMMA RefsAreFinite == IsFiniteSet(Refs)
  <1>1. RefNames \in Seq(Refs)
    BY BranchesAssumption
  <1>2. Len(RefNames) \in Nat /\ DOMAIN RefNames = 1..Len(RefNames)
    BY <1>1, RowsOfASequence
  <1>3. IsFiniteSet(1..Len(RefNames))
    BY <1>2, FS_Interval
  <1>4. RefNames \in Surjection(DOMAIN RefNames, Refs)
    <2>1. RefNames \in [DOMAIN RefNames -> Refs]
      BY <1>1
    <2>2. \A r \in Refs : \E i \in DOMAIN RefNames : RefNames[i] = r
      BY DEF Refs, ToSet
    <2> QED BY <2>1, <2>2 DEF Surjection
  <1> QED BY <1>2, <1>3, <1>4, FS_Surjection

LEMMA ListedTyped ==
  ASSUME repo \in Repositories, NEW kinds \in SUBSET {"Local", "Remote", "Tag"}
  PROVE  ListedRefs(kinds) \in Lists(kinds)
  <1> DEFINE there == {q \in Refs : repo.refs[q] # Gone /\ Kind[q] \in kinds}
  <1>1. repo.refs \in [Refs -> Commits \cup {Gone}]
    BY DEF Repositories
  <1>2. IsFiniteSet(there)
    BY RefsAreFinite, FS_Subset
  <1>3. ListedRefs(kinds) \subseteq RefRecords(kinds)
    <2>1. ASSUME NEW r \in Refs, repo.refs[r] # Gone, Kind[r] \in kinds
          PROVE  [ref |-> r, commit |-> repo.refs[r]] \in RefRecords(kinds)
      <3>1. r \in UNION {OfKind(k) : k \in kinds}
        BY <2>1 DEF OfKind
      <3>2. repo.refs[r] \in Commits
        BY <1>1, <2>1
      <3> QED BY <3>1, <3>2 DEF RefRecords
    <2> QED BY <2>1 DEF ListedRefs
  <1>4. \A x, y \in ListedRefs(kinds) : x.ref = y.ref => x = y
    BY DEF ListedRefs
  <1>5. IsFiniteSet(ListedRefs(kinds))
    <2> DEFINE f == [r \in there |-> [ref |-> r, commit |-> repo.refs[r]]]
    <2>1. ListedRefs(kinds) = {f[r] : r \in there}
      BY DEF ListedRefs
    <2>2. f \in Surjection(there, ListedRefs(kinds))
      <3>1. f = [r \in there |-> f[r]]
        OBVIOUS
      <3> HIDE DEF f, there
      <3>2. f \in [there -> ListedRefs(kinds)]
        BY <2>1, <3>1
      <3>3. \A x \in ListedRefs(kinds) : \E r \in there : f[r] = x
        BY <2>1
      <3> QED BY <3>2, <3>3 DEF Surjection
    <2> HIDE DEF f, there
    <2> QED BY <1>2, <2>2, FS_Surjection
  <1> QED BY <1>3, <1>4, <1>5 DEF Lists

LEMMA SortedTyped ==
  ASSUME NEW kinds, NEW listed \in Lists(kinds), NEW before, DOMAIN before = listed, Orders(before)
  PROVE  /\ DOMAIN Sorted(before) = 1..Len(Sorted(before)) /\ Len(Sorted(before)) \in Nat
         /\ \A i \in DOMAIN Sorted(before) :
              /\ Sorted(before)[i] \in listed /\ Sorted(before)[i] \in RefRecords(kinds)
              /\ Sorted(before)[i].ref \in Refs /\ Sorted(before)[i].commit \in Commits
  <1>1. Sorted(before) \in Seq(listed)
    BY SortedLists
  <1>2. \A x \in listed : x \in RefRecords(kinds) /\ x.ref \in Refs /\ x.commit \in Commits
    BY RecordsDiffer
  <1> QED BY <1>1, <1>2

LEMMA BranchItemsTyped ==
  ASSUME NEW purpose, NEW loaded \in Lists(BranchKinds), NEW s
  PROVE  BranchItems(purpose, loaded, s) \in Seq(Items(RefRecords(BranchKinds)))
  <1> DEFINE listed == {b \in loaded : purpose = "Delete" =>
                                         Kind[b.ref] = "Local" /\ b.ref # s.head.name}
             before == [x \in listed |-> {y \in listed : ByRecency(y, x)}]
             order  == Sorted(before)
             Item(x) == [identity |-> x.ref, payload |-> x,
                         enabled |-> purpose = "Checkout" => x.ref \notin {s.head.name, s.upstream}]
             items  == [i \in DOMAIN order |-> Item(order[i])]
  <1>1. listed \in Lists(BranchKinds)
    BY ListsSubset
  <1>2. Orders(before) /\ DOMAIN before = listed
    <2> HIDE DEF listed
    <2> QED BY <1>1, RecencyOrders
  <1>3. BranchItems(purpose, loaded, s) = items
    BY DEF BranchItems
  <1> HIDE DEF listed, before
  <1>4. /\ DOMAIN order = 1..Len(order) /\ Len(order) \in Nat
        /\ \A i \in DOMAIN order : order[i] \in RefRecords(BranchKinds) /\ order[i].ref \in Refs
    BY <1>1, <1>2, SortedTyped
  <1> HIDE DEF order
  <1>5. \A x \in RefRecords(BranchKinds) : x.ref \in Refs => Item(x) \in Items(RefRecords(BranchKinds))
    BY DEF Items
  <1> HIDE DEF Item
  <1>6. items \in [1..Len(order) -> Items(RefRecords(BranchKinds))]
    BY <1>4, <1>5
  <1> HIDE DEF items
  <1> QED BY <1>3, <1>4, <1>6

LEMMA MergeItemsTyped ==
  ASSUME NEW loaded \in Lists(RefKinds), NEW s \in Snapshots
  PROVE  MergeItems(loaded, s) \in Seq(Items(MergePayloads))
  <1> DEFINE listed == {r \in loaded : r.ref \notin {s.head.name, s.upstream}}
             before == [x \in listed |-> {y \in listed : ByKind(y, x)}]
             order  == Sorted(before)
             Payload(x) == [ref |-> x.ref, commit |-> x.commit, head |-> s.head]
             Item(x) == [identity |-> x.ref, payload |-> Payload(x),
                         enabled |-> ~Unborn(s.head) /\ s.op = None]
             items  == [i \in DOMAIN order |-> Item(order[i])]
  <1>1. listed \in Lists(RefKinds)
    BY ListsSubset
  <1>2. Orders(before) /\ DOMAIN before = listed
    <2> HIDE DEF listed
    <2> QED BY <1>1, KindOrders
  <1>3. MergeItems(loaded, s) = items
    BY DEF MergeItems
  <1> HIDE DEF listed, before
  <1>4. /\ DOMAIN order = 1..Len(order) /\ Len(order) \in Nat
        /\ \A i \in DOMAIN order :
             /\ order[i] \in RefRecords(RefKinds) /\ order[i].ref \in Refs /\ order[i].commit \in Commits
    BY <1>1, <1>2, SortedTyped
  <1> HIDE DEF order
  <1>5. s.head \in HeadStates
    BY DEF Snapshots
  <1>6. \A x : x.ref \in Refs /\ x.commit \in Commits => Payload(x) \in MergePayloads
    BY <1>5 DEF MergePayloads
  <1> HIDE DEF Payload
  <1>7. \A x \in RefRecords(RefKinds) :
          x.ref \in Refs /\ x.commit \in Commits => Item(x) \in Items(MergePayloads)
    BY <1>6 DEF Items
  <1> HIDE DEF Item
  <1>8. items \in [1..Len(order) -> Items(MergePayloads)]
    BY <1>4, <1>7
  <1> HIDE DEF items
  <1> QED BY <1>3, <1>4, <1>8

LEMMA RemoteItemsTyped ==
  ASSUME NEW found \in SUBSET Remotes
  PROVE  RemoteItems(found) \in Seq(Items(Remotes))
  <1> DEFINE order == SetToSeq(found)
             n == Cardinality(found)
             Item(x) == [identity |-> x, payload |-> x, enabled |-> TRUE]
             items == [i \in DOMAIN order |-> Item(order[i])]
  <1>1. IsFiniteSet(found) /\ n \in Nat /\ ExistsBijection(1..n, found)
    <2>1. IsFiniteSet(Remotes)
      BY BranchesAssumption
    <2>2. IsFiniteSet(found)
      BY <2>1, FS_Subset
    <2> QED BY <2>2, FS_CardinalityType
  <1>2. \E f \in [1..n -> found] : IsInjective(f)
    <2>1. PICK f : f \in Bijection(1..n, found)
      BY <1>1 DEF ExistsBijection
    <2> QED BY <2>1 DEF Bijection, Injection
  <1>3. order \in [1..n -> found]
    BY <1>2 DEF SetToSeq
  <1>4. RemoteItems(found) = items
    BY DEF RemoteItems
  <1> HIDE DEF order, n
  <1>5. \A x \in Remotes : Item(x) \in Items(Remotes)
    BY DEF Items
  <1> HIDE DEF Item
  <1>6. items \in [1..n -> Items(Remotes)]
    BY <1>3, <1>5
  <1> HIDE DEF items
  <1> QED BY <1>1, <1>4, <1>6

-----------------------------------------------------------------------------
(* Queries on their way.                                                   *)

IsLoad(e) == e.kind \in {"Loaded", "LoadFailed"}

\* A query is at one place at a time: to be sent, with the worker or answered.
QueriesOnce ==
  /\ \A i, j \in DOMAIN requests :
       IsQuery(requests[i]) /\ IsQuery(requests[j]) /\ requests[i].query = requests[j].query => i = j
  /\ \A i, j \in DOMAIN events :
       IsLoad(events[i]) /\ IsLoad(events[j]) /\ events[i].query = events[j].query => i = j
  /\ \A i \in DOMAIN requests, j \in DOMAIN events :
       IsQuery(requests[i]) /\ IsLoad(events[j]) => requests[i].query # events[j].query
  /\ \A s \in Slots :
       pending[s] # 0 =>
         /\ \A i \in DOMAIN requests : IsQuery(requests[i]) => requests[i].query # pending[s]
         /\ \A i \in DOMAIN events : IsLoad(events[i]) => events[i].query # pending[s]

\* Every query on its way was given its number.
QueriesNumbered ==
  /\ \A i \in DOMAIN requests : IsQuery(requests[i]) => requests[i].query \in 1..(nextQuery - 1)
  /\ \A i \in DOMAIN events : IsLoad(events[i]) => events[i].query \in 1..(nextQuery - 1)
  /\ \A s \in Slots : pending[s] < nextQuery
  /\ nextQuery <= MaxQueries + 1

\* An answer on its way is the one the query got.
AnswersKept ==
  \A i \in DOMAIN events :
    events[i].kind = "Loaded" => events[i].found = answered[events[i].query]

\* The query of the open modal asks for what that modal shows.
SlotsAgree ==
  SlotOf(modal) # None =>
    /\ modal.query < nextQuery
    /\ \A i \in DOMAIN requests :
         IsQuery(requests[i]) /\ requests[i].query = modal.query => requests[i].slot = SlotOf(modal)
    /\ \A i \in DOMAIN events :
         IsLoad(events[i]) /\ events[i].query = modal.query => events[i].slot = SlotOf(modal)

\* A merge was verified on a branch with commits, and the HEAD keeps some.
MergeHasHead == job.kind = "Merge" => HeadCommit # Gone

IInv ==
  /\ TypeOK /\ MergeHasHead
  /\ QueriesOnce /\ QueriesNumbered /\ AnswersKept /\ SlotsAgree
  /\ PickerShowsItsAnswer /\ LoadingIsAnswered

-----------------------------------------------------------------------------
(* From the choice to Git.                                                 *)

\* While a verified command waits for Git, what was verified holds.
JobVerified == job # NoCommand => Verifies(job)

\* A forced deletion on its way was confirmed.
Forced(a) == a.kind = "Delete" /\ a.force
WasConfirmed(a) == Deletion(a) \in confirmed
ForcedWereConfirmed ==
  /\ \A i \in DOMAIN queued : Forced(queued[i]) => WasConfirmed(queued[i])
  /\ \A i \in DOMAIN requests : Forced(requests[i]) => WasConfirmed(requests[i])
  /\ Forced(job) => WasConfirmed(job)

IInvGit == IInv /\ JobVerified /\ ForcedWereConfirmed

-----------------------------------------------------------------------------
(* Types of the repository, and what Git makes of it.                      *)

LEMMA Names ==
  /\ Branches \subseteq Refs /\ OfKind("Remote") \subseteq Refs
  /\ Detached \notin Refs /\ None \notin Refs
  /\ Gone \notin Commits /\ Gone \notin Refs
  /\ \A k : OfKind(k) \subseteq Refs
  BY BranchesAssumption DEF Branches, OfKind

LEMMA RepositoryFields ==
  ASSUME NEW r \in Repositories
  PROVE  /\ r.refs \in [Refs -> Commits \cup {Gone}] /\ r.branch \in Branches \cup {Detached}
         /\ r.at \in Commits /\ r.op \in Operations
         /\ r.tracks \in [Branches -> OfKind("Remote") \cup {None}]
  BY DEF Repositories

LEMMA SnapshotTyped ==
  ASSUME NEW r \in Repositories
  PROVE  /\ HeadState(r) \in HeadStates /\ Snapshot(r) \in Snapshots
         /\ HeadState(r).name = r.branch
         /\ r.branch = Detached => HeadState(r).commit \in Commits
         /\ r.branch # Detached => HeadState(r).commit = r.refs[r.branch]
  <1>1. /\ r.refs \in [Refs -> Commits \cup {Gone}] /\ r.branch \in Branches \cup {Detached}
        /\ r.at \in Commits /\ r.op \in Operations
        /\ r.tracks \in [Branches -> OfKind("Remote") \cup {None}]
    BY RepositoryFields
  <1>2. /\ HeadState(r).name = r.branch
        /\ HeadState(r).commit = IF r.branch = Detached THEN r.at ELSE r.refs[r.branch]
    BY DEF HeadState
  <1>3. r.branch # Detached => r.branch \in Refs /\ r.refs[r.branch] \in Commits \cup {Gone}
    BY <1>1, Names
  <1>4. HeadState(r) \in HeadStates
    BY <1>1, <1>3 DEF HeadState, HeadStates
  <1>5. (IF r.branch = Detached THEN None ELSE r.tracks[r.branch]) \in OfKind("Remote") \cup {None}
    BY <1>1
  <1>6. Snapshot(r) \in Snapshots
    <2> DEFINE up == IF r.branch = Detached THEN None ELSE r.tracks[r.branch]
    <2>1. Snapshot(r) = [head |-> HeadState(r), op |-> r.op, upstream |-> up]
      BY DEF Snapshot
    <2>2. up \in OfKind("Remote") \cup {None}
      BY <1>5
    <2> HIDE DEF up
    <2> QED BY <1>1, <1>4, <2>1, <2>2 DEF Snapshots
  <1> QED BY <1>1, <1>2, <1>3, <1>4, <1>6

LEMMA CommandFields ==
  ASSUME NEW a \in Commands
  PROVE  /\ a.kind \in {"Checkout", "Create", "Delete", "Merge", "SyncTo", "AbortMerge", "Fetch"}
         /\ a.kind = "Checkout" => a.ref \in UNION {OfKind(k) : k \in BranchKinds} /\ a.commit \in Commits
         /\ a.kind = "Create" => a.name \in Branches /\ a.start \in Starts
         /\ a.kind = "Delete" => a.ref \in Refs /\ a.commit \in Commits /\ a.force \in BOOLEAN
         /\ a.kind = "Merge" => a.ref \in Refs /\ a.commit \in Commits /\ a.head \in HeadStates
         /\ a # NoCommand /\ ~IsQuery(a)
  <1>1. a.kind # None /\ a.kind # "Query"
    BY DEF Commands, None
  <1>2. a # NoCommand /\ ~IsQuery(a)
    BY <1>1 DEF NoCommand, IsQuery
  <1>3. a.kind \in {"Checkout", "Create", "Delete", "Merge", "SyncTo", "AbortMerge", "Fetch"}
    BY DEF Commands
  <1>4. a.kind = "Checkout" => a.ref \in UNION {OfKind(k) : k \in BranchKinds} /\ a.commit \in Commits
    BY DEF Commands
  <1>5. a.kind = "Create" => a.name \in Branches /\ a.start \in Starts
    BY DEF Commands
  <1>6. a.kind = "Delete" => a.ref \in Refs /\ a.commit \in Commits /\ a.force \in BOOLEAN
    BY DEF Commands
  <1>7. a.kind = "Merge" => a.ref \in Refs /\ a.commit \in Commits /\ a.head \in HeadStates
    BY DEF Commands
  <1> QED BY <1>2, <1>3, <1>4, <1>5, <1>6, <1>7

LEMMA StartFields ==
  ASSUME NEW s \in Starts
  PROVE  /\ s.from \in {"Head", "Branch"}
         /\ s.from = "Head" => s.head \in HeadStates /\ s.head.commit \in Commits \cup {Gone}
         /\ s.from = "Branch" => s.ref \in Refs /\ s.commit \in Commits
  BY DEF Starts, HeadStates

\* The ways a step changes the repository.
LEMMA RepositoryChanges ==
  ASSUME NEW r \in Repositories
  PROVE  /\ \A ref \in Refs, c \in Commits \cup {Gone} : [r EXCEPT !.refs[ref] = c] \in Repositories
         /\ \A b \in Branches : [r EXCEPT !.branch = b] \in Repositories
         /\ \A c \in Commits : [r EXCEPT !.at = c] \in Repositories
         /\ \A c \in Commits : [r EXCEPT !.branch = Detached, !.at = c] \in Repositories
         /\ \A op \in Operations : [r EXCEPT !.op = op] \in Repositories
         /\ \A b \in Branches, up \in OfKind("Remote") \cup {None} :
              [r EXCEPT !.tracks[b] = up] \in Repositories
  <1>1. ASSUME NEW ref \in Refs, NEW c \in Commits \cup {Gone}
        PROVE  [r EXCEPT !.refs[ref] = c] \in Repositories
    <2> DEFINE refs == [r.refs EXCEPT ![ref] = c]
    <2>1. refs \in [Refs -> Commits \cup {Gone}]
      BY RepositoryFields
    <2>2. [r EXCEPT !.refs[ref] = c] = [r EXCEPT !.refs = refs]
      OBVIOUS
    <2> HIDE DEF refs
    <2> QED BY <2>1, <2>2 DEF Repositories
  <1>2. ASSUME NEW b \in Branches, NEW up \in OfKind("Remote") \cup {None}
        PROVE  [r EXCEPT !.tracks[b] = up] \in Repositories
    <2> DEFINE tracks == [r.tracks EXCEPT ![b] = up]
    <2>1. tracks \in [Branches -> OfKind("Remote") \cup {None}]
      BY RepositoryFields
    <2>2. [r EXCEPT !.tracks[b] = up] = [r EXCEPT !.tracks = tracks]
      OBVIOUS
    <2> HIDE DEF tracks
    <2> QED BY <2>1, <2>2 DEF Repositories
  <1>3. \A b \in Branches : [r EXCEPT !.branch = b] \in Repositories
    BY DEF Repositories
  <1>4. \A c \in Commits : [r EXCEPT !.at = c] \in Repositories
    BY DEF Repositories
  <1>5. \A c \in Commits : [r EXCEPT !.branch = Detached, !.at = c] \in Repositories
    BY DEF Repositories
  <1>6. \A op \in Operations : [r EXCEPT !.op = op] \in Repositories
    BY DEF Repositories
  <1> QED BY <1>1, <1>2, <1>3, <1>4, <1>5, <1>6

LEMMA CreatedTyped ==
  ASSUME repo \in Repositories, NEW b \in Branches, NEW c \in Commits \cup {Gone},
         NEW up \in OfKind("Remote") \cup {None}
  PROVE  /\ Created(b, c, up) \in Repositories
         /\ Created(b, c, up).branch = b /\ Created(b, c, up).refs[b] = c
         /\ HeadState(Created(b, c, up)) = [name |-> b, commit |-> c]
  <1> DEFINE r == [repo EXCEPT !.refs[b] = c]
             s == [r EXCEPT !.branch = b]
             t == [s EXCEPT !.tracks[b] = up]
  <1>1. b \in Refs /\ b # Detached
    BY Names
  <1>2. r \in Repositories
    BY <1>1, RepositoryChanges
  <1>3. s \in Repositories
    <2> HIDE DEF r
    <2> QED BY <1>2, RepositoryChanges
  <1>4. t \in Repositories
    <2> HIDE DEF s
    <2> QED BY <1>3, RepositoryChanges
  <1>5. repo.refs \in [Refs -> Commits \cup {Gone}] /\ repo \in Repositories
    BY RepositoryFields
  <1>6. Created(b, c, up) = t
    BY <1>5 DEF Created, Repositories
  <1>7. t.branch = b /\ t.refs[b] = c
    BY <1>1, <1>5 DEF Repositories
  <1> HIDE DEF t
  <1> QED BY <1>1, <1>4, <1>6, <1>7 DEF HeadState

LEMMA MovedHeadTyped ==
  ASSUME repo \in Repositories, NEW c \in Commits
  PROVE  /\ MovedHead(c) \in Repositories
         /\ HeadState(MovedHead(c)) = [name |-> repo.branch, commit |-> c]
  <1>1. repo.refs \in [Refs -> Commits \cup {Gone}] /\ repo.branch \in Branches \cup {Detached}
    BY RepositoryFields
  <1>2. repo.branch # Detached => repo.branch \in Refs
    BY <1>1, Names
  <1>3. MovedHead(c) \in Repositories
    BY <1>2, RepositoryChanges DEF MovedHead
  <1>4. CASE repo.branch = Detached
    <2> DEFINE r == [repo EXCEPT !.at = c]
    <2>1. MovedHead(c) = r
      BY <1>4 DEF MovedHead
    <2>2. r.branch = repo.branch /\ r.at = c
      BY DEF Repositories
    <2> HIDE DEF r
    <2> QED BY <1>3, <1>4, <2>1, <2>2 DEF HeadState
  <1>5. CASE repo.branch # Detached
    <2> DEFINE r == [repo EXCEPT !.refs[repo.branch] = c]
    <2>1. MovedHead(c) = r
      BY <1>5 DEF MovedHead
    <2>2. r.branch = repo.branch /\ r.refs[repo.branch] = c
      BY <1>1, <1>2, <1>5 DEF Repositories
    <2> HIDE DEF r
    <2> QED BY <1>3, <1>5, <2>1, <2>2 DEF HeadState
  <1> QED BY <1>4, <1>5

\* A commit merged into HEAD is an ancestor of what HEAD becomes.
LEMMA MergeTyped ==
  ASSUME repo \in Repositories, HeadCommit # Gone,
         NEW a \in Commands, a.kind = "Merge", NEW r \in GitMerge(a)
  PROVE  /\ r \in Repositories /\ HeadState(r).name = repo.branch
         /\ r = repo \/ r.op = "Merge" \/ repo.refs[a.ref] \in Ancestors[HeadState(r).commit]
  <1> DEFINE c == repo.refs[a.ref]
             h == HeadCommit
             m == MergeOf[{h, c}]
  <1>1. repo.refs \in [Refs -> Commits \cup {Gone}] /\ a.ref \in Refs
    BY RepositoryFields, CommandFields
  <1>2. h \in Commits
    BY SnapshotTyped DEF HeadCommit, HeadStates
  <1>3. repo.op = None /\ c \in Commits
    BY <1>1 DEF GitMerge
  <1>4. CASE c \in Ancestors[h]
    BY <1>3, <1>4, SnapshotTyped DEF GitMerge
  <1>5. CASE c \notin Ancestors[h] /\ h \in Ancestors[c]
    <2>1. r = MovedHead(c)
      BY <1>3, <1>5 DEF GitMerge
    <2>2. r \in Repositories /\ HeadState(r).name = repo.branch /\ HeadState(r).commit = c
      BY <1>3, <2>1, MovedHeadTyped
    <2>3. c \in Ancestors[c]
      BY <1>3, BranchesAssumption
    <2> QED BY <2>2, <2>3
  <1>6. CASE c \notin Ancestors[h] /\ h \notin Ancestors[c]
    <2>1. r = MovedHead(m) \/ r = [repo EXCEPT !.op = "Merge"]
      BY <1>3, <1>6 DEF GitMerge
    <2>2. m \in Commits /\ c \in Ancestors[m]
      BY <1>2, <1>3, <1>6, BranchesAssumption
    <2>3. CASE r = MovedHead(m)
      <3>1. r \in Repositories /\ HeadState(r).name = repo.branch /\ HeadState(r).commit = m
        <4> HIDE DEF m
        <4> QED BY <2>2, <2>3, MovedHeadTyped
      <3> QED BY <2>2, <3>1
    <2>4. CASE r = [repo EXCEPT !.op = "Merge"]
      <3>1. r \in Repositories
        BY <2>4, RepositoryChanges DEF Operations
      <3>2. r.branch = repo.branch /\ r.op = "Merge"
        BY <2>4 DEF Repositories
      <3> QED BY <3>1, <3>2, SnapshotTyped
    <2> QED BY <2>1, <2>3, <2>4
  <1> QED BY <1>4, <1>5, <1>6

\* The branch a checkout switches to.
LEMMA LocalBranch ==
  ASSUME NEW a \in Commands, a.kind = "Checkout"
  PROVE  /\ a.ref \in Refs /\ Short[a.ref] \in Branches
         /\ a.ref \in OfKind("Remote") \/ Short[a.ref] = a.ref
  <1>1. a.ref \in Branches \/ a.ref \in OfKind("Remote")
    BY CommandFields DEF Branches, BranchKinds
  <1> QED BY <1>1, BranchesAssumption, Names

LEMMA CheckoutTyped ==
  ASSUME repo \in Repositories, NEW a \in Commands, a.kind = "Checkout", NEW r \in GitCheckout(a)
  PROVE  /\ r \in Repositories /\ HeadState(r).name = Short[a.ref]
         /\ HeadState(r).commit = IF repo.refs[Short[a.ref]] # Gone THEN repo.refs[Short[a.ref]]
                                  ELSE repo.refs[a.ref]
  <1> DEFINE b == Short[a.ref]
  <1>1. /\ repo.refs \in [Refs -> Commits \cup {Gone}]
        /\ a.ref \in Refs /\ b \in Branches /\ (a.ref \in OfKind("Remote") \/ b = a.ref)
    BY RepositoryFields, LocalBranch
  <1>2. b \in Refs /\ b # Detached
    BY <1>1, Names
  <1>3. repo.refs[a.ref] \in Commits
    BY <1>1 DEF GitCheckout
  <1>4. CASE repo.refs[b] # Gone
    <2>1. r = [repo EXCEPT !.branch = b]
      BY <1>3, <1>4 DEF GitCheckout, Switched
    <2>2. r \in Repositories
      BY <1>1, <2>1, RepositoryChanges
    <2>3. r.branch = b /\ r.refs = repo.refs
      BY <2>1 DEF Repositories
    <2> QED BY <1>2, <1>4, <2>2, <2>3, SnapshotTyped
  <1>5. CASE repo.refs[b] = Gone
    <2>1. r = Created(b, repo.refs[a.ref], a.ref)
      BY <1>3, <1>5 DEF GitCheckout
    <2>2. a.ref \in OfKind("Remote")
      BY <1>1, <1>3, <1>5, Names
    <2>3. r \in Repositories /\ HeadState(r) = [name |-> b, commit |-> repo.refs[a.ref]]
      BY <1>1, <1>3, <2>1, <2>2, CreatedTyped
    <2> QED BY <1>5, <2>3
  <1> QED BY <1>4, <1>5

LEMMA CreateTyped ==
  ASSUME repo \in Repositories, NEW a \in Commands, a.kind = "Create", NEW r \in GitCreate(a)
  PROVE  /\ r \in Repositories /\ HeadState(r).name = a.name
         /\ HeadState(r).commit = IF a.start.from = "Head" THEN a.start.head.commit ELSE a.start.commit
  <1> DEFINE c == IF a.start.from = "Head" THEN a.start.head.commit ELSE a.start.commit
  <1>1. a.name \in Branches /\ c \in Commits \cup {Gone}
    BY CommandFields, StartFields
  <1>2. r = Created(a.name, c, None)
    BY DEF GitCreate
  <1> HIDE DEF c
  <1>3. r \in Repositories /\ HeadState(r) = [name |-> a.name, commit |-> c]
    BY <1>1, <1>2, CreatedTyped
  <1> QED BY <1>3 DEF c

LEMMA DeleteTyped ==
  ASSUME repo \in Repositories, NEW a \in Commands, a.kind = "Delete", NEW r \in GitDelete(a)
  PROVE  /\ r \in Repositories /\ HeadState(r) = HeadState(repo)
         /\ a.force \/ Merged(a.ref)
         /\ \A b \in Refs : b # a.ref => r.refs[b] = repo.refs[b]
  <1>1. /\ a.ref \in Refs /\ repo.branch # a.ref /\ (a.force \/ Merged(a.ref))
        /\ r = [repo EXCEPT !.refs[a.ref] = Gone, !.tracks[a.ref] = None]
    BY CommandFields DEF GitDelete
  <1> DEFINE refs == [repo.refs EXCEPT ![a.ref] = Gone]
             tracks == [repo.tracks EXCEPT ![a.ref] = None]
  <1>2. refs \in [Refs -> Commits \cup {Gone}] /\ tracks \in [Branches -> OfKind("Remote") \cup {None}]
    BY <1>1, RepositoryFields
  <1>3. \A b \in Refs : b # a.ref => refs[b] = repo.refs[b]
    BY <1>1, RepositoryFields
  <1>4. r = [repo EXCEPT !.refs = refs, !.tracks = tracks]
    BY <1>1
  <1> HIDE DEF refs, tracks
  <1>5. /\ r \in Repositories /\ r.branch = repo.branch /\ r.at = repo.at /\ r.refs = refs
    BY <1>2, <1>4 DEF Repositories
  <1>6. repo.branch # Detached => r.refs[repo.branch] = repo.refs[repo.branch]
    BY <1>1, <1>3, <1>5, RepositoryFields, Names
  <1>7. HeadState(r) = HeadState(repo)
    BY <1>5, <1>6 DEF HeadState
  <1> QED BY <1>1, <1>3, <1>5, <1>7

LEMMA GitTyped ==
  ASSUME repo \in Repositories, NEW a \in Commands, a.kind = "Merge" => HeadCommit # Gone
  PROVE  Git(a) \subseteq Repositories
  <1> SUFFICES ASSUME NEW r \in Git(a) PROVE r \in Repositories
    OBVIOUS
  <1>1. CASE a.kind = "Checkout"
    BY <1>1, CheckoutTyped DEF Git
  <1>2. CASE a.kind = "Create"
    BY <1>2, CreateTyped DEF Git
  <1>3. CASE a.kind = "Delete"
    BY <1>3, DeleteTyped DEF Git
  <1>4. CASE a.kind = "Merge"
    BY <1>4, MergeTyped DEF Git
  <1>5. CASE a.kind = "AbortMerge"
    <2>1. r = [repo EXCEPT !.op = None]
      BY <1>5 DEF Git
    <2> QED BY <2>1, RepositoryChanges DEF Operations
  <1>6. CASE a.kind = "Fetch"
    <2>1. r \in GitFetch
      BY <1>6 DEF Git
    <2>2. r = repo \/ \E b \in OfKind("Remote"), c \in OtherCommits : r = [repo EXCEPT !.refs[b] = c]
      BY <2>1 DEF GitFetch
    <2>3. OtherCommits \subseteq Commits
      BY BranchesAssumption
    <2>4. \A b \in OfKind("Remote"), c \in OtherCommits : [repo EXCEPT !.refs[b] = c] \in Repositories
      <3> SUFFICES ASSUME NEW b \in OfKind("Remote"), NEW c \in OtherCommits
                   PROVE  [repo EXCEPT !.refs[b] = c] \in Repositories
        OBVIOUS
      <3>1. b \in Refs /\ c \in Commits \cup {Gone}
        BY <2>3, Names
      <3> QED BY <3>1, RepositoryChanges
    <2> QED BY <2>2, <2>4
  <1>7. CASE a.kind = "SyncTo"
    BY <1>7 DEF Git
  <1> QED BY <1>1, <1>2, <1>3, <1>4, <1>5, <1>6, <1>7, CommandFields

-----------------------------------------------------------------------------
(* Types of the state.                                                     *)

\* The repository and the verified command.
RepositoryPart == repo \in Repositories /\ job \in Commands \cup {NoCommand} /\ MergeHasHead

LEMMA HeadStays ==
  ASSUME TypeOK, HeadCommit # Gone, Foreign
  PROVE  HeadCommit' # Gone
  <1> DEFINE h == HeadState(repo)
  <1>1. /\ repo \in Repositories /\ repo.refs \in [Refs -> Commits \cup {Gone}] /\ repo.at \in Commits
        /\ repo.branch \in Branches \cup {Detached}
    BY RepositoryFields DEF TypeOK
  <1>2. HeadCommit = IF repo.branch = Detached THEN repo.at ELSE repo.refs[repo.branch]
    BY DEF HeadCommit, HeadState
  <1>3. (HeadCommit)' = IF repo'.branch = Detached THEN repo'.at ELSE repo'.refs[repo'.branch]
    BY DEF HeadCommit, HeadState
  <1>4. \/ \E r \in Refs, c \in OtherCommits \cup {Gone} :
             (c = Gone => repo.branch # r) /\ repo' = [repo EXCEPT !.refs[r] = c]
        \/ \E b \in Branches : repo.refs[b] # Gone /\ repo' = [repo EXCEPT !.branch = b]
        \/ /\ repo.branch # Detached /\ repo' = [repo EXCEPT !.branch = Detached, !.at = repo.refs[repo.branch]]
        \/ \E op \in Operations : repo' = [repo EXCEPT !.op = op]
    BY DEF Foreign
  <1>5. ASSUME NEW r \in Refs, NEW c \in OtherCommits \cup {Gone}, c = Gone => repo.branch # r,
               repo' = [repo EXCEPT !.refs[r] = c]
        PROVE  (HeadCommit)' # Gone
    <2>1. OtherCommits \subseteq Commits
      BY BranchesAssumption
    <2>2. repo'.branch = repo.branch /\ repo'.at = repo.at /\ repo'.refs = [repo.refs EXCEPT ![r] = c]
      BY <1>1, <1>5 DEF Repositories
    <2> QED BY <1>1, <1>2, <1>3, <1>5, <2>1, <2>2, Names
  <1>6. ASSUME NEW b \in Branches, repo.refs[b] # Gone, repo' = [repo EXCEPT !.branch = b]
        PROVE  (HeadCommit)' # Gone
    <2>1. repo'.branch = b /\ repo'.refs = repo.refs
      BY <1>1, <1>6 DEF Repositories
    <2> QED BY <1>3, <1>6, <2>1, Names
  <1>7. ASSUME repo.branch # Detached, repo' = [repo EXCEPT !.branch = Detached, !.at = repo.refs[repo.branch]]
        PROVE  (HeadCommit)' # Gone
    <2>1. repo'.branch = Detached /\ repo'.at = repo.refs[repo.branch]
      BY <1>1, <1>7 DEF Repositories
    <2> QED BY <1>2, <1>3, <1>7, <2>1
  <1>8. ASSUME NEW op \in Operations, repo' = [repo EXCEPT !.op = op]
        PROVE  (HeadCommit)' # Gone
    <2>1. repo'.branch = repo.branch /\ repo'.at = repo.at /\ repo'.refs = repo.refs
      BY <1>1, <1>8 DEF Repositories
    <2> QED BY <1>2, <1>3, <2>1
  <1> QED BY <1>4, <1>5, <1>6, <1>7, <1>8

LEMMA ForeignTyped ==
  ASSUME TypeOK, Foreign
  PROVE  repo' \in Repositories
  <1>1. /\ repo \in Repositories /\ repo.refs \in [Refs -> Commits \cup {Gone}]
        /\ repo.branch \in Branches \cup {Detached}
    BY RepositoryFields DEF TypeOK
  <1>2. OtherCommits \subseteq Commits
    BY BranchesAssumption
  <1>3. \/ \E r \in Refs, c \in OtherCommits \cup {Gone} : repo' = [repo EXCEPT !.refs[r] = c]
        \/ \E b \in Branches : repo' = [repo EXCEPT !.branch = b]
        \/ /\ repo.branch # Detached /\ ~Unborn(HeadState(repo))
           /\ repo' = [repo EXCEPT !.branch = Detached, !.at = repo.refs[repo.branch]]
        \/ \E op \in Operations : repo' = [repo EXCEPT !.op = op]
    BY DEF Foreign
  <1>4. ASSUME repo.branch # Detached, ~Unborn(HeadState(repo))
        PROVE  repo.refs[repo.branch] \in Commits
    BY <1>1, <1>4, SnapshotTyped, Names DEF Unborn
  <1>5. ASSUME NEW r \in Refs, NEW c \in OtherCommits \cup {Gone}
        PROVE  [repo EXCEPT !.refs[r] = c] \in Repositories
    <2>1. c \in Commits \cup {Gone}
      BY <1>2
    <2> QED BY <1>1, <2>1, RepositoryChanges
  <1>6. ASSUME repo.branch # Detached, ~Unborn(HeadState(repo))
        PROVE  [repo EXCEPT !.branch = Detached, !.at = repo.refs[repo.branch]] \in Repositories
    BY <1>1, <1>4, <1>6, RepositoryChanges
  <1>7. /\ \A b \in Branches : [repo EXCEPT !.branch = b] \in Repositories
        /\ \A op \in Operations : [repo EXCEPT !.op = op] \in Repositories
    BY <1>1, RepositoryChanges
  <1> QED BY <1>3, <1>5, <1>6, <1>7

LEMMA HeadOfChannel ==
  ASSUME NEW T, NEW s \in Seq(T), s # <<>>
  PROVE  Head(s) \in T /\ Tail(s) \in Seq(T)
  OBVIOUS

LEMMA RepositoryPartStep ==
  ASSUME TypeOK, MergeHasHead, [Next]_vars
  PROVE  RepositoryPart'
  <1>1. /\ repo \in Repositories /\ job \in Commands \cup {NoCommand}
        /\ requests \in Seq(Commands \cup Queries)
    BY DEF TypeOK
  <1>2. CASE Foreign
    <2>1. job' = job
      BY <1>2 DEF Foreign
    <2>2. MergeHasHead'
      BY <1>2, <2>1, HeadStays DEF MergeHasHead
    <2> QED BY <1>1, <1>2, <2>1, <2>2, ForeignTyped DEF RepositoryPart
  <1>3. CASE Verify
    <2> DEFINE a == Head(requests)
    <2>1. a \in Commands
      <3>1. a \in Commands \cup Queries /\ ~IsQuery(a)
        BY <1>1, <1>3, HeadOfChannel DEF Verify
      <3> QED BY <3>1 DEF IsQuery, Queries
    <2>2. repo' = repo /\ job = NoCommand /\ (job' = job \/ (Verifies(a) /\ job' = a))
      BY <1>3 DEF Verify
    <2>3. a.kind = "Merge" /\ Verifies(a) => HeadCommit # Gone
      <3> SUFFICES ASSUME a.kind = "Merge", Verifies(a) PROVE HeadCommit # Gone
        OBVIOUS
      <3>1. HeadState(repo) = a.head /\ ~Unborn(a.head)
        BY DEF Verifies, VerifiesMerge
      <3>2. HeadState(repo).name = Detached => HeadCommit \in Commits
        BY <1>1, SnapshotTyped DEF HeadCommit
      <3> QED BY <3>1, <3>2, Names DEF HeadCommit, Unborn
    <2>4. (HeadCommit)' = HeadCommit
      BY <2>2 DEF HeadCommit
    <2>5. MergeHasHead'
      BY <2>2, <2>3, <2>4 DEF MergeHasHead
    <2> QED BY <1>1, <2>1, <2>2, <2>5 DEF RepositoryPart
  <1>4. CASE Run
    <2>1. job # NoCommand /\ job' = NoCommand /\ (repo' \in Git(job) \/ repo' = repo)
      BY <1>4 DEF Run
    <2>2. repo' \in Repositories
      BY <1>1, <2>1, GitTyped DEF MergeHasHead
    <2> QED BY <2>1, <2>2 DEF RepositoryPart, MergeHasHead, NoCommand, None
  <1>5. CASE UNCHANGED <<repo, job>>
    <2>1. (HeadCommit)' = HeadCommit
      BY <1>5 DEF HeadCommit
    <2> QED BY <1>1, <1>5, <2>1 DEF RepositoryPart, MergeHasHead
  <1>6. CASE Input
    BY <1>5, <1>6 DEF Input, OpenPalette, PaletteOpens, PaletteEnters, Close, Browse, Pick, SubmitName,
         Choose, Decide, User, repoVars
  <1>7. CASE Accept
    BY <1>5, <1>7 DEF Accept, RefsLoaded, RemotesLoaded, LoadFailed, SnapshotArrives, RefreshFails,
         Completes, Fails, AsksToForce, Drain, repoVars
  <1>8. CASE Dispatch \/ TakeCommand \/ Refresh \/ Serve
    BY <1>5, <1>8 DEF Dispatch, TakeCommand, Refresh, Serve, repoVars
  <1>9. CASE UNCHANGED vars
    BY <1>5, <1>9 DEF vars, repoVars
  <1> QED BY <1>2, <1>3, <1>4, <1>6, <1>7, <1>8, <1>9 DEF Next, Worker

-----------------------------------------------------------------------------
(* Types of the channels.                                                  *)

LEMMA EventFields ==
  ASSUME NEW e \in Loads \cup Updates
  PROVE  /\ IsLoad(e) => e \in Loads /\ e.slot \in Slots /\ e.query \in Nat
         /\ e.kind = "Loaded" =>
              /\ e.slot = "Branches" => e.found \in Lists(BranchKinds)
              /\ e.slot = "Merge" => e.found \in Lists(RefKinds)
              /\ e.slot = "Remotes" => e.found \in SUBSET Remotes
         /\ ~IsLoad(e) => e \in Updates /\ e.snapshot \in Snapshots
         /\ e.kind = "NotMerged" => e.action \in UnforcedDeletions
         /\ e \in Updates => ~IsLoad(e)
  <1>1. CASE e \in Loads
    <2>1. /\ IsLoad(e) /\ e.slot \in Slots /\ e.query \in Nat
          /\ e.kind \notin {"NotMerged", "Snapshot", "RefreshFailed", "Completed", "Failed"}
      BY <1>1 DEF Loads, IsLoad, Slots
    <2>2. e.kind = "Loaded" =>
            \/ e.slot = "Branches" /\ e.found \in Lists(BranchKinds)
            \/ e.slot = "Merge" /\ e.found \in Lists(RefKinds)
            \/ e.slot = "Remotes" /\ e.found \in SUBSET Remotes
      BY <1>1 DEF Loads
    <2>3. e \notin Updates
      BY <2>1 DEF Updates, IsLoad
    <2> QED BY <1>1, <2>1, <2>2, <2>3
  <1>2. CASE e \in Updates
    BY <1>2 DEF Updates, IsLoad
  <1> QED BY <1>1, <1>2

LEMMA QueryFields ==
  ASSUME NEW a \in Commands \cup Queries, IsQuery(a)
  PROVE  a \in Queries /\ a.slot \in Slots /\ a.query \in Nat
  BY CommandFields DEF IsQuery, Queries

ChannelPart ==
  /\ requests \in Seq(Commands \cup Queries) /\ events \in Seq(Loads \cup Updates)
  /\ sent \in Snapshots

\* A verified command is reported with the snapshot of what it left.
LEMMA ReportedTyped ==
  ASSUME TypeOK, NEW a \in Commands, NEW result, NEW r \in Repositories, Reported(a, result, r),
         result \in {"Completed", "Failed"} \/ (result = "NotMerged" /\ a \in UnforcedDeletions)
  PROVE  sent' \in Snapshots /\ \E e \in Updates : events' = Append(events, e)
  <1>1. sent' = Snapshot(r) /\ sent' \in Snapshots
    BY SnapshotTyped DEF Reported
  <1> DEFINE e == [kind |-> result, action |-> a, snapshot |-> sent']
  <1>2. e \in Updates
    BY <1>1 DEF Updates
  <1>3. events' = Append(events, e)
    BY DEF Reported
  <1> QED BY <1>1, <1>2, <1>3

LEMMA NotMergedTyped ==
  ASSUME NEW a \in Commands, NotMerged(a)
  PROVE  a \in UnforcedDeletions
  BY DEF NotMerged, Commands, UnforcedDeletions

\* How the channels move in each step.
LEMMA WorkerChannels ==
  ASSUME TypeOK, MergeHasHead, Verify \/ Run \/ Refresh
  PROVE  /\ sent' \in Snapshots
         /\ events' = events \/ \E e \in Updates : events' = Append(events, e)
         /\ \/ requests' = requests
            \/ requests # <<>> /\ Head(requests) \in Commands /\ requests' = Tail(requests)
  <1>1. /\ repo \in Repositories /\ job \in Commands \cup {NoCommand} /\ sent \in Snapshots
        /\ requests \in Seq(Commands \cup Queries)
    BY DEF TypeOK
  <1>2. CASE Verify
    <2> DEFINE a == Head(requests)
    <2>1. a \in Commands /\ requests # <<>> /\ requests' = Tail(requests)
      <3>1. a \in Commands \cup Queries /\ ~IsQuery(a)
        BY <1>1, <1>2, HeadOfChannel DEF Verify
      <3> QED BY <1>2, <3>1 DEF IsQuery, Queries, Verify
    <2>2. UNCHANGED <<events, sent>> \/ Reported(a, "Failed", repo)
      BY <1>2 DEF Verify
    <2> HIDE DEF a
    <2>3. sent' \in Snapshots /\ (events' = events \/ \E e \in Updates : events' = Append(events, e))
      BY <1>1, <2>1, <2>2, ReportedTyped
    <2> QED BY <2>1, <2>3 DEF a
  <1>3. CASE Run
    <2>1. job \in Commands /\ requests' = requests
      BY <1>1, <1>3 DEF Run
    <2>2. Git(job) \subseteq Repositories
      BY <1>1, <2>1, GitTyped DEF MergeHasHead
    <2>3. CASE \E r \in Git(job) : Reported(job, "Completed", r)
      BY <2>1, <2>2, <2>3, ReportedTyped
    <2>4. CASE Reported(job, IF NotMerged(job) THEN "NotMerged" ELSE "Failed", repo)
      BY <1>1, <2>1, <2>4, ReportedTyped, NotMergedTyped
    <2> QED BY <1>3, <2>1, <2>3, <2>4 DEF Run
  <1>4. CASE Refresh
    <2>1. sent' \in Snapshots /\ requests' = requests
      BY <1>1, <1>4, SnapshotTyped DEF Refresh
    <2>2. PICK k \in {"Snapshot", "RefreshFailed"} : events' = Append(events, [kind |-> k, snapshot |-> sent'])
      BY <1>4 DEF Refresh
    <2>3. [kind |-> k, snapshot |-> sent'] \in Updates
      BY <2>1 DEF Updates
    <2> QED BY <2>1, <2>2, <2>3
  <1> QED BY <1>2, <1>3, <1>4

LEMMA ServeChannels ==
  ASSUME TypeOK, Serve
  PROVE  /\ requests # <<>> /\ Head(requests) \in Queries /\ requests' = Tail(requests)
         /\ \E e \in Loads :
              /\ e.slot = Head(requests).slot /\ e.query = Head(requests).query
              /\ events' = Append(events, e)
              /\ \/ e.kind = "Loaded" /\ answered' = [answered EXCEPT ![e.query] = e.found]
                 \/ e.kind = "LoadFailed" /\ answered' = answered
  <1> DEFINE q == Head(requests)
  <1>1. q \in Queries /\ q.slot \in Slots /\ q.query \in Nat
    <2>1. q \in Commands \cup Queries /\ IsQuery(q)
      BY HeadOfChannel DEF TypeOK, Serve
    <2> QED BY <2>1, QueryFields
  <1>2. repo \in Repositories
    BY DEF TypeOK
  <1>3. CASE \E found \in Answers(q.slot) :
               /\ events' = Append(events, [kind |-> "Loaded", slot |-> q.slot, query |-> q.query, found |-> found])
               /\ answered' = [answered EXCEPT ![q.query] = found]
    <2>1. PICK found \in Answers(q.slot) :
               /\ events' = Append(events, [kind |-> "Loaded", slot |-> q.slot, query |-> q.query, found |-> found])
               /\ answered' = [answered EXCEPT ![q.query] = found]
      BY <1>3
    <2> DEFINE e == [kind |-> "Loaded", slot |-> q.slot, query |-> q.query, found |-> found]
    <2>2. BranchRefs \in Lists(BranchKinds) /\ MergeRefs \in Lists(RefKinds)
      BY <1>2, ListedTyped DEF BranchRefs, MergeRefs, BranchKinds, RefKinds
    <2> HIDE DEF q
    <2>3. \/ q.slot = "Branches" /\ found \in Lists(BranchKinds)
          \/ q.slot = "Merge" /\ found \in Lists(RefKinds)
          \/ q.slot = "Remotes" /\ found \in SUBSET Remotes
      BY <1>1, <2>1, <2>2 DEF Answers, Slots
    <2>4. e \in Loads
      BY <1>1, <2>3 DEF Loads
    <2> QED BY <1>1, <2>1, <2>4 DEF Serve, q
  <1>4. CASE /\ events' = Append(events, [kind |-> "LoadFailed", slot |-> q.slot, query |-> q.query])
             /\ UNCHANGED answered
    <2> DEFINE e == [kind |-> "LoadFailed", slot |-> q.slot, query |-> q.query]
    <2> HIDE DEF q
    <2>1. e \in Loads
      BY <1>1 DEF Loads
    <2> QED BY <1>1, <1>4, <2>1 DEF Serve, q
  <1> QED BY <1>3, <1>4 DEF Serve

LEMMA UserChannels ==
  ASSUME Foreign \/ Input
  PROVE  UNCHANGED <<requests, events, sent, answered>>
  BY DEF Foreign, Input, OpenPalette, PaletteOpens, PaletteEnters, Close, Browse, Pick, SubmitName,
       Choose, Decide, User, channels, history

LEMMA AcceptChannels ==
  ASSUME Accept
  PROVE  UNCHANGED <<requests, sent, answered>> /\ events # <<>> /\ events' = Tail(events)
  BY DEF Accept, RefsLoaded, RemotesLoaded, LoadFailed, SnapshotArrives, RefreshFails,
         Completes, Fails, AsksToForce, Drain, history

LEMMA DispatchChannels ==
  ASSUME TypeOK, Dispatch \/ TakeCommand
  PROVE  /\ UNCHANGED <<events, sent, answered>>
         /\ \E a \in Commands \cup Queries : requests' = Append(requests, a)
  <1>1. queued \in Seq(Commands) /\ pending \in [Slots -> Nat]
    BY DEF TypeOK
  <1>2. CASE TakeCommand
    <2>1. Head(queued) \in Commands
      BY <1>1, <1>2, HeadOfChannel DEF TakeCommand
    <2> QED BY <1>2, <2>1 DEF TakeCommand, history
  <1>3. CASE Dispatch
    <2>1. PICK s \in Slots :
            requests' = Append(requests, [kind |-> "Query", slot |-> s, query |-> pending[s]])
      BY <1>3 DEF Dispatch
    <2>2. [kind |-> "Query", slot |-> s, query |-> pending[s]] \in Queries
      BY <1>1 DEF Queries
    <2> QED BY <1>3, <2>1, <2>2 DEF Dispatch, history
  <1> QED BY <1>2, <1>3

LEMMA ChannelPartStep ==
  ASSUME TypeOK, MergeHasHead, [Next]_vars
  PROVE  ChannelPart'
  <1>1. /\ requests \in Seq(Commands \cup Queries) /\ events \in Seq(Loads \cup Updates)
        /\ sent \in Snapshots
    BY DEF TypeOK
  <1>2. CASE Verify \/ Run \/ Refresh
    <2>1. requests' \in Seq(Commands \cup Queries)
      <3>1. requests' = requests \/ (requests # <<>> /\ requests' = Tail(requests))
        BY <1>2, WorkerChannels
      <3> QED BY <1>1, <3>1, HeadOfChannel
    <2>2. events' \in Seq(Loads \cup Updates) /\ sent' \in Snapshots
      <3>1. sent' \in Snapshots /\ (events' = events \/ \E e \in Updates : events' = Append(events, e))
        BY <1>2, WorkerChannels
      <3> QED BY <1>1, <3>1
    <2> QED BY <2>1, <2>2 DEF ChannelPart
  <1>3. CASE Serve
    <2>1. /\ requests # <<>> /\ requests' = Tail(requests) /\ sent' = sent
          /\ \E e \in Loads : events' = Append(events, e)
      BY <1>3, ServeChannels DEF Serve
    <2> QED BY <1>1, <2>1, HeadOfChannel DEF ChannelPart
  <1>4. CASE Foreign \/ Input
    BY <1>1, <1>4, UserChannels DEF ChannelPart
  <1>5. CASE Accept
    BY <1>1, <1>5, AcceptChannels, HeadOfChannel DEF ChannelPart
  <1>6. CASE Dispatch \/ TakeCommand
    BY <1>1, <1>6, DispatchChannels DEF ChannelPart
  <1>7. CASE UNCHANGED vars
    BY <1>1, <1>7 DEF ChannelPart, vars, channels
  <1> QED BY <1>2, <1>3, <1>4, <1>5, <1>6, <1>7 DEF Next, Worker

-----------------------------------------------------------------------------
(* Types of the modal.                                                     *)

HasList(m) == m.kind \in {"Branches", "Merge", "Remotes"}
TypedModal(m) == m \in Modals /\ (HasList(m) => Selectable(m.picker))
PayloadsOf(m) ==
  IF m.kind = "Branches" THEN RefRecords(BranchKinds)
  ELSE IF m.kind = "Merge" THEN MergePayloads ELSE Remotes

LEMMA ModalFields ==
  ASSUME NEW m \in Modals
  PROVE  /\ m.kind = "Branches" => m \in BranchPickers
         /\ m.kind = "Merge" => m \in MergePickers
         /\ m.kind = "Remotes" => m \in RemotePickers
         /\ m.kind = "Create" => m \in Forms
         /\ m.kind = "Confirm" => m \in Confirmations
         /\ m.kind = "Palette" => m \in Palettes
         /\ m.kind \in {None, "Error", "Palette", "Branches", "Merge", "Remotes", "Create", "Confirm"}
  <1>1. /\ NoModal.kind = None /\ ErrorModal.kind = "Error"
        /\ m \in Palettes => m.kind = "Palette"
        /\ m \in Confirmations => m.kind = "Confirm"
    BY DEF NoModal, ErrorModal, Palettes, Confirmations
  <1>2. /\ m \in BranchPickers => m.kind = "Branches"
        /\ m \in MergePickers => m.kind = "Merge"
        /\ m \in RemotePickers => m.kind = "Remotes"
    BY DEF BranchPickers, MergePickers, RemotePickers
  <1>3. m \in Forms => m.kind = "Create"
    BY DEF Forms
  <1>4. \/ m = NoModal \/ m = ErrorModal \/ m \in Palettes \/ m \in BranchPickers \/ m \in MergePickers
        \/ m \in RemotePickers \/ m \in Forms \/ m \in Confirmations
    BY DEF Modals
  <1> QED BY <1>1, <1>2, <1>3, <1>4 DEF None

LEMMA ListTyped ==
  ASSUME NEW m, TypedModal(m), HasList(m)
  PROVE  m.picker \in Pickers(PayloadsOf(m)) /\ Selectable(m.picker)
  <1>1. m \in Modals /\ Selectable(m.picker)
    BY DEF TypedModal
  <1>2. CASE m.kind = "Branches"
    BY <1>1, <1>2, ModalFields DEF BranchPickers, PayloadsOf
  <1>3. CASE m.kind = "Merge"
    BY <1>1, <1>3, ModalFields DEF MergePickers, PayloadsOf
  <1>4. CASE m.kind = "Remotes"
    BY <1>1, <1>4, ModalFields DEF RemotePickers, PayloadsOf
  <1> QED BY <1>1, <1>2, <1>3, <1>4 DEF HasList

\* m and n show the answer to the same query.
SameQuestion(m, n) ==
  /\ n.kind = m.kind
  /\ SlotOf(m) # None => n.query = m.query /\ n.loading = m.loading
  /\ IsPicker(m) => n.loaded = m.loaded
  /\ m.kind = "Create" => n.names = m.names

LEMMA ListReplaced ==
  ASSUME NEW m, TypedModal(m), HasList(m), NEW q \in Pickers(PayloadsOf(m)), Selectable(q)
  PROVE  LET n == [m EXCEPT !.picker = q] IN TypedModal(n) /\ SameQuestion(m, n)
  <1> DEFINE n == [m EXCEPT !.picker = q]
  <1>1. m \in Modals
    BY DEF TypedModal
  <1>2. CASE m.kind = "Branches"
    <2>1. m \in BranchPickers /\ q \in Pickers(RefRecords(BranchKinds))
      BY <1>1, <1>2, ModalFields DEF PayloadsOf
    <2>2. /\ n \in BranchPickers /\ n.picker = q /\ n.kind = m.kind
          /\ n.query = m.query /\ n.loading = m.loading /\ n.loaded = m.loaded
      BY <2>1 DEF BranchPickers
    <2> HIDE DEF n
    <2>3. TypedModal(n)
      BY <2>2 DEF TypedModal, Modals
    <2>4. SameQuestion(m, n)
      BY <1>2, <2>2 DEF SameQuestion, IsPicker
    <2> QED BY <2>3, <2>4 DEF n
  <1>3. CASE m.kind = "Merge"
    <2>1. m \in MergePickers /\ q \in Pickers(MergePayloads)
      BY <1>1, <1>3, ModalFields DEF PayloadsOf
    <2>2. /\ n \in MergePickers /\ n.picker = q /\ n.kind = m.kind
          /\ n.query = m.query /\ n.loading = m.loading /\ n.loaded = m.loaded
      BY <2>1 DEF MergePickers
    <2> HIDE DEF n
    <2>3. TypedModal(n)
      BY <2>2 DEF TypedModal, Modals
    <2>4. SameQuestion(m, n)
      BY <1>3, <2>2 DEF SameQuestion, IsPicker
    <2> QED BY <2>3, <2>4 DEF n
  <1>4. CASE m.kind = "Remotes"
    <2>1. m \in RemotePickers /\ q \in Pickers(Remotes)
      BY <1>1, <1>4, ModalFields DEF PayloadsOf
    <2>2. /\ n \in RemotePickers /\ n.picker = q /\ n.kind = m.kind
          /\ n.query = m.query /\ n.loading = m.loading
      BY <2>1 DEF RemotePickers
    <2> HIDE DEF n
    <2>3. TypedModal(n)
      BY <2>2 DEF TypedModal, Modals
    <2>4. SameQuestion(m, n)
      BY <1>4, <2>2 DEF SameQuestion, IsPicker
    <2> QED BY <2>3, <2>4 DEF n
  <1> QED BY <1>2, <1>3, <1>4 DEF HasList

\* What a picker lists is of its kind.
LEMMA ItemsTyped ==
  ASSUME NEW m, TypedModal(m), IsPicker(m), NEW s \in Snapshots
  PROVE  ItemsOf(m, s) \in Seq(Items(PayloadsOf(m)))
  <1>1. m \in Modals
    BY DEF TypedModal
  <1>2. CASE m.kind = "Branches"
    <2>1. m.loaded \in Lists(BranchKinds)
      BY <1>1, <1>2, ModalFields DEF BranchPickers
    <2> QED BY <1>2, <2>1, BranchItemsTyped DEF ItemsOf, PayloadsOf
  <1>3. CASE m.kind = "Merge"
    <2>1. m.loaded \in Lists(RefKinds)
      BY <1>1, <1>3, ModalFields DEF MergePickers
    <2> QED BY <1>3, <2>1, MergeItemsTyped DEF ItemsOf, PayloadsOf
  <1> QED BY <1>2, <1>3 DEF IsPicker

LEMMA RefreshedTyped ==
  ASSUME NEW m, TypedModal(m), IsPicker(m), NEW s \in Snapshots
  PROVE  TypedModal(Refreshed(m, s)) /\ SameQuestion(m, Refreshed(m, s))
  <1> DEFINE items == ItemsOf(m, s)
             q == Reconcile(m.picker, items)
  <1>1. HasList(m) /\ m \in Modals
    BY DEF HasList, IsPicker, TypedModal
  <1>2. m.picker \in Pickers(PayloadsOf(m))
    BY <1>1, ListTyped
  <1>3. items \in Seq(Items(PayloadsOf(m)))
    BY ItemsTyped
  <1> HIDE DEF items
  <1>4. q \in Pickers(PayloadsOf(m)) /\ Selectable(q)
    BY <1>2, <1>3, ItemsSet
  <1>5. Refreshed(m, s) = [m EXCEPT !.picker = q]
    BY DEF Refreshed, items
  <1> HIDE DEF q
  <1> QED BY <1>1, <1>4, <1>5, ListReplaced

\* The answer arrives: the list is loaded and shown.
ShowsRefs(m, n, found) ==
  n.kind = m.kind /\ n.query = m.query /\ n.loading = FALSE /\ n.loaded = found
ListFor(m, found) ==
  /\ m.kind = "Branches" => found \in Lists(BranchKinds)
  /\ m.kind = "Merge" => found \in Lists(RefKinds)
WithRefs(m, found) == [m EXCEPT !.loading = FALSE, !.loaded = found]
WithNames(m, names, h) ==
  [m EXCEPT !.loading = FALSE, !.names = names, !.start = [from |-> "Head", head |-> h]]

LEMMA LoadedShown ==
  ASSUME NEW m, TypedModal(m), IsPicker(m), NEW s \in Snapshots, NEW found,
         ListFor(m, found)
  PROVE  LET shown == Refreshed(WithRefs(m, found), s) IN
         TypedModal(shown) /\ ShowsRefs(m, shown, found)
  <1> DEFINE n == [m EXCEPT !.loading = FALSE, !.loaded = found]
  <1>1. m \in Modals /\ Selectable(m.picker)
    BY DEF TypedModal, HasList, IsPicker
  <1>2. /\ n \in Modals /\ n.kind = m.kind /\ n.query = m.query /\ n.loading = FALSE
        /\ n.loaded = found /\ n.picker = m.picker
    <2>1. CASE m.kind = "Branches"
      <3>1. m \in BranchPickers
        BY <1>1, <2>1, ModalFields
      <3>2. /\ n \in BranchPickers /\ n.kind = m.kind /\ n.query = m.query /\ n.loading = FALSE
            /\ n.loaded = found /\ n.picker = m.picker
        BY <2>1, <3>1 DEF BranchPickers, ListFor
      <3> HIDE DEF n
      <3> QED BY <3>2 DEF Modals
    <2>2. CASE m.kind = "Merge"
      <3>1. m \in MergePickers
        BY <1>1, <2>2, ModalFields
      <3>2. /\ n \in MergePickers /\ n.kind = m.kind /\ n.query = m.query /\ n.loading = FALSE
            /\ n.loaded = found /\ n.picker = m.picker
        BY <2>2, <3>1 DEF MergePickers, ListFor
      <3> HIDE DEF n
      <3> QED BY <3>2 DEF Modals
    <2> QED BY <2>1, <2>2 DEF IsPicker
  <1> HIDE DEF n
  <1>3. TypedModal(n) /\ IsPicker(n)
    BY <1>1, <1>2 DEF TypedModal, IsPicker
  <1>4. TypedModal(Refreshed(n, s)) /\ SameQuestion(n, Refreshed(n, s))
    BY <1>3, RefreshedTyped
  <1>5. SlotOf(n) # None
    BY <1>3 DEF IsPicker, SlotOf, None
  <1>6. WithRefs(m, found) = n
    BY DEF WithRefs, n
  <1> QED BY <1>2, <1>3, <1>4, <1>5, <1>6 DEF SameQuestion, ShowsRefs

LEMMA FormLoaded ==
  ASSUME NEW m, TypedModal(m), m.kind = "Create", NEW h \in HeadStates,
         NEW names \in SUBSET Branches
  PROVE  LET shown == WithNames(m, names, h) IN
         /\ TypedModal(shown) /\ shown.kind = m.kind /\ shown.query = m.query
         /\ shown.loading = FALSE /\ shown.names = names
  <1> DEFINE start == [from |-> "Head", head |-> h]
             n == [m EXCEPT !.loading = FALSE, !.names = names, !.start = start]
  <1>1. start \in Starts
    BY DEF Starts
  <1>2. m \in Forms
    BY ModalFields DEF TypedModal
  <1> HIDE DEF start
  <1>3. /\ n \in Forms /\ n.kind = m.kind /\ n.query = m.query /\ n.loading = FALSE
        /\ n.names = names
    BY <1>1, <1>2 DEF Forms
  <1> HIDE DEF n
  <1>4. TypedModal(n)
    BY <1>2, <1>3 DEF TypedModal, Modals, HasList
  <1>5. WithNames(m, names, h) = n
    BY DEF WithNames, n, start
  <1> QED BY <1>3, <1>4, <1>5

LEMMA RemotesShown ==
  ASSUME NEW m, TypedModal(m), m.kind = "Remotes", NEW found \in SUBSET Remotes
  PROVE  LET n == [m EXCEPT !.query = 0, !.loading = FALSE, !.picker = SetItems(@, RemoteItems(found))] IN
         TypedModal(n) /\ n.kind = "Remotes" /\ n.query = 0 /\ n.loading = FALSE
  <1> DEFINE q == SetItems(m.picker, RemoteItems(found))
             n == [m EXCEPT !.query = 0, !.loading = FALSE, !.picker = q]
  <1>1. m \in RemotePickers /\ m.picker \in Pickers(Remotes)
    BY ModalFields, ListTyped DEF TypedModal, HasList, PayloadsOf
  <1>2. q \in Pickers(Remotes) /\ Selectable(q)
    BY <1>1, RemoteItemsTyped, ItemsSet
  <1> HIDE DEF q
  <1>3. n \in RemotePickers /\ n.kind = "Remotes" /\ n.query = 0 /\ n.loading = FALSE /\ n.picker = q
    BY <1>1, <1>2 DEF RemotePickers
  <1> HIDE DEF n
  <1>4. TypedModal(n)
    BY <1>2, <1>3 DEF TypedModal, Modals
  <1> QED BY <1>3, <1>4 DEF n, q

\* Modals that start out complete.
LEMMA PlainModals ==
  /\ TypedModal(NoModal) /\ TypedModal(ErrorModal)
  /\ \A m \in Palettes \cup Forms \cup Confirmations : TypedModal(m)
  <1>1. TypedModal(NoModal) /\ TypedModal(ErrorModal)
    BY DEF TypedModal, HasList, Modals, NoModal, ErrorModal, None
  <1>2. ASSUME NEW m \in Palettes \cup Forms \cup Confirmations PROVE TypedModal(m)
    <2>1. m.kind \in {"Palette", "Create", "Confirm"}
      BY DEF Palettes, Forms, Confirmations
    <2> QED BY <2>1 DEF TypedModal, HasList, Modals
  <1> QED BY <1>1, <1>2

LEMMA EmptyListed == ASSUME NEW kinds PROVE {} \in Lists(kinds)
  BY FS_EmptySet DEF Lists

-----------------------------------------------------------------------------
(* What each step does to the modal and to the commands.                   *)

ModalPart ==
  /\ TypedModal(modal) /\ pending \in [Slots -> Nat] /\ nextQuery \in Nat \ {0}
  /\ snap \in Snapshots

\* A modal that shows no answer and waits for none.
Silent(m) == SlotOf(m) = None \/ (m.query = 0 /\ m.loading = FALSE /\ ~IsPicker(m))

ModalKept == SameQuestion(modal, modal') /\ pending' = pending
ModalReplaced ==
  Silent(modal') /\ \A s \in Slots : pending'[s] = IF s = SlotOf(modal) THEN 0 ELSE pending[s]

LEMMA TypeOKParts ==
  TypeOK <=> /\ repo \in Repositories /\ job \in Commands \cup {NoCommand}
             /\ ChannelPart /\ ModalPart
             /\ queued \in Seq(Commands) /\ active \in Commands \cup {NoCommand}
             /\ confirmed \subseteq UnforcedDeletions
             /\ DOMAIN answered = 1..MaxQueries
             /\ {entered, foreign} \subseteq Nat
  BY DEF TypeOK, ChannelPart, ModalPart, TypedModal, HasList, Selectable

LEMMA ModalSet ==
  ASSUME TypeOK, NEW m, TypedModal(m), Silent(m), SetModal(m)
  PROVE  TypedModal(modal') /\ pending' \in [Slots -> Nat] /\ ModalReplaced
  <1>1. pending \in [Slots -> Nat]
    BY DEF TypeOK
  <1>2. modal' = m /\ pending' = [s \in Slots |-> IF s = SlotOf(modal) THEN 0 ELSE pending[s]]
    BY DEF SetModal
  <1> QED BY <1>1, <1>2 DEF ModalReplaced

LEMMA ModalClosed ==
  ASSUME TypeOK, CloseModal \/ SetModal(ErrorModal) \/ ShowError
  PROVE  TypedModal(modal') /\ pending' \in [Slots -> Nat] /\ (ModalKept \/ ModalReplaced)
  <1>1. Silent(NoModal) /\ Silent(ErrorModal)
    BY DEF Silent, NoModal, ErrorModal, SlotOf, None
  <1>2. CASE CloseModal \/ SetModal(ErrorModal)
    BY <1>1, <1>2, PlainModals, ModalSet DEF CloseModal
  <1>3. CASE UNCHANGED <<modal, pending>>
    BY <1>3, TypeOKParts DEF ModalPart, ModalKept, SameQuestion
  <1> QED BY <1>2, <1>3 DEF ShowError

\* A command the user entered.
Entered(a) == a \in Commands /\ Enter(a) /\ (Forced(a) => Deletion(a) \in confirmed')

LEMMA PickStep ==
  ASSUME TypeOK, Pick
  PROVE  /\ TypedModal(modal') /\ pending' \in [Slots -> Nat] /\ ModalReplaced
         /\ UNCHANGED commands \/ \E a : Entered(a)
         /\ confirmed' = confirmed /\ UNCHANGED <<nextQuery, snap, answered, foreign>>
  <1>1. TypedModal(modal) /\ HasList(modal)
    BY TypeOKParts DEF Pick, HasList, ModalPart
  <1>2. modal.picker \in Pickers(PayloadsOf(modal))
    BY <1>1, ListTyped
  <1>3. Activations(modal.picker) \subseteq PayloadsOf(modal)
    BY <1>2, ActivationsListed
  <1>4. confirmed' = confirmed /\ UNCHANGED <<nextQuery, snap, answered, foreign>>
    BY DEF Pick, User, repoVars
  <1>5. PICK t \in PayloadsOf(modal) :
       \/ /\ modal.kind = "Branches"
          /\ SetModal([kind |-> "Create", query |-> 0, loading |-> FALSE,
                       names |-> {b.ref : b \in modal.loaded} \cap Branches,
                       start |-> [from |-> "Branch", ref |-> t.ref, commit |-> t.commit]])
          /\ UNCHANGED commands
       \/ /\ CloseModal
          /\ \/ modal.kind = "Remotes" /\ Enter([kind |-> "SyncTo", remote |-> t])
             \/ modal.kind = "Merge" /\ Enter(Merge(t))
             \/ modal.kind = "Branches" /\ (Enter(Checkout(t)) \/ Enter(Deletion(t)))
    BY <1>3 DEF Pick
  <1>6. modal.kind = "Branches" => t \in RefRecords(BranchKinds) /\ t.ref \in Refs /\ t.commit \in Commits
    BY DEF PayloadsOf, RefRecords, OfKind
  <1>7. CASE /\ modal.kind = "Branches"
             /\ SetModal([kind |-> "Create", query |-> 0, loading |-> FALSE,
                          names |-> {b.ref : b \in modal.loaded} \cap Branches,
                          start |-> [from |-> "Branch", ref |-> t.ref, commit |-> t.commit]])
             /\ UNCHANGED commands
    <2> DEFINE names == {b.ref : b \in modal.loaded} \cap Branches
               start == [from |-> "Branch", ref |-> t.ref, commit |-> t.commit]
               m == [kind |-> "Create", query |-> 0, loading |-> FALSE, names |-> names, start |-> start]
    <2>1. names \in SUBSET Branches /\ start \in Starts
      BY <1>6, <1>7 DEF Starts
    <2>2. SetModal(m)
      BY <1>7
    <2> HIDE DEF names, start
    <2>3. m \in Forms /\ m.kind = "Create" /\ m.query = 0 /\ m.loading = FALSE
      BY <2>1 DEF Forms
    <2> HIDE DEF m
    <2>4. TypedModal(m) /\ Silent(m)
      BY <2>3, PlainModals DEF Silent, IsPicker
    <2> QED BY <1>4, <1>7, <2>2, <2>4, ModalSet
  <1>8. CASE /\ CloseModal
             /\ \/ modal.kind = "Remotes" /\ Enter([kind |-> "SyncTo", remote |-> t])
                \/ modal.kind = "Merge" /\ Enter(Merge(t))
                \/ modal.kind = "Branches" /\ (Enter(Checkout(t)) \/ Enter(Deletion(t)))
    <2>1. TypedModal(modal') /\ pending' \in [Slots -> Nat] /\ ModalReplaced
      <3>1. Silent(NoModal)
        BY DEF Silent, NoModal, SlotOf, None
      <3> QED BY <1>8, <3>1, PlainModals, ModalSet DEF CloseModal
    <2>2. \E a : Entered(a)
      <3>1. CASE modal.kind = "Remotes" /\ Enter([kind |-> "SyncTo", remote |-> t])
        <4>1. t \in Remotes
          BY <3>1 DEF PayloadsOf
        <4>2. [kind |-> "SyncTo", remote |-> t] \in Commands
          BY <4>1 DEF Commands
        <4> QED BY <3>1, <4>2 DEF Entered, Forced
      <3>2. CASE modal.kind = "Merge" /\ Enter(Merge(t))
        <4>1. t \in MergePayloads
          BY <3>2 DEF PayloadsOf
        <4>2. Merge(t) \in Commands /\ ~Forced(Merge(t))
          BY <4>1 DEF Commands, MergePayloads, Merge, Forced
        <4> QED BY <3>2, <4>2 DEF Entered
      <3>3. CASE modal.kind = "Branches" /\ Enter(Checkout(t))
        <4>1. t.ref \in UNION {OfKind(k) : k \in BranchKinds} /\ t.commit \in Commits
          BY <1>6, <3>3 DEF RefRecords
        <4>2. Checkout(t) \in Commands /\ ~Forced(Checkout(t))
          BY <4>1 DEF Commands, Checkout, Forced
        <4> QED BY <3>3, <4>2 DEF Entered
      <3>4. CASE modal.kind = "Branches" /\ Enter(Deletion(t))
        <4>1. Deletion(t) \in Commands /\ ~Forced(Deletion(t))
          BY <1>6, <3>4 DEF Commands, Deletion, Forced
        <4> QED BY <3>4, <4>1 DEF Entered
      <3> QED BY <1>8, <3>1, <3>2, <3>3, <3>4
    <2> QED BY <1>4, <2>1, <2>2
  <1> QED BY <1>5, <1>7, <1>8

LEMMA SubmitStep ==
  ASSUME TypeOK, SubmitName
  PROVE  /\ TypedModal(modal') /\ pending' \in [Slots -> Nat] /\ ModalReplaced
         /\ \E a : Entered(a)
         /\ confirmed' = confirmed /\ UNCHANGED <<nextQuery, snap, answered, foreign>>
  <1>1. modal.start \in Starts
    <2>1. modal \in Forms /\ ~modal.loading
      BY ModalFields DEF TypeOK, SubmitName
    <2> QED BY <2>1 DEF Forms
  <1>2. PICK name \in Branches : Enter([kind |-> "Create", name |-> name, start |-> modal.start])
    BY DEF SubmitName
  <1>3. [kind |-> "Create", name |-> name, start |-> modal.start] \in Commands
    BY <1>1 DEF Commands
  <1>4. \E a : Entered(a)
    BY <1>2, <1>3 DEF Entered, Forced
  <1>5. TypedModal(modal') /\ pending' \in [Slots -> Nat] /\ ModalReplaced
    <2>1. Silent(NoModal)
      BY DEF Silent, NoModal, SlotOf, None
    <2> QED BY <2>1, PlainModals, ModalSet DEF SubmitName, CloseModal
  <1> QED BY <1>4, <1>5 DEF SubmitName, User, repoVars

LEMMA DecideStep ==
  ASSUME TypeOK, Decide
  PROVE  /\ TypedModal(modal') /\ pending' \in [Slots -> Nat] /\ ModalReplaced
         /\ UNCHANGED commands \/ \E a : Entered(a)
         /\ confirmed \subseteq confirmed' /\ confirmed' \subseteq UnforcedDeletions
         /\ UNCHANGED <<nextQuery, snap, answered, foreign>>
  <1> DEFINE t == modal.target
             a == [t EXCEPT !.force = TRUE]
  <1>1. t \in UnforcedDeletions
    BY ModalFields DEF TypeOK, Decide, Confirmations
  <1>2. a \in Commands /\ Deletion(a) = t
    BY <1>1 DEF UnforcedDeletions, Commands, Deletion
  <1>3. \/ UNCHANGED <<commands, confirmed>>
        \/ Enter(a) /\ confirmed' = confirmed \cup {t}
    BY DEF Decide, NoEntry
  <1> HIDE DEF a
  <1>4. UNCHANGED commands \/ \E x : Entered(x)
    BY <1>2, <1>3 DEF Entered
  <1>5. confirmed \subseteq confirmed' /\ confirmed' \subseteq UnforcedDeletions
    BY <1>1, <1>3 DEF TypeOK
  <1>6. TypedModal(modal') /\ pending' \in [Slots -> Nat] /\ ModalReplaced
    <2>1. Silent(NoModal)
      BY DEF Silent, NoModal, SlotOf, None
    <2> QED BY <2>1, PlainModals, ModalSet DEF Decide, CloseModal
  <1> QED BY <1>4, <1>5, <1>6 DEF Decide, User, repoVars

LEMMA OtherInputStep ==
  ASSUME TypeOK, OpenPalette \/ PaletteEnters \/ Close \/ Browse \/ Choose
  PROVE  /\ TypedModal(modal') /\ pending' \in [Slots -> Nat] /\ (ModalKept \/ ModalReplaced)
         /\ UNCHANGED commands \/ \E a : Entered(a)
         /\ confirmed' = confirmed /\ UNCHANGED <<nextQuery, snap, answered, foreign>>
  <1>1. TypedModal(modal) /\ pending \in [Slots -> Nat]
    BY TypeOKParts DEF ModalPart
  <1>2. CASE OpenPalette
    <2> DEFINE merge == CASE snap.op = "Merge" -> "AbortMerge"
                          [] snap.op = None /\ ~Unborn(snap.head) -> "Merge"
                          [] OTHER -> None
               m == [kind |-> "Palette", merge |-> merge]
    <2>1. merge \in {"AbortMerge", "Merge", None}
      <3>1. CASE snap.op = "Merge"
        BY <3>1 DEF None
      <3>2. CASE snap.op = None /\ ~Unborn(snap.head)
        BY <3>2 DEF None
      <3> QED BY <3>1, <3>2
    <2>2. SetModal(m)
      BY <1>2 DEF OpenPalette
    <2> HIDE DEF merge
    <2>3. m \in Palettes /\ Silent(m)
      BY <2>1 DEF Palettes, Silent, SlotOf, None
    <2> HIDE DEF m
    <2>4. TypedModal(modal') /\ pending' \in [Slots -> Nat] /\ ModalReplaced
      BY <2>2, <2>3, PlainModals, ModalSet
    <2> QED BY <1>2, <2>4 DEF OpenPalette, NoEntry, User, repoVars
  <1>3. CASE PaletteEnters
    <2>1. PICK kind \in {"Fetch", "AbortMerge"} : Enter([kind |-> kind])
      BY <1>3 DEF PaletteEnters
    <2>2. [kind |-> kind] \in Commands /\ ~Forced([kind |-> kind])
      BY DEF Commands, Forced
    <2>3. \E a : Entered(a)
      BY <2>1, <2>2 DEF Entered
    <2>4. CloseModal /\ confirmed' = confirmed /\ UNCHANGED <<nextQuery, snap, answered, foreign>>
      BY <1>3 DEF PaletteEnters, User, repoVars
    <2> QED BY <2>3, <2>4, ModalClosed
  <1>4. CASE Close
    <2>1. CloseModal /\ UNCHANGED commands /\ confirmed' = confirmed
          /\ UNCHANGED <<nextQuery, snap, answered, foreign>>
      BY <1>4 DEF Close, NoEntry, User, repoVars
    <2> QED BY <2>1, ModalClosed
  <1>5. CASE Browse
    <2>1. HasList(modal)
      BY <1>5 DEF Browse, HasList
    <2>2. modal.picker \in Pickers(PayloadsOf(modal)) /\ Selectable(modal.picker)
      BY <1>1, <2>1, ListTyped
    <2>3. PICK p \in {Filter(modal.picker, t) : t \in Texts}
                     \cup {MoveSelection(modal.picker, d) : d \in BOOLEAN}
                     \cup {Wheel(modal.picker, d) : d \in BOOLEAN} :
            modal' = [modal EXCEPT !.picker = p]
      BY <1>5 DEF Browse
    <2>4. p \in Pickers(PayloadsOf(modal)) /\ Selectable(p)
      BY <2>2, <2>3, FilterTyped, MoveTyped, WheelTyped
    <2>5. TypedModal(modal') /\ SameQuestion(modal, modal')
      BY <1>1, <2>1, <2>3, <2>4, ListReplaced
    <2> QED BY <1>1, <1>5, <2>5 DEF Browse, NoEntry, User, repoVars, ModalKept
  <1>6. CASE Choose
    <2>1. PICK c \in {"Cancel", "Continue"} : modal' = [modal EXCEPT !.choice = c]
      BY <1>6 DEF Choose
    <2>2. modal \in Confirmations /\ modal.kind = "Confirm"
      BY <1>1, <1>6, ModalFields DEF Choose, TypedModal
    <2>3. modal' \in Confirmations /\ modal'.kind = "Confirm"
      BY <2>1, <2>2 DEF Confirmations
    <2>4. TypedModal(modal') /\ SameQuestion(modal, modal')
      BY <2>2, <2>3, PlainModals DEF SameQuestion, IsPicker, SlotOf, None
    <2> QED BY <1>1, <1>6, <2>4 DEF Choose, NoEntry, User, repoVars, ModalKept
  <1> QED BY <1>2, <1>3, <1>4, <1>5, <1>6

LEMMA PaletteOpensStep ==
  ASSUME TypeOK, PaletteOpens
  PROVE  /\ TypedModal(modal') /\ pending' \in [Slots -> Nat] /\ SlotOf(modal) = None
         /\ SlotOf(modal') \in Slots /\ modal'.query = nextQuery /\ modal'.loading = TRUE
         /\ pending' = [pending EXCEPT ![SlotOf(modal')] = nextQuery]
         /\ nextQuery <= MaxQueries /\ nextQuery' = nextQuery + 1
         /\ UNCHANGED <<commands, confirmed, snap, answered, foreign>>
  <1>1. pending \in [Slots -> Nat] /\ nextQuery \in Nat
    BY DEF TypeOK
  <1>2. PICK m : /\ Loading(m)
                 /\ \/ \E purpose \in {"Checkout", "CreateFrom", "Delete"} : m = PickerFor(purpose)
                    \/ m = [kind |-> "Create", names |-> {}, start |-> NoStart,
                            query |-> nextQuery, loading |-> TRUE]
                    \/ m = [kind |-> "Merge", loaded |-> {}, picker |-> NewPicker,
                            query |-> nextQuery, loading |-> TRUE]
                    \/ m = [kind |-> "Remotes", picker |-> NewPicker,
                            query |-> nextQuery, loading |-> TRUE]
    BY DEF PaletteOpens
  <1>3. /\ \A S : NewPicker \in Pickers(S) /\ Selectable(NewPicker)
        /\ {} \in Lists(BranchKinds) /\ {} \in Lists(RefKinds)
    BY NewPickerTyped, EmptyListed
  <1>4. TypedModal(m) /\ SlotOf(m) \in Slots /\ m.query = nextQuery /\ m.loading = TRUE
    <2>1. CASE \E purpose \in {"Checkout", "CreateFrom", "Delete"} : m = PickerFor(purpose)
      <3>1. m \in BranchPickers /\ m.picker = NewPicker /\ m.kind = "Branches"
        BY <1>1, <1>3, <2>1 DEF PickerFor, BranchPickers
      <3>2. TypedModal(m)
        BY <1>3, <3>1 DEF TypedModal, Modals
      <3> QED BY <2>1, <3>2 DEF PickerFor, SlotOf, Slots
    <2>2. CASE m = [kind |-> "Create", names |-> {}, start |-> NoStart,
                    query |-> nextQuery, loading |-> TRUE]
      <3>1. m \in Forms
        BY <1>1, <2>2 DEF Forms
      <3> QED BY <2>2, <3>1, PlainModals DEF SlotOf, Slots
    <2>3. CASE m = [kind |-> "Merge", loaded |-> {}, picker |-> NewPicker,
                    query |-> nextQuery, loading |-> TRUE]
      <3>1. m \in MergePickers /\ m.picker = NewPicker
        BY <1>1, <1>3, <2>3 DEF MergePickers
      <3>2. TypedModal(m)
        BY <1>3, <3>1 DEF TypedModal, Modals
      <3> QED BY <2>3, <3>2 DEF SlotOf, Slots
    <2>4. CASE m = [kind |-> "Remotes", picker |-> NewPicker, query |-> nextQuery, loading |-> TRUE]
      <3>1. m \in RemotePickers /\ m.picker = NewPicker
        BY <1>1, <1>3, <2>4 DEF RemotePickers
      <3>2. TypedModal(m)
        BY <1>3, <3>1 DEF TypedModal, Modals
      <3> QED BY <2>4, <3>2 DEF SlotOf, Slots
    <2> QED BY <1>2, <2>1, <2>2, <2>3, <2>4
  <1>5. /\ modal' = m /\ nextQuery <= MaxQueries /\ nextQuery' = nextQuery + 1
        /\ pending' = [pending EXCEPT ![SlotOf(m)] = nextQuery]
    BY <1>2 DEF Loading
  <1>6. SlotOf(modal) = None
    BY DEF PaletteOpens, SlotOf
  <1>7. UNCHANGED <<commands, confirmed, snap, answered, foreign>>
    BY DEF PaletteOpens, NoEntry, User, repoVars
  <1> QED BY <1>1, <1>4, <1>5, <1>6, <1>7

\* The modal shows the answer e.
AnswerShown(e) ==
  /\ modal'.kind = modal.kind /\ modal'.query = modal.query /\ modal'.loading = FALSE
  /\ IsPicker(modal) => modal'.loaded = e.found
  /\ modal.kind = "Create" => modal'.names = {b.ref : b \in e.found} \cap Branches
  /\ pending' = pending

LEMMA HeadEvent ==
  ASSUME TypeOK, events # <<>>
  PROVE  Head(events) \in Loads \cup Updates
  BY HeadOfChannel DEF TypeOK

LEMMA RefsLoadedStep ==
  ASSUME TypeOK, RefsLoaded
  PROVE  LET e == Head(events) IN
         /\ TypedModal(modal') /\ pending' \in [Slots -> Nat] /\ e.kind = "Loaded"
         /\ (~Wants(e) /\ ModalKept) \/ (Wants(e) /\ AnswerShown(e))
         /\ UNCHANGED <<commands, nextQuery, snap, answered, confirmed, foreign>>
  <1> DEFINE e == Head(events)
             names == {b.ref : b \in e.found} \cap Branches
  <1>1. TypedModal(modal) /\ pending \in [Slots -> Nat] /\ snap \in Snapshots /\ snap.head \in HeadStates
    BY TypeOKParts DEF ModalPart, Snapshots
  <1>2. e.kind = "Loaded" /\ e.slot # "Remotes" /\ pending' = pending
    BY DEF RefsLoaded, Drain
  <1>3. /\ e.slot = "Branches" => e.found \in Lists(BranchKinds)
        /\ e.slot = "Merge" => e.found \in Lists(RefKinds)
        /\ e.slot \in Slots
    BY <1>2, HeadEvent, EventFields DEF RefsLoaded, Drain, IsLoad
  <1>4. UNCHANGED <<commands, nextQuery, snap, answered, confirmed, foreign>>
    BY DEF RefsLoaded, Drain, Quiet, repoVars, history, commands
  <1>5. CASE ~Wants(e)
    <2>1. modal' = modal
      BY <1>5 DEF RefsLoaded
    <2> QED BY <1>1, <1>2, <1>4, <1>5, <2>1 DEF ModalKept, SameQuestion
  <1>6. CASE Wants(e) /\ modal.kind = "Create"
    <2>1. modal' = WithNames(modal, names, snap.head)
      BY <1>6 DEF RefsLoaded, WithNames
    <2>2. /\ TypedModal(modal') /\ modal'.kind = modal.kind /\ modal'.query = modal.query
          /\ modal'.loading = FALSE /\ modal'.names = names
      <3>1. names \in SUBSET Branches
        OBVIOUS
      <3> HIDE DEF names
      <3> QED BY <1>1, <1>6, <2>1, <3>1, FormLoaded
    <2>3. AnswerShown(e)
      BY <1>2, <1>6, <2>2 DEF AnswerShown, IsPicker
    <2> QED BY <1>1, <1>2, <1>4, <1>6, <2>2, <2>3
  <1>7. CASE Wants(e) /\ modal.kind # "Create"
    <2>1. /\ modal.kind = "Branches" => e.slot = "Branches"
          /\ modal.kind = "Merge" => e.slot = "Merge"
          /\ IsPicker(modal)
      <3>1. modal.kind \in {None, "Error", "Palette", "Branches", "Merge", "Remotes", "Create", "Confirm"}
        BY <1>1, ModalFields DEF TypedModal
      <3> QED BY <1>2, <1>3, <1>7, <3>1 DEF Wants, SlotOf, Slots, IsPicker, None
    <2>2. modal' = Refreshed(WithRefs(modal, e.found), snap)
      BY <1>7 DEF RefsLoaded, WithRefs
    <2> HIDE DEF e
    <2>3. TypedModal(modal') /\ ShowsRefs(modal, modal', e.found)
      <3>1. ListFor(modal, e.found)
        BY <1>3, <2>1 DEF ListFor
      <3> QED BY <1>1, <2>1, <2>2, <3>1, LoadedShown
    <2>4. AnswerShown(e)
      BY <1>2, <1>7, <2>3 DEF AnswerShown, ShowsRefs
    <2> QED BY <1>1, <1>2, <1>4, <1>7, <2>3, <2>4 DEF e
  <1> QED BY <1>5, <1>6, <1>7

LEMMA RemotesLoadedStep ==
  ASSUME TypeOK, RemotesLoaded
  PROVE  LET e == Head(events) IN
         /\ TypedModal(modal') /\ pending' \in [Slots -> Nat] /\ e.kind = "Loaded"
         /\ \/ ~Wants(e) /\ ModalKept
            \/ Wants(e) /\ ModalReplaced
            \/ Wants(e) /\ Silent(modal') /\ pending' = pending
         /\ UNCHANGED commands \/ \E a : Entered(a)
         /\ UNCHANGED <<nextQuery, snap, answered, confirmed, foreign>>
  <1> DEFINE e == Head(events)
             sole == IF "origin" \in e.found THEN {"origin"}
                     ELSE IF Cardinality(e.found) = 1 THEN e.found ELSE {}
  <1>1. TypedModal(modal) /\ pending \in [Slots -> Nat]
    BY TypeOKParts DEF ModalPart
  <1>2. e.kind = "Loaded" /\ e.slot = "Remotes" /\ e.found \in SUBSET Remotes
    BY HeadEvent, EventFields DEF RemotesLoaded
  <1>3. UNCHANGED <<nextQuery, snap, answered, confirmed, foreign>>
    BY DEF RemotesLoaded, repoVars, history
  <1>4. \/ ~Wants(e) /\ UNCHANGED <<modal, pending, commands>>
        \/ Wants(e) /\ CloseModal /\ \E r \in sole : Enter([kind |-> "SyncTo", remote |-> r])
        \/ Wants(e) /\ SetModal(ErrorModal) /\ UNCHANGED commands
        \/ /\ Wants(e)
           /\ modal' = [modal EXCEPT !.query = 0, !.loading = FALSE,
                                     !.picker = SetItems(@, RemoteItems(e.found))]
           /\ UNCHANGED <<pending, commands>>
    BY DEF RemotesLoaded
  <1>5. sole \subseteq Remotes
    BY <1>2
  <1>6. Silent(NoModal) /\ Silent(ErrorModal)
    BY DEF Silent, NoModal, ErrorModal, SlotOf, None
  <1> HIDE DEF e, sole
  <1>7. CASE ~Wants(e) /\ UNCHANGED <<modal, pending, commands>>
    BY <1>1, <1>2, <1>3, <1>7 DEF ModalKept, SameQuestion, e
  <1>8. CASE Wants(e) /\ CloseModal /\ \E r \in sole : Enter([kind |-> "SyncTo", remote |-> r])
    <2>1. PICK r \in Remotes : Enter([kind |-> "SyncTo", remote |-> r])
      BY <1>5, <1>8
    <2>2. [kind |-> "SyncTo", remote |-> r] \in Commands
      BY DEF Commands
    <2>3. \E a : Entered(a)
      BY <2>1, <2>2 DEF Entered, Forced
    <2> QED BY <1>2, <1>3, <1>6, <1>8, <2>3, PlainModals, ModalSet DEF CloseModal, e
  <1>9. CASE Wants(e) /\ SetModal(ErrorModal) /\ UNCHANGED commands
    BY <1>2, <1>3, <1>6, <1>9, PlainModals, ModalSet DEF e
  <1>10. CASE /\ Wants(e)
              /\ modal' = [modal EXCEPT !.query = 0, !.loading = FALSE,
                                        !.picker = SetItems(@, RemoteItems(e.found))]
              /\ UNCHANGED <<pending, commands>>
    <2>1. modal.kind = "Remotes"
      <3>1. modal.kind \in {None, "Error", "Palette", "Branches", "Merge", "Remotes", "Create", "Confirm"}
        BY <1>1, ModalFields DEF TypedModal
      <3> QED BY <1>2, <1>10, <3>1 DEF Wants, SlotOf, None
    <2>2. TypedModal(modal') /\ modal'.kind = "Remotes" /\ modal'.query = 0 /\ modal'.loading = FALSE
      BY <1>1, <1>2, <1>10, <2>1, RemotesShown
    <2>3. Silent(modal')
      BY <2>2 DEF Silent, IsPicker
    <2> QED BY <1>1, <1>2, <1>3, <1>10, <2>2, <2>3 DEF e
  <1> QED BY <1>4, <1>7, <1>8, <1>9, <1>10 DEF e

LEMMA LoadFailedStep ==
  ASSUME TypeOK, LoadFailed
  PROVE  LET e == Head(events) IN
         /\ TypedModal(modal') /\ pending' \in [Slots -> Nat] /\ e.kind = "LoadFailed"
         /\ (~Wants(e) /\ ModalKept) \/ (Wants(e) /\ ModalReplaced)
         /\ UNCHANGED <<commands, nextQuery, snap, answered, confirmed, foreign>>
  <1> DEFINE e == Head(events)
  <1>1. TypedModal(modal) /\ pending \in [Slots -> Nat]
    BY TypeOKParts DEF ModalPart
  <1>2. e.kind = "LoadFailed" /\ UNCHANGED <<commands, nextQuery, snap, answered, confirmed, foreign>>
    BY DEF LoadFailed, Drain, Quiet, repoVars, history, commands
  <1>3. Silent(ErrorModal)
    BY DEF Silent, ErrorModal, SlotOf, None
  <1>4. (Wants(e) /\ SetModal(ErrorModal)) \/ (~Wants(e) /\ UNCHANGED <<modal, pending>>)
    BY DEF LoadFailed, FailLoad
  <1> HIDE DEF e
  <1>5. CASE Wants(e) /\ SetModal(ErrorModal)
    BY <1>2, <1>3, <1>5, PlainModals, ModalSet DEF e
  <1>6. CASE ~Wants(e) /\ UNCHANGED <<modal, pending>>
    BY <1>1, <1>2, <1>6 DEF ModalKept, SameQuestion, e
  <1> QED BY <1>4, <1>5, <1>6

\* The steps that install a snapshot or report a failure.
Updating == SnapshotArrives \/ RefreshFails \/ Completes \/ Fails \/ AsksToForce

LEMMA UpdatingStep ==
  ASSUME TypeOK, Updating
  PROVE  /\ ~IsLoad(Head(events)) /\ TypedModal(modal') /\ pending' \in [Slots -> Nat]
         /\ ModalKept \/ ModalReplaced
         /\ snap' \in Snapshots /\ queued' \in {queued, <<>>} /\ active' \in {active, NoCommand}
         /\ UNCHANGED <<entered, nextQuery, answered, confirmed, foreign>>
  <1> DEFINE e == Head(events)
  <1>1. TypedModal(modal) /\ pending \in [Slots -> Nat] /\ snap \in Snapshots
    BY TypeOKParts DEF ModalPart
  <1>2. /\ e.kind \in {"Snapshot", "RefreshFailed", "Completed", "Failed", "NotMerged"}
        /\ UNCHANGED <<entered, nextQuery, answered, confirmed, foreign>>
    BY DEF Updating, SnapshotArrives, RefreshFails, Completes, Fails, AsksToForce, Drain, repoVars, history
  <1>3. ~IsLoad(e) /\ e.snapshot \in Snapshots /\ (e.kind = "NotMerged" => e.action \in UnforcedDeletions)
    <2>1. events # <<>>
      BY DEF Updating, SnapshotArrives, RefreshFails, Completes, Fails, AsksToForce, Drain
    <2> QED BY <1>2, <2>1, HeadEvent, EventFields DEF IsLoad
  <1>4. CASE SnapshotArrives
    <2>1. CASE UNCHANGED <<snap, modal, pending>>
      BY <1>1, <1>2, <1>3, <1>4, <2>1 DEF SnapshotArrives, Quiet, ModalKept, SameQuestion
    <2>2. CASE RepositoryChanged(e.snapshot)
      <3> DEFINE s == e.snapshot
      <3>1. snap' = s
        BY <2>2 DEF RepositoryChanged
      <3>2. \/ IsPicker(modal) /\ modal' = Refreshed(modal, s) /\ UNCHANGED pending
            \/ CloseModal
            \/ UNCHANGED <<modal, pending>>
        BY <2>2 DEF RepositoryChanged, IsPicker
      <3>3. s \in Snapshots
        BY <1>3
      <3> HIDE DEF s
      <3>4. TypedModal(modal') /\ pending' \in [Slots -> Nat] /\ (ModalKept \/ ModalReplaced)
        BY <1>1, <3>2, <3>3, RefreshedTyped, ModalClosed DEF ModalKept, SameQuestion
      <3> QED BY <1>2, <1>3, <1>4, <3>1, <3>3, <3>4 DEF SnapshotArrives, Quiet
    <2> QED BY <1>4, <2>1, <2>2 DEF SnapshotArrives
  <1>5. CASE RefreshFails
    <2>1. ShowError /\ UNCHANGED <<snap, queued, active>>
      BY <1>5 DEF RefreshFails, Quiet
    <2> QED BY <1>1, <1>2, <1>3, <2>1, ModalClosed
  <1>6. CASE Completes
    BY <1>1, <1>2, <1>3, <1>6 DEF Completes, ModalKept, SameQuestion
  <1>7. CASE Fails
    <2>1. ShowError /\ snap' = e.snapshot /\ active' = NoCommand /\ queued' = <<>>
      BY <1>7 DEF Fails
    <2> QED BY <1>2, <1>3, <2>1, ModalClosed
  <1>8. CASE AsksToForce
    <2> DEFINE m == Confirmation(e.action)
    <2>1. e.action \in UnforcedDeletions
      BY <1>3, <1>8 DEF AsksToForce, Drain
    <2>2. SetModal(m) /\ UNCHANGED snap /\ active' = NoCommand /\ queued' = <<>>
      BY <1>8 DEF AsksToForce
    <2>3. m \in Confirmations /\ Silent(m)
      BY <2>1 DEF Confirmation, Confirmations, Silent, SlotOf, None
    <2> HIDE DEF m
    <2> QED BY <1>1, <1>2, <1>3, <2>2, <2>3, PlainModals, ModalSet
  <1> QED BY <1>4, <1>5, <1>6, <1>7, <1>8 DEF Updating

-----------------------------------------------------------------------------
(* The types hold.                                                         *)

LEMMA EnteredTyped ==
  ASSUME TypeOK, NEW a, Entered(a)
  PROVE  /\ a \in Commands /\ queued' = Append(queued, a) /\ queued' \in Seq(Commands)
         /\ active' = active /\ entered' \in Nat
  <1>1. queued \in Seq(Commands) /\ entered \in Nat /\ a \in Commands
    BY DEF TypeOK, Entered
  <1> QED BY <1>1 DEF Entered, Enter

LEMMA InputStep ==
  ASSUME TypeOK, Input, ~PaletteOpens
  PROVE  /\ TypedModal(modal') /\ pending' \in [Slots -> Nat] /\ (ModalKept \/ ModalReplaced)
         /\ UNCHANGED commands \/ \E a : Entered(a)
         /\ confirmed \subseteq confirmed' /\ confirmed' \subseteq UnforcedDeletions
         /\ UNCHANGED <<nextQuery, snap, answered, foreign>>
  <1>1. confirmed \subseteq UnforcedDeletions
    BY DEF TypeOK
  <1> QED BY <1>1, PickStep, SubmitStep, DecideStep, OtherInputStep DEF Input

\* What draining an event does, by the event and whether the modal wants it.
LEMMA AcceptStep ==
  ASSUME TypeOK, Accept
  PROVE  LET e == Head(events) IN
         /\ TypedModal(modal') /\ pending' \in [Slots -> Nat] /\ snap' \in Snapshots
         /\ \/ ~IsLoad(e) /\ (ModalKept \/ ModalReplaced)
            \/ IsLoad(e) /\ ~Wants(e) /\ ModalKept
            \/ IsLoad(e) /\ Wants(e) /\ ModalReplaced
            \/ IsLoad(e) /\ Wants(e) /\ Silent(modal') /\ pending' = pending
            \/ e.kind = "Loaded" /\ Wants(e) /\ AnswerShown(e)
         /\ \/ UNCHANGED commands
            \/ \E a : Entered(a)
            \/ queued' \in {queued, <<>>} /\ active' \in {active, NoCommand} /\ entered' = entered
         /\ UNCHANGED <<nextQuery, answered, confirmed, foreign>>
  <1>1. snap \in Snapshots
    BY DEF TypeOK
  <1>2. CASE RefsLoaded
    BY <1>1, <1>2, RefsLoadedStep DEF IsLoad
  <1>3. CASE RemotesLoaded
    BY <1>1, <1>3, RemotesLoadedStep DEF IsLoad
  <1>4. CASE LoadFailed
    BY <1>1, <1>4, LoadFailedStep DEF IsLoad
  <1>5. CASE Updating
    BY <1>5, UpdatingStep
  <1> QED BY <1>2, <1>3, <1>4, <1>5 DEF Accept, Updating

CommandPart ==
  /\ queued \in Seq(Commands) /\ active \in Commands \cup {NoCommand}
  /\ confirmed \subseteq UnforcedDeletions
  /\ DOMAIN answered = 1..MaxQueries
  /\ {entered, foreign} \subseteq Nat

LEMMA TypeOKStep ==
  ASSUME TypeOK, MergeHasHead, [Next]_vars
  PROVE  TypeOK' /\ MergeHasHead'
  <1>1. ModalPart /\ CommandPart
    BY TypeOKParts DEF CommandPart
  <1>10. ASSUME ModalPart', CommandPart' PROVE TypeOK' /\ MergeHasHead'
    BY <1>10, RepositoryPartStep, ChannelPartStep
       DEF TypeOK, RepositoryPart, ChannelPart, ModalPart, CommandPart, TypedModal, HasList, Selectable
  <1> USE DEF ModalPart, CommandPart
  <1>2. CASE UNCHANGED <<modal, pending, nextQuery, snap, queued, active, confirmed, answered, entered>>
             /\ foreign' \in Nat
    <2>1. ModalPart' /\ CommandPart'
      BY <1>1, <1>2
    <2> QED BY <1>10, <2>1
  <1>3. CASE Input /\ ~PaletteOpens
    <2>1. ModalPart' /\ CommandPart'
      BY <1>1, <1>3, InputStep, EnteredTyped DEF commands
    <2> QED BY <1>10, <2>1
  <1>4. CASE PaletteOpens
    <2>1. ModalPart' /\ CommandPart'
      BY <1>1, <1>4, PaletteOpensStep DEF commands
    <2> QED BY <1>10, <2>1
  <1>5. CASE Accept
    <2>1. <<>> \in Seq(Commands)
      OBVIOUS
    <2>2. ModalPart' /\ CommandPart'
      BY <1>1, <1>5, <2>1, AcceptStep, EnteredTyped DEF commands
    <2> QED BY <1>10, <2>2
  <1>6. CASE Dispatch
    <2>1. pending' \in [Slots -> Nat]
      BY <1>1, <1>6 DEF Dispatch
    <2>2. ModalPart' /\ CommandPart'
      BY <1>1, <1>6, <2>1 DEF Dispatch, repoVars, commands, history
    <2> QED BY <1>10, <2>2
  <1>7. CASE TakeCommand
    <2>1. queued' \in Seq(Commands) /\ active' \in Commands
      BY <1>1, <1>7, HeadOfChannel DEF TakeCommand
    <2>2. ModalPart' /\ CommandPart'
      BY <1>1, <1>7, <2>1 DEF TakeCommand, repoVars, asking, history
    <2> QED BY <1>10, <2>2
  <1>8. CASE Serve
    <2>1. DOMAIN answered' = DOMAIN answered
      BY <1>8, ServeChannels
    <2>2. ModalPart' /\ CommandPart'
      BY <1>1, <1>8, <2>1 DEF Serve, repoVars, asking, commands
    <2> QED BY <1>10, <2>2
  <1>9. CASE Foreign \/ Verify \/ Run \/ Refresh \/ UNCHANGED vars
    <2>1. foreign' \in Nat
      BY <1>1, <1>9 DEF Foreign, Verify, Run, Refresh, vars, repoVars
    <2>2. UNCHANGED <<modal, pending, nextQuery, snap, queued, active, confirmed, answered, entered>>
      BY <1>9 DEF Foreign, Verify, Run, Refresh, vars, asking, commands, history
    <2> QED BY <1>2, <2>1, <2>2
  <1> QED BY <1>3, <1>4, <1>5, <1>6, <1>7, <1>8, <1>9 DEF Next, Worker

-----------------------------------------------------------------------------
(* Queries on their way, step by step.                                     *)

LEMMA Appended ==
  ASSUME NEW T, NEW s \in Seq(T), NEW x \in T
  PROVE  LET t == Append(s, x) IN
         /\ Len(s) \in Nat /\ Len(s) + 1 \in DOMAIN t /\ t[Len(s) + 1] = x
         /\ \A i \in DOMAIN s : i \in Nat /\ i # Len(s) + 1 /\ i \in DOMAIN t /\ t[i] = s[i]
         /\ \A i \in DOMAIN t : i \in Nat /\ ((i \in DOMAIN s /\ t[i] = s[i]) \/ i = Len(s) + 1)
  OBVIOUS

LEMMA Tailed ==
  ASSUME NEW T, NEW s \in Seq(T), s # <<>>
  PROVE  LET t == Tail(s) IN
         /\ 1 \in DOMAIN s /\ s[1] = Head(s)
         /\ \A i \in DOMAIN t : i \in Nat /\ i + 1 \in DOMAIN s /\ t[i] = s[i + 1] /\ i + 1 # 1
         /\ \A i \in DOMAIN s : i \in Nat /\ (i # 1 => i - 1 \in DOMAIN t /\ t[i - 1] = s[i])
  OBVIOUS

\* No query is new in the channels; d of the first are gone.
RequestsFrom(d) ==
  \A i \in DOMAIN requests' :
    IsQuery(requests'[i]) => i \in Nat /\ i + d \in DOMAIN requests /\ requests'[i] = requests[i + d]
EventsFrom(d) ==
  \A i \in DOMAIN events' :
    IsLoad(events'[i]) => i \in Nat /\ i + d \in DOMAIN events /\ events'[i] = events[i + d]

\* Query q is still there if it was.
RequestsKeep(q) ==
  \A i \in DOMAIN requests :
    IsQuery(requests[i]) /\ requests[i].query = q => \E j \in DOMAIN requests' : requests'[j] = requests[i]
EventsKeep(q) ==
  \A i \in DOMAIN events :
    IsLoad(events[i]) /\ events[i].query = q => \E j \in DOMAIN events' : events'[j] = events[i]

NoneNew ==
  /\ RequestsFrom(0) \/ RequestsFrom(1)
  /\ EventsFrom(0) \/ EventsFrom(1)
  /\ \A s \in Slots : pending'[s] \in {0, pending[s]}
  /\ nextQuery' = nextQuery /\ answered' = answered

OnTheWay == QueriesOnce /\ QueriesNumbered /\ AnswersKept

LEMMA NoneNewKeeps ==
  ASSUME TypeOK, TypeOK', OnTheWay, NoneNew
  PROVE  OnTheWay'
  <1>1. /\ nextQuery \in Nat \ {0} /\ pending \in [Slots -> Nat] /\ pending' \in [Slots -> Nat]
    BY DEF TypeOK
  <1>2. PICK c \in {0, 1} : RequestsFrom(c)
    BY DEF NoneNew
  <1>3. PICK d \in {0, 1} : EventsFrom(d)
    BY DEF NoneNew
  <1>4. \A s \in Slots : pending'[s] \in {0, pending[s]}
    BY DEF NoneNew
  <1>5. \A i \in DOMAIN requests' :
          IsQuery(requests'[i]) => i \in Nat /\ i + c \in DOMAIN requests /\ requests'[i] = requests[i + c]
    BY <1>2 DEF RequestsFrom
  <1>6. \A i \in DOMAIN events' :
          IsLoad(events'[i]) => i \in Nat /\ i + d \in DOMAIN events /\ events'[i] = events[i + d]
    BY <1>3 DEF EventsFrom
  <1>7. QueriesOnce'
    <2>1. ASSUME NEW i \in DOMAIN requests', NEW j \in DOMAIN requests', IsQuery(requests'[i]),
                 IsQuery(requests'[j]), requests'[i].query = requests'[j].query
          PROVE  i = j
      <3>1. i + c = j + c /\ i \in Nat /\ j \in Nat
        BY <1>5, <2>1 DEF OnTheWay, QueriesOnce
      <3> QED BY <3>1
    <2>2. ASSUME NEW i \in DOMAIN events', NEW j \in DOMAIN events', IsLoad(events'[i]),
                 IsLoad(events'[j]), events'[i].query = events'[j].query
          PROVE  i = j
      <3>1. i + d = j + d /\ i \in Nat /\ j \in Nat
        BY <1>6, <2>2 DEF OnTheWay, QueriesOnce
      <3> QED BY <3>1
    <2>3. ASSUME NEW i \in DOMAIN requests', NEW j \in DOMAIN events', IsQuery(requests'[i]),
                 IsLoad(events'[j])
          PROVE  requests'[i].query # events'[j].query
      BY <1>5, <1>6, <2>3 DEF OnTheWay, QueriesOnce
    <2>4. ASSUME NEW s \in Slots, pending'[s] # 0
          PROVE  /\ \A i \in DOMAIN requests' : IsQuery(requests'[i]) => requests'[i].query # pending'[s]
                 /\ \A i \in DOMAIN events' : IsLoad(events'[i]) => events'[i].query # pending'[s]
      <3>1. pending'[s] = pending[s] /\ pending[s] # 0
        BY <1>4, <2>4
      <3> QED BY <1>5, <1>6, <3>1 DEF OnTheWay, QueriesOnce
    <2> QED BY <2>1, <2>2, <2>3, <2>4 DEF QueriesOnce, IsQuery, IsLoad
  <1>8. QueriesNumbered'
    <2>1. nextQuery' = nextQuery
      BY DEF NoneNew
    <2>2. \A s \in Slots : pending'[s] < nextQuery
      BY <1>1, <1>4 DEF OnTheWay, QueriesNumbered
    <2>3. \A i \in DOMAIN requests' : IsQuery(requests'[i]) => requests'[i].query \in 1..(nextQuery - 1)
      BY <1>5 DEF OnTheWay, QueriesNumbered
    <2>4. \A i \in DOMAIN events' : IsLoad(events'[i]) => events'[i].query \in 1..(nextQuery - 1)
      BY <1>6 DEF OnTheWay, QueriesNumbered
    <2>5. nextQuery <= MaxQueries + 1
      BY DEF OnTheWay, QueriesNumbered
    <2> QED BY <2>1, <2>2, <2>3, <2>4, <2>5 DEF QueriesNumbered, IsQuery, IsLoad
  <1>9. AnswersKept'
    <2>1. answered' = answered
      BY DEF NoneNew
    <2>2. \A i \in DOMAIN events' :
            events'[i].kind = "Loaded" => events'[i].found = answered[events'[i].query]
      BY <1>6 DEF OnTheWay, AnswersKept, IsLoad
    <2> QED BY <2>1, <2>2 DEF AnswersKept
  <1> QED BY <1>7, <1>8, <1>9 DEF OnTheWay

LEMMA SlotsStayAgreed ==
  ASSUME TypeOK, NoneNew, SlotsAgree, SameQuestion(modal, modal')
  PROVE  SlotsAgree'
  <1>1. SlotOf(modal') = SlotOf(modal)
    BY DEF SameQuestion, SlotOf
  <1>2. CASE SlotOf(modal) = None
    BY <1>1, <1>2 DEF SlotsAgree
  <1>3. CASE SlotOf(modal) # None
    <2>1. modal'.query = modal.query /\ nextQuery' = nextQuery
      BY <1>3 DEF SameQuestion, NoneNew
    <2>2. PICK c \in {0, 1} : RequestsFrom(c)
      BY DEF NoneNew
    <2>3. PICK d \in {0, 1} : EventsFrom(d)
      BY DEF NoneNew
    <2>4. modal.query < nextQuery
      BY <1>3 DEF SlotsAgree
    <2>5. ASSUME NEW i \in DOMAIN requests', IsQuery(requests'[i]), requests'[i].query = modal.query
          PROVE  requests'[i].slot = SlotOf(modal)
      BY <1>3, <2>2, <2>5 DEF RequestsFrom, SlotsAgree
    <2>6. ASSUME NEW i \in DOMAIN events', IsLoad(events'[i]), events'[i].query = modal.query
          PROVE  events'[i].slot = SlotOf(modal)
      BY <1>3, <2>3, <2>6 DEF EventsFrom, SlotsAgree
    <2> QED BY <1>1, <2>1, <2>4, <2>5, <2>6 DEF SlotsAgree, IsQuery, IsLoad
  <1> QED BY <1>2, <1>3

\* A modal that waits for nothing and shows no answer keeps every promise.
LEMMA SilentKeeps ==
  ASSUME TypeOK', QueriesNumbered', Silent(modal'), \A s \in Slots : pending'[s] = 0
  PROVE  SlotsAgree' /\ PickerShowsItsAnswer' /\ LoadingIsAnswered'
  <1>1. nextQuery' \in Nat \ {0}
    BY DEF TypeOK
  <1>2. CASE SlotOf(modal') = None
    <2>1. ~IsPicker(modal') /\ modal'.kind # "Create"
      BY <1>2 DEF SlotOf, IsPicker, None
    <2> QED BY <1>2, <2>1 DEF SlotsAgree, PickerShowsItsAnswer, LoadingIsAnswered
  <1>3. CASE modal'.query = 0 /\ modal'.loading = FALSE /\ ~IsPicker(modal')
    <2>1. SlotsAgree'
      <3>1. \A i \in DOMAIN requests' : IsQuery(requests'[i]) => requests'[i].query # 0
        BY <1>1 DEF QueriesNumbered, IsQuery
      <3>2. \A i \in DOMAIN events' : IsLoad(events'[i]) => events'[i].query # 0
        BY <1>1 DEF QueriesNumbered, IsLoad
      <3> QED BY <1>1, <1>3, <3>1, <3>2 DEF SlotsAgree, IsQuery, IsLoad
    <2>2. PickerShowsItsAnswer'
      BY <1>3 DEF PickerShowsItsAnswer
    <2>3. LoadingIsAnswered'
      BY <1>3 DEF LoadingIsAnswered, Waiting
    <2> QED BY <2>1, <2>2, <2>3
  <1> QED BY <1>2, <1>3 DEF Silent

LEMMA ReplacedAsksNothing ==
  ASSUME TypeOK, PickerShowsItsAnswer, ModalReplaced
  PROVE  Silent(modal') /\ \A s \in Slots : pending'[s] = 0
  BY DEF PickerShowsItsAnswer, ModalReplaced

\* A modal that is kept waits for its query as before.
LEMMA WaitingKept ==
  ASSUME TypeOK, NoneNew, NEW q, RequestsKeep(q), EventsKeep(q), pending' = pending
  PROVE  (q # 0 /\ \/ \E s \in Slots : pending'[s] = q
                   \/ \E i \in DOMAIN requests' : IsQuery(requests'[i]) /\ requests'[i].query = q
                   \/ \E i \in DOMAIN events' : IsLoad(events'[i]) /\ events'[i].query = q)
         <=> Waiting(q)
  <1> DEFINE asked == \E i \in DOMAIN requests : IsQuery(requests[i]) /\ requests[i].query = q
             loads == \E i \in DOMAIN events : IsLoad(events[i]) /\ events[i].query = q
             asked2 == \E i \in DOMAIN requests' : IsQuery(requests'[i]) /\ requests'[i].query = q
             loads2 == \E i \in DOMAIN events' : IsLoad(events'[i]) /\ events'[i].query = q
  <1>1. asked <=> asked2
    BY DEF NoneNew, RequestsFrom, RequestsKeep
  <1>2. loads <=> loads2
    BY DEF NoneNew, EventsFrom, EventsKeep
  <1>3. Waiting(q) <=> q # 0 /\ ((\E s \in Slots : pending[s] = q) \/ asked \/ loads)
    BY DEF Waiting, IsLoad
  <1> QED BY <1>1, <1>2, <1>3

LEMMA KeptKeeps ==
  ASSUME TypeOK, NoneNew, ModalKept, SlotsAgree, PickerShowsItsAnswer, LoadingIsAnswered,
         RequestsKeep(modal.query), EventsKeep(modal.query)
  PROVE  SlotsAgree' /\ PickerShowsItsAnswer' /\ LoadingIsAnswered'
  <1>1. SlotOf(modal') = SlotOf(modal) /\ SameQuestion(modal, modal') /\ pending' = pending
    BY DEF ModalKept, SameQuestion, SlotOf
  <1>2. SlotsAgree'
    BY <1>1, SlotsStayAgreed
  <1>3. PickerShowsItsAnswer'
    <2>1. answered' = answered
      BY DEF NoneNew
    <2>2. IsPicker(modal) => SlotOf(modal) # None
      BY DEF IsPicker, SlotOf, None
    <2>3. modal.kind = "Create" => SlotOf(modal) # None
      BY DEF SlotOf, None
    <2>4. IsPicker(modal') <=> IsPicker(modal)
      BY <1>1 DEF SameQuestion, IsPicker
    <2>5. (IsPicker(modal) => modal'.loaded = modal.loaded)
          /\ (modal.kind = "Create" => modal'.names = modal.names)
          /\ (SlotOf(modal) # None => modal'.query = modal.query /\ modal'.loading = modal.loading)
          /\ modal'.kind = modal.kind
      BY <1>1 DEF SameQuestion
    <2>6. IsPicker(modal') /\ ~modal'.loading => modal'.loaded = answered'[modal'.query]
      BY <2>1, <2>2, <2>4, <2>5 DEF PickerShowsItsAnswer
    <2>7. modal'.kind = "Create" /\ ~modal'.loading /\ modal'.query # 0 =>
            modal'.names = {b.ref : b \in answered'[modal'.query]} \cap Branches
      BY <2>1, <2>3, <2>5 DEF PickerShowsItsAnswer
    <2>8. \A s \in Slots : pending'[s] # 0 => SlotOf(modal') = s /\ modal'.query = pending'[s]
      BY <1>1, <2>5 DEF PickerShowsItsAnswer, Slots, None
    <2> QED BY <2>6, <2>7, <2>8 DEF PickerShowsItsAnswer, IsPicker
  <1>4. LoadingIsAnswered'
    <2>1. CASE SlotOf(modal) = None
      BY <1>1, <2>1 DEF LoadingIsAnswered
    <2>2. CASE SlotOf(modal) # None
      <3>1. modal'.query = modal.query /\ modal'.loading = modal.loading
        BY <1>1, <2>2 DEF SameQuestion
      <3> DEFINE q == modal.query
      <3> DEFINE later ==
               (q # 0 /\ \/ \E s \in Slots : pending'[s] = q
                         \/ \E i \in DOMAIN requests' : IsQuery(requests'[i]) /\ requests'[i].query = q
                         \/ \E i \in DOMAIN events' : IsLoad(events'[i]) /\ events'[i].query = q)
      <3>2. later <=> Waiting(q)
        BY <1>1, WaitingKept
      <3>3. later <=> Waiting(modal.query)'
        BY <3>1 DEF Waiting, IsQuery, IsLoad
      <3> QED BY <1>1, <2>2, <3>1, <3>2, <3>3 DEF LoadingIsAnswered
    <2> QED BY <2>1, <2>2
  <1> QED BY <1>2, <1>3, <1>4

\* How the moves of the channels look to the queries.
LEMMA RequestsUntouched ==
  ASSUME TypeOK,
         \/ requests' = requests
         \/ \E a \in Commands : requests' = Append(requests, a)
         \/ requests # <<>> /\ Head(requests) \in Commands /\ requests' = Tail(requests)
  PROVE  (RequestsFrom(0) \/ RequestsFrom(1)) /\ \A q : RequestsKeep(q)
  <1>1. requests \in Seq(Commands \cup Queries)
    BY DEF TypeOK
  <1>2. \A a \in Commands : ~IsQuery(a)
    BY CommandFields
  <1>3. CASE requests' = requests
    <2>1. \A i \in DOMAIN requests : i \in Nat /\ i + 0 = i
      BY <1>1
    <2> QED BY <1>3, <2>1 DEF RequestsFrom, RequestsKeep
  <1>4. CASE \E a \in Commands : requests' = Append(requests, a)
    <2>1. PICK a \in Commands : requests' = Append(requests, a)
      BY <1>4
    <2>2. /\ \A i \in DOMAIN requests : i \in DOMAIN requests' /\ requests'[i] = requests[i]
          /\ \A i \in DOMAIN requests' :
               i \in Nat /\ ((i \in DOMAIN requests /\ requests'[i] = requests[i]) \/ requests'[i] = a)
      BY <1>1, <2>1, Appended
    <2>3. \A i \in Nat : i + 0 = i
      OBVIOUS
    <2> QED BY <1>2, <2>2, <2>3 DEF RequestsFrom, RequestsKeep
  <1>5. CASE requests # <<>> /\ Head(requests) \in Commands /\ requests' = Tail(requests)
    <2>1. /\ requests[1] = Head(requests)
          /\ \A i \in DOMAIN requests' : i \in Nat /\ i + 1 \in DOMAIN requests /\ requests'[i] = requests[i + 1]
          /\ \A i \in DOMAIN requests : i # 1 => i - 1 \in DOMAIN requests' /\ requests'[i - 1] = requests[i]
      BY <1>1, <1>5, Tailed
    <2>2. ~IsQuery(requests[1])
      BY <1>2, <1>5, <2>1
    <2> QED BY <2>1, <2>2 DEF RequestsFrom, RequestsKeep
  <1> QED BY <1>3, <1>4, <1>5

LEMMA EventsUntouched ==
  ASSUME TypeOK, events' = events \/ \E e \in Updates : events' = Append(events, e)
  PROVE  (EventsFrom(0) \/ EventsFrom(1)) /\ \A q : EventsKeep(q)
  <1>1. events \in Seq(Loads \cup Updates)
    BY DEF TypeOK
  <1>2. \A e \in Updates : ~IsLoad(e)
    BY EventFields
  <1>3. CASE events' = events
    <2>1. \A i \in DOMAIN events : i \in Nat /\ i + 0 = i
      BY <1>1
    <2> QED BY <1>3, <2>1 DEF EventsFrom, EventsKeep
  <1>4. CASE \E e \in Updates : events' = Append(events, e)
    <2>1. PICK e \in Updates : events' = Append(events, e)
      BY <1>4
    <2>2. /\ \A i \in DOMAIN events : i \in DOMAIN events' /\ events'[i] = events[i]
          /\ \A i \in DOMAIN events' :
               i \in Nat /\ ((i \in DOMAIN events /\ events'[i] = events[i]) \/ events'[i] = e)
      BY <1>1, <2>1, Appended
    <2>3. \A i \in Nat : i + 0 = i
      OBVIOUS
    <2> QED BY <1>2, <2>2, <2>3 DEF EventsFrom, EventsKeep
  <1> QED BY <1>3, <1>4

LEMMA EventsDrained ==
  ASSUME TypeOK, events # <<>>, events' = Tail(events)
  PROVE  /\ EventsFrom(1) /\ 1 \in DOMAIN events /\ events[1] = Head(events)
         /\ \A q : (IsLoad(Head(events)) => Head(events).query # q) => EventsKeep(q)
         /\ \A i \in DOMAIN events' : i \in Nat /\ i + 1 \in DOMAIN events /\ i + 1 # 1 /\ events'[i] = events[i + 1]
  <1>1. events \in Seq(Loads \cup Updates)
    BY DEF TypeOK
  <1>2. /\ 1 \in DOMAIN events /\ events[1] = Head(events)
        /\ \A i \in DOMAIN events' :
             i \in Nat /\ i + 1 \in DOMAIN events /\ events'[i] = events[i + 1] /\ i + 1 # 1
        /\ \A i \in DOMAIN events : i # 1 => i - 1 \in DOMAIN events' /\ events'[i - 1] = events[i]
    BY <1>1, Tailed
  <1> QED BY <1>2 DEF EventsFrom, EventsKeep

Promises == SlotsAgree /\ PickerShowsItsAnswer /\ LoadingIsAnswered

\* Steps that touch no query.
LEMMA QuietStep ==
  ASSUME TypeOK, TypeOK', OnTheWay, Promises,
         nextQuery' = nextQuery, answered' = answered,
         \/ requests' = requests
         \/ \E a \in Commands : requests' = Append(requests, a)
         \/ requests # <<>> /\ Head(requests) \in Commands /\ requests' = Tail(requests),
         events' = events \/ \E e \in Updates : events' = Append(events, e),
         ModalKept \/ ModalReplaced
  PROVE  OnTheWay' /\ Promises'
  <1>1. /\ RequestsFrom(0) \/ RequestsFrom(1)
        /\ EventsFrom(0) \/ EventsFrom(1)
        /\ \A q : RequestsKeep(q) /\ EventsKeep(q)
    BY RequestsUntouched, EventsUntouched
  <1>2. \A s \in Slots : pending'[s] \in {0, pending[s]}
    BY DEF ModalKept, ModalReplaced
  <1>3. NoneNew
    BY <1>1, <1>2 DEF NoneNew
  <1>4. OnTheWay'
    BY <1>3, NoneNewKeeps
  <1>5. CASE ModalKept
    BY <1>1, <1>3, <1>4, <1>5, KeptKeeps DEF Promises
  <1>6. CASE ModalReplaced
    BY <1>4, <1>6, ReplacedAsksNothing, SilentKeeps DEF Promises, OnTheWay
  <1> QED BY <1>4, <1>5, <1>6

\* Draining an event: the answer to the open modal, or anything else.
LEMMA DrainStep ==
  ASSUME TypeOK, TypeOK', OnTheWay, Promises, Accept
  PROVE  OnTheWay' /\ Promises'
  <1> DEFINE e == Head(events)
             q == modal.query
  <1>1. /\ requests' = requests /\ events # <<>> /\ events' = Tail(events)
        /\ nextQuery' = nextQuery /\ answered' = answered
    BY AcceptChannels, AcceptStep
  <1>2. /\ \/ ~IsLoad(e) /\ (ModalKept \/ ModalReplaced)
           \/ IsLoad(e) /\ ~Wants(e) /\ ModalKept
           \/ IsLoad(e) /\ Wants(e) /\ ModalReplaced
           \/ IsLoad(e) /\ Wants(e) /\ Silent(modal') /\ pending' = pending
           \/ e.kind = "Loaded" /\ Wants(e) /\ AnswerShown(e)
    BY AcceptStep
  <1>3. \A s \in Slots : pending'[s] \in {0, pending[s]}
    BY <1>2 DEF ModalKept, ModalReplaced, AnswerShown
  <1>4. EventsFrom(1) /\ 1 \in DOMAIN events /\ events[1] = e
    BY <1>1, EventsDrained
  <1>5. RequestsFrom(0) /\ \A x : RequestsKeep(x)
    <2>1. \A i \in DOMAIN requests : i \in Nat /\ i + 0 = i
      BY DEF TypeOK
    <2> QED BY <1>1, <2>1 DEF RequestsFrom, RequestsKeep
  <1>6. NoneNew
    BY <1>1, <1>3, <1>4, <1>5 DEF NoneNew
  <1>7. OnTheWay'
    BY <1>6, NoneNewKeeps
  <1>8. e \in Loads \cup Updates
    BY <1>1, HeadEvent
  <1>9. ASSUME IsLoad(e), Wants(e)
        PROVE  /\ \A s \in Slots : pending[s] = 0
               /\ SlotOf(modal) # None /\ e.query = q /\ q # 0
               /\ \A i \in DOMAIN requests : IsQuery(requests[i]) => requests[i].query # q
               /\ \A i \in DOMAIN events' : IsLoad(events'[i]) => events'[i].query # q
    <2>1. SlotOf(modal) = e.slot /\ e.query = q /\ e.slot \in Slots
      BY <1>8, <1>9, EventFields DEF Wants
    <2>2. e.query \in 1..(nextQuery - 1) /\ nextQuery \in Nat
      BY <1>4, <1>9 DEF OnTheWay, QueriesNumbered, TypeOK
    <2>3. \A s \in Slots : pending[s] # 0 => pending[s] # q
      BY <1>4, <1>9, <2>1 DEF OnTheWay, QueriesOnce
    <2>4. \A s \in Slots : pending[s] # 0 => pending[s] = q
      BY DEF Promises, PickerShowsItsAnswer
    <2>5. \A i \in DOMAIN requests : IsQuery(requests[i]) => requests[i].query # q
      BY <1>4, <1>9, <2>1 DEF OnTheWay, QueriesOnce
    <2>6. \A i \in DOMAIN events' : IsLoad(events'[i]) => events'[i].query # q
      <3>1. \A i \in DOMAIN events' : i + 1 \in DOMAIN events /\ i + 1 # 1 /\ events'[i] = events[i + 1]
        BY <1>1, EventsDrained
      <3>2. ASSUME NEW i \in DOMAIN events', IsLoad(events'[i]) PROVE events'[i].query # q
        BY <1>4, <1>9, <2>1, <3>1, <3>2 DEF OnTheWay, QueriesOnce
      <3> QED BY <3>2
    <2>7. e.slot # None /\ q # 0
      BY <2>1, <2>2 DEF Slots, None
    <2> QED BY <2>1, <2>3, <2>4, <2>5, <2>6, <2>7
  <1>10. ASSUME IsLoad(e), ~Wants(e), SlotOf(modal) # None PROVE e.query # q
    BY <1>4, <1>10 DEF Promises, SlotsAgree, Wants
  <1> HIDE DEF e, q
  <1>11. CASE (~IsLoad(e) \/ ~Wants(e)) /\ ModalKept
    <2>1. SlotOf(modal) # None => EventsKeep(q)
      <3>1. (IsLoad(e) => e.query # q) => EventsKeep(q)
        BY <1>1, EventsDrained DEF e
      <3> QED BY <1>10, <1>11, <3>1
    <2>2. CASE SlotOf(modal) # None
      BY <1>5, <1>6, <1>7, <1>11, <2>1, <2>2, KeptKeeps DEF Promises, q
    <2>3. CASE SlotOf(modal) = None
      <3>1. SlotOf(modal') = None /\ pending' = pending
        BY <1>11, <2>3 DEF ModalKept, SameQuestion, SlotOf
      <3>2. \A s \in Slots : pending[s] = 0
        BY <2>3 DEF Promises, PickerShowsItsAnswer, Slots, None
      <3> QED BY <1>7, <3>1, <3>2, SilentKeeps DEF Promises, OnTheWay, Silent
    <2> QED BY <2>2, <2>3
  <1>12. CASE ModalReplaced
    BY <1>7, <1>12, ReplacedAsksNothing, SilentKeeps DEF Promises, OnTheWay
  <1>13. CASE IsLoad(e) /\ Wants(e) /\ Silent(modal') /\ pending' = pending
    BY <1>7, <1>9, <1>13, SilentKeeps DEF Promises, OnTheWay
  <1>14. CASE e.kind = "Loaded" /\ Wants(e) /\ AnswerShown(e)
    <2>1. IsLoad(e)
      BY <1>14 DEF IsLoad
    <2>2. e.found = answered[q]
      BY <1>4, <1>9, <1>14, <2>1 DEF OnTheWay, AnswersKept
    <2>3. /\ modal'.kind = modal.kind /\ modal'.query = q /\ modal'.loading = FALSE /\ pending' = pending
          /\ IsPicker(modal) => modal'.loaded = e.found
          /\ modal.kind = "Create" => modal'.names = {b.ref : b \in e.found} \cap Branches
      BY <1>14 DEF AnswerShown, q
    <2>4. PickerShowsItsAnswer'
      <3>1. \A s \in Slots : pending'[s] = 0
        BY <1>9, <1>14, <2>1, <2>3
      <3> QED BY <1>1, <2>2, <2>3, <3>1 DEF PickerShowsItsAnswer, IsPicker
    <2>5. SlotOf(modal') = SlotOf(modal)
      BY <2>3 DEF SlotOf
    <2>6. SlotsAgree'
      <3>1. q < nextQuery
        BY <1>9, <1>14, <2>1 DEF Promises, SlotsAgree, q
      <3> QED BY <1>1, <1>9, <1>14, <2>1, <2>3, <3>1 DEF SlotsAgree, IsQuery, IsLoad
    <2>7. LoadingIsAnswered'
      <3>1. ~Waiting(modal.query)'
        BY <1>1, <1>9, <1>14, <2>1, <2>3 DEF Waiting, IsQuery, IsLoad
      <3> QED BY <2>3, <3>1 DEF LoadingIsAnswered
    <2> QED BY <1>7, <2>4, <2>6, <2>7 DEF Promises
  <1> QED BY <1>2, <1>11, <1>12, <1>13, <1>14 DEF e

\* Opening a picker gives its query the next number.
LEMMA OpeningStep ==
  ASSUME TypeOK, TypeOK', OnTheWay, Promises, PaletteOpens
  PROVE  OnTheWay' /\ Promises'
  <1> DEFINE n == nextQuery
  <1>1. /\ SlotOf(modal) = None /\ SlotOf(modal') \in Slots /\ modal'.query = n /\ modal'.loading = TRUE
        /\ pending' = [pending EXCEPT ![SlotOf(modal')] = n]
        /\ n <= MaxQueries /\ nextQuery' = n + 1
        /\ UNCHANGED <<requests, events, answered>>
    BY PaletteOpensStep, UserChannels DEF Input
  <1>2. n \in Nat \ {0} /\ pending \in [Slots -> Nat] /\ MaxQueries \in Nat
    BY BranchesAssumption DEF TypeOK
  <1>3. \A s \in Slots : pending[s] = 0
    BY <1>1 DEF Promises, PickerShowsItsAnswer, Slots, None
  <1>4. \A s \in Slots : pending'[s] = IF s = SlotOf(modal') THEN n ELSE 0
    BY <1>1, <1>2, <1>3
  <1>5. \A i \in DOMAIN requests : IsQuery(requests[i]) => requests[i].query \in 1..(n - 1)
    BY DEF OnTheWay, QueriesNumbered
  <1>6. \A i \in DOMAIN events : IsLoad(events[i]) => events[i].query \in 1..(n - 1)
    BY DEF OnTheWay, QueriesNumbered
  <1> HIDE DEF n
  <1>7. /\ \A i \in DOMAIN requests : IsQuery(requests[i]) => requests[i].query # n
        /\ \A i \in DOMAIN events : IsLoad(events[i]) => events[i].query # n
    BY <1>2, <1>5, <1>6
  <1>8. QueriesOnce'
    <2>1. \A s \in Slots : pending'[s] # 0 => pending'[s] = n
      BY <1>4
    <2> QED BY <1>1, <1>7, <2>1 DEF OnTheWay, QueriesOnce, IsQuery, IsLoad
  <1>9. QueriesNumbered'
    <2>1. \A x \in 1..(n - 1) : x \in 1..((n + 1) - 1)
      BY <1>2
    <2>2. n + 1 <= MaxQueries + 1 /\ \A s \in Slots : pending'[s] < n + 1
      BY <1>1, <1>2, <1>4
    <2> QED BY <1>1, <1>5, <1>6, <2>1, <2>2 DEF QueriesNumbered, IsQuery, IsLoad
  <1>10. AnswersKept'
    BY <1>1 DEF OnTheWay, AnswersKept
  <1>11. SlotsAgree'
    BY <1>1, <1>2, <1>7 DEF SlotsAgree, IsQuery, IsLoad
  <1>12. PickerShowsItsAnswer'
    BY <1>1, <1>4 DEF PickerShowsItsAnswer
  <1>13. LoadingIsAnswered'
    <2>1. pending'[SlotOf(modal')] = n /\ n # 0
      BY <1>1, <1>2, <1>4
    <2> QED BY <1>1, <2>1 DEF LoadingIsAnswered, Waiting
  <1> QED BY <1>8, <1>9, <1>10, <1>11, <1>12, <1>13 DEF OnTheWay, Promises

\* The event loop sends the query of the open modal.
LEMMA SendingStep ==
  ASSUME TypeOK, TypeOK', OnTheWay, Promises, Dispatch
  PROVE  OnTheWay' /\ Promises'
  <1>1. PICK s \in Slots :
          /\ pending[s] # 0
          /\ requests' = Append(requests, [kind |-> "Query", slot |-> s, query |-> pending[s]])
          /\ pending' = [pending EXCEPT ![s] = 0]
    BY DEF Dispatch
  <1> DEFINE q == pending[s]
             r == [kind |-> "Query", slot |-> s, query |-> q]
             n == Len(requests) + 1
  <1>2. UNCHANGED <<events, modal, nextQuery, answered>>
    BY DEF Dispatch, history
  <1>3. pending \in [Slots -> Nat] /\ requests \in Seq(Commands \cup Queries) /\ nextQuery \in Nat \ {0}
    BY DEF TypeOK
  <1>4. r \in Commands \cup Queries
    BY <1>3 DEF Queries
  <1>5. /\ n \in DOMAIN requests' /\ requests'[n] = r
        /\ \A i \in DOMAIN requests : i # n /\ i \in DOMAIN requests' /\ requests'[i] = requests[i]
        /\ \A i \in DOMAIN requests' : (i \in DOMAIN requests /\ requests'[i] = requests[i]) \/ i = n
    BY <1>1, <1>3, <1>4, Appended
  <1>6. SlotOf(modal) = s /\ modal.query = q /\ s # None /\ \A t \in Slots : t # s => pending[t] = 0
    BY <1>1 DEF Promises, PickerShowsItsAnswer, Slots, None
  <1>7. IsQuery(r) /\ r.query = q /\ r.slot = s /\ q \in 1..(nextQuery - 1)
    BY <1>1, <1>3 DEF IsQuery, OnTheWay, QueriesNumbered
  <1>8. /\ \A i \in DOMAIN requests : IsQuery(requests[i]) => requests[i].query # q
        /\ \A i \in DOMAIN events : IsLoad(events[i]) => events[i].query # q
    BY <1>1 DEF OnTheWay, QueriesOnce
  <1>9. \A t \in Slots : pending'[t] = 0
    BY <1>1, <1>3, <1>6
  <1> HIDE DEF q, r, n
  <1>10. QueriesOnce'
    <2>1. ASSUME NEW i \in DOMAIN requests', NEW j \in DOMAIN requests', IsQuery(requests'[i]),
                 IsQuery(requests'[j]), requests'[i].query = requests'[j].query
          PROVE  i = j
      BY <1>5, <1>7, <1>8, <2>1 DEF OnTheWay, QueriesOnce
    <2>2. ASSUME NEW i \in DOMAIN requests', NEW j \in DOMAIN events, IsQuery(requests'[i]),
                 IsLoad(events[j])
          PROVE  requests'[i].query # events[j].query
      BY <1>5, <1>7, <1>8, <2>2 DEF OnTheWay, QueriesOnce
    <2>3. \A i, j \in DOMAIN events :
            IsLoad(events[i]) /\ IsLoad(events[j]) /\ events[i].query = events[j].query => i = j
      BY DEF OnTheWay, QueriesOnce
    <2> QED BY <1>2, <1>9, <2>1, <2>2, <2>3 DEF QueriesOnce, IsQuery, IsLoad
  <1>11. QueriesNumbered'
    <2>1. \A i \in DOMAIN requests' : IsQuery(requests'[i]) => requests'[i].query \in 1..(nextQuery - 1)
      BY <1>5, <1>7 DEF OnTheWay, QueriesNumbered
    <2>2. \A t \in Slots : pending'[t] < nextQuery
      BY <1>3, <1>9
    <2> QED BY <1>2, <2>1, <2>2 DEF OnTheWay, QueriesNumbered, IsQuery, IsLoad
  <1>12. AnswersKept'
    BY <1>2 DEF OnTheWay, AnswersKept
  <1>13. SlotsAgree'
    <2>1. \A i \in DOMAIN requests' :
            IsQuery(requests'[i]) /\ requests'[i].query = modal.query => requests'[i].slot = SlotOf(modal)
      BY <1>5, <1>6, <1>7, <1>8
    <2> QED BY <1>2, <1>6, <2>1 DEF Promises, SlotsAgree, IsQuery, IsLoad
  <1>14. PickerShowsItsAnswer'
    BY <1>2, <1>9 DEF Promises, PickerShowsItsAnswer
  <1>15. LoadingIsAnswered'
    <2>1. q # 0
      BY <1>1 DEF q
    <2>2. modal.loading
      BY <1>1, <1>6, <2>1 DEF Promises, LoadingIsAnswered, Waiting, q
    <2>3. Waiting(modal.query)'
      BY <1>2, <1>5, <1>6, <1>7, <2>1 DEF Waiting, IsQuery
    <2> QED BY <1>2, <2>2, <2>3 DEF LoadingIsAnswered
  <1> QED BY <1>10, <1>11, <1>12, <1>13, <1>14, <1>15 DEF OnTheWay, Promises

\* The worker answers the query at the head of its channel.
LEMMA ServingStep ==
  ASSUME TypeOK, TypeOK', OnTheWay, Promises, Serve
  PROVE  OnTheWay' /\ Promises'
  <1>1. /\ requests # <<>> /\ Head(requests) \in Queries /\ requests' = Tail(requests)
        /\ \E e \in Loads :
             /\ e.slot = Head(requests).slot /\ e.query = Head(requests).query
             /\ events' = Append(events, e)
             /\ \/ e.kind = "Loaded" /\ answered' = [answered EXCEPT ![e.query] = e.found]
                \/ e.kind = "LoadFailed" /\ answered' = answered
    BY ServeChannels
  <1>2. PICK e \in Loads :
             /\ e.slot = Head(requests).slot /\ e.query = Head(requests).query
             /\ events' = Append(events, e)
             /\ \/ e.kind = "Loaded" /\ answered' = [answered EXCEPT ![e.query] = e.found]
                \/ e.kind = "LoadFailed" /\ answered' = answered
    BY <1>1
  <1> DEFINE q == e.query
             n == Len(events) + 1
  <1>3. UNCHANGED <<pending, modal, nextQuery>>
    BY DEF Serve, asking
  <1>4. /\ requests \in Seq(Commands \cup Queries) /\ events \in Seq(Loads \cup Updates)
        /\ nextQuery \in Nat \ {0} /\ MaxQueries \in Nat /\ DOMAIN answered = 1..MaxQueries
    BY BranchesAssumption DEF TypeOK
  <1>5. /\ n \in DOMAIN events' /\ events'[n] = e
        /\ \A i \in DOMAIN events : i # n /\ i \in DOMAIN events' /\ events'[i] = events[i]
        /\ \A i \in DOMAIN events' : (i \in DOMAIN events /\ events'[i] = events[i]) \/ i = n
    BY <1>2, <1>4, Appended
  <1>6. /\ 1 \in DOMAIN requests /\ requests[1] = Head(requests)
        /\ \A i \in DOMAIN requests' :
             i \in Nat /\ i + 1 \in DOMAIN requests /\ requests'[i] = requests[i + 1] /\ i + 1 # 1
        /\ \A i \in DOMAIN requests : i # 1 => i - 1 \in DOMAIN requests' /\ requests'[i - 1] = requests[i]
    BY <1>1, <1>4, Tailed
  <1>7. IsQuery(requests[1]) /\ requests[1].query = q /\ requests[1].slot = e.slot
    BY <1>1, <1>2, <1>6 DEF IsQuery, Queries
  <1>8. IsLoad(e) /\ e.slot \in Slots
    BY EventFields DEF Loads, IsLoad
  <1>9. q \in 1..(nextQuery - 1) /\ q \in 1..MaxQueries /\ q # 0
    <2>1. q \in 1..(nextQuery - 1) /\ nextQuery <= MaxQueries + 1
      BY <1>6, <1>7 DEF OnTheWay, QueriesNumbered
    <2> QED BY <1>4, <2>1
  <1>10. /\ \A i \in DOMAIN requests' : IsQuery(requests'[i]) => requests'[i].query # q
         /\ \A i \in DOMAIN events : IsLoad(events[i]) => events[i].query # q
         /\ \A s \in Slots : pending[s] # q
    <2>1. ASSUME NEW i \in DOMAIN requests', IsQuery(requests'[i]) PROVE requests'[i].query # q
      BY <1>6, <1>7, <2>1 DEF OnTheWay, QueriesOnce
    <2>2. \A i \in DOMAIN events : IsLoad(events[i]) => events[i].query # q
      BY <1>6, <1>7 DEF OnTheWay, QueriesOnce
    <2>3. \A s \in Slots : pending[s] # q
      BY <1>6, <1>7, <1>9 DEF OnTheWay, QueriesOnce
    <2> QED BY <2>1, <2>2, <2>3
  <1>11. /\ \A x : x # q => answered'[x] = answered[x]
         /\ e.kind = "Loaded" => answered'[q] = e.found
    <2>1. CASE e.kind = "Loaded"
      <3>1. answered' = [answered EXCEPT ![q] = e.found]
        BY <1>2, <2>1
      <3> QED BY <1>4, <1>9, <3>1
    <2>2. CASE e.kind # "Loaded"
      BY <1>2, <2>2
    <2> QED BY <2>1, <2>2
  <1> HIDE DEF q, n
  <1>12. e.query = q
    BY DEF q
  <1>13. QueriesOnce'
    <2>1. ASSUME NEW i \in DOMAIN requests', NEW j \in DOMAIN requests', IsQuery(requests'[i]),
                 IsQuery(requests'[j]), requests'[i].query = requests'[j].query
          PROVE  i = j
      <3>1. i + 1 = j + 1 /\ i \in Nat /\ j \in Nat
        BY <1>6, <2>1 DEF OnTheWay, QueriesOnce
      <3> QED BY <3>1
    <2>2. ASSUME NEW i \in DOMAIN events', NEW j \in DOMAIN events', IsLoad(events'[i]),
                 IsLoad(events'[j]), events'[i].query = events'[j].query
          PROVE  i = j
      BY <1>5, <1>10, <1>12, <2>2 DEF OnTheWay, QueriesOnce
    <2>3. ASSUME NEW i \in DOMAIN requests', NEW j \in DOMAIN events', IsQuery(requests'[i]),
                 IsLoad(events'[j])
          PROVE  requests'[i].query # events'[j].query
      BY <1>5, <1>6, <1>10, <1>12, <2>3 DEF OnTheWay, QueriesOnce
    <2>4. ASSUME NEW s \in Slots, pending[s] # 0
          PROVE  /\ \A i \in DOMAIN requests' : IsQuery(requests'[i]) => requests'[i].query # pending[s]
                 /\ \A i \in DOMAIN events' : IsLoad(events'[i]) => events'[i].query # pending[s]
      BY <1>5, <1>6, <1>10, <1>12, <2>4 DEF OnTheWay, QueriesOnce
    <2> QED BY <1>3, <2>1, <2>2, <2>3, <2>4 DEF QueriesOnce, IsQuery, IsLoad
  <1>14. QueriesNumbered'
    <2>1. \A i \in DOMAIN requests' : IsQuery(requests'[i]) => requests'[i].query \in 1..(nextQuery - 1)
      BY <1>6 DEF OnTheWay, QueriesNumbered
    <2>2. \A i \in DOMAIN events' : IsLoad(events'[i]) => events'[i].query \in 1..(nextQuery - 1)
      BY <1>5, <1>9, <1>12 DEF OnTheWay, QueriesNumbered
    <2> QED BY <1>3, <2>1, <2>2 DEF OnTheWay, QueriesNumbered, IsQuery, IsLoad
  <1>15. AnswersKept'
    <2> SUFFICES ASSUME NEW i \in DOMAIN events', events'[i].kind = "Loaded"
                 PROVE  events'[i].found = answered'[events'[i].query]
      BY DEF AnswersKept
    <2>1. CASE i = n
      BY <1>5, <1>11, <1>12, <2>1
    <2>2. CASE i \in DOMAIN events /\ events'[i] = events[i]
      BY <1>10, <1>11, <2>2 DEF OnTheWay, AnswersKept, IsLoad
    <2> QED BY <1>5, <2>1, <2>2
  <1>16. SlotsAgree'
    <2> SUFFICES ASSUME SlotOf(modal) # None PROVE SlotsAgree'
      BY <1>3 DEF SlotsAgree
    <2>1. \A i \in DOMAIN requests' :
            IsQuery(requests'[i]) /\ requests'[i].query = modal.query => requests'[i].slot = SlotOf(modal)
      BY <1>6 DEF Promises, SlotsAgree
    <2>2. q = modal.query => e.slot = SlotOf(modal)
      BY <1>6, <1>7 DEF Promises, SlotsAgree
    <2>3. \A i \in DOMAIN events' :
            IsLoad(events'[i]) /\ events'[i].query = modal.query => events'[i].slot = SlotOf(modal)
      BY <1>5, <1>12, <2>2 DEF Promises, SlotsAgree
    <2> QED BY <1>3, <2>1, <2>3 DEF Promises, SlotsAgree, IsQuery, IsLoad
  <1>17. ASSUME SlotOf(modal) # None, ~modal.loading PROVE modal.query # q
    <2>1. ~Waiting(modal.query)
      BY <1>17 DEF Promises, LoadingIsAnswered
    <2> QED BY <1>6, <1>7, <1>9, <2>1 DEF Waiting
  <1>18. PickerShowsItsAnswer'
    <2>1. (IsPicker(modal) \/ modal.kind = "Create") => SlotOf(modal) # None
      BY DEF IsPicker, SlotOf, None
    <2>2. (IsPicker(modal) \/ modal.kind = "Create") /\ ~modal.loading =>
            answered'[modal.query] = answered[modal.query]
      BY <1>11, <1>17, <2>1
    <2> QED BY <1>3, <2>2 DEF Promises, PickerShowsItsAnswer
  <1>19. LoadingIsAnswered'
    <2>1. CASE modal.query = q
      <3>1. Waiting(modal.query)'
        BY <1>3, <1>5, <1>8, <1>9, <1>12, <2>1 DEF Waiting, IsLoad
      <3>2. SlotOf(modal) # None => modal.loading
        BY <1>17, <2>1
      <3> QED BY <1>3, <3>1, <3>2 DEF LoadingIsAnswered
    <2>2. CASE modal.query # q
      <3>1. \A i \in DOMAIN requests :
              IsQuery(requests[i]) /\ requests[i].query = modal.query =>
                \E j \in DOMAIN requests' : requests'[j] = requests[i]
        BY <1>6, <1>7, <2>2
      <3>2. (\E i \in DOMAIN requests : IsQuery(requests[i]) /\ requests[i].query = modal.query)
              <=> \E i \in DOMAIN requests' : IsQuery(requests'[i]) /\ requests'[i].query = modal.query
        BY <1>6, <3>1
      <3>3. (\E i \in DOMAIN events : IsLoad(events[i]) /\ events[i].query = modal.query)
              <=> \E i \in DOMAIN events' : IsLoad(events'[i]) /\ events'[i].query = modal.query
        BY <1>5, <1>12, <2>2
      <3>4. Waiting(modal.query)' <=> Waiting(modal.query)
        BY <1>3, <3>2, <3>3 DEF Waiting, IsQuery, IsLoad
      <3> QED BY <1>3, <3>4 DEF Promises, LoadingIsAnswered
    <2> QED BY <2>1, <2>2
  <1> QED BY <1>13, <1>14, <1>15, <1>16, <1>18, <1>19 DEF OnTheWay, Promises

LEMMA IInvParts == IInv <=> TypeOK /\ MergeHasHead /\ OnTheWay /\ Promises
  BY DEF IInv, OnTheWay, Promises

LEMMA InitIInv == Init => IInv
  <1> SUFFICES ASSUME Init PROVE IInv
    OBVIOUS
  <1>1. repo \in Repositories /\ MaxQueries \in Nat
    BY BranchesAssumption DEF Init
  <1>2. Snapshot(repo) \in Snapshots
    BY <1>1, SnapshotTyped
  <1>3. modal = NoModal /\ NoModal.kind = None /\ SlotOf(modal) = None /\ ~HasList(modal)
    BY DEF Init, NoModal, SlotOf, None, HasList
  <1>4. \A s \in Slots : pending[s] = 0
    BY DEF Init
  <1>5. requests = <<>> /\ events = <<>> /\ DOMAIN requests = {} /\ DOMAIN events = {}
    BY DEF Init
  <1>6. TypeOK /\ MergeHasHead
    <2>1. RepositoryPart
      BY <1>1 DEF RepositoryPart, Init, MergeHasHead, NoCommand, None
    <2>2. ChannelPart
      BY <1>2 DEF ChannelPart, Init
    <2>3. ModalPart
      BY <1>2, <1>3 DEF ModalPart, Init, TypedModal, Modals
    <2>4. CommandPart
      BY DEF CommandPart, Init
    <2> QED BY <2>1, <2>2, <2>3, <2>4, TypeOKParts DEF RepositoryPart, CommandPart
  <1>7. OnTheWay
    BY <1>1, <1>4, <1>5 DEF OnTheWay, QueriesOnce, QueriesNumbered, AnswersKept, Init
  <1>8. Promises
    BY <1>3, <1>4 DEF Promises, SlotsAgree, PickerShowsItsAnswer, LoadingIsAnswered, IsPicker, None
  <1> QED BY <1>6, <1>7, <1>8, IInvParts

LEMMA IInvStep == IInv /\ [Next]_vars => IInv'
  <1> SUFFICES ASSUME IInv, [Next]_vars PROVE IInv'
    OBVIOUS
  <1>1. TypeOK /\ MergeHasHead /\ OnTheWay /\ Promises
    BY IInvParts
  <1>2. TypeOK' /\ MergeHasHead'
    BY <1>1, TypeOKStep
  <1>3. SUFFICES OnTheWay' /\ Promises'
    BY <1>2, <1>3 DEF IInv, OnTheWay, Promises
  <1>4. UNCHANGED <<modal, pending>> => ModalKept
    BY DEF ModalKept, SameQuestion
  <1>5. CASE Foreign \/ Verify \/ Run \/ Refresh \/ UNCHANGED vars
    <2>1. UNCHANGED <<modal, pending, nextQuery, answered>>
      BY <1>5 DEF Foreign, Verify, Run, Refresh, vars, asking, history
    <2>2. \/ requests' = requests
          \/ requests # <<>> /\ Head(requests) \in Commands /\ requests' = Tail(requests)
      BY <1>1, <1>5, UserChannels, WorkerChannels DEF vars, channels
    <2>3. events' = events \/ \E e \in Updates : events' = Append(events, e)
      BY <1>1, <1>5, UserChannels, WorkerChannels DEF vars, channels
    <2> QED BY <1>1, <1>2, <1>4, <2>1, <2>2, <2>3, QuietStep
  <1>6. CASE Input /\ ~PaletteOpens
    BY <1>1, <1>2, <1>6, UserChannels, InputStep, QuietStep
  <1>7. CASE PaletteOpens
    BY <1>1, <1>2, <1>7, OpeningStep
  <1>8. CASE Dispatch
    BY <1>1, <1>2, <1>8, SendingStep
  <1>9. CASE TakeCommand
    <2>1. UNCHANGED <<modal, pending, nextQuery, answered, events>>
      BY <1>9 DEF TakeCommand, asking, history
    <2>2. Head(queued) \in Commands /\ requests' = Append(requests, Head(queued))
      BY <1>1, <1>9, HeadOfChannel DEF TypeOK, TakeCommand
    <2> QED BY <1>1, <1>2, <1>4, <2>1, <2>2, QuietStep
  <1>10. CASE Serve
    BY <1>1, <1>2, <1>10, ServingStep
  <1>11. CASE Accept
    BY <1>1, <1>2, <1>11, DrainStep
  <1> QED BY <1>5, <1>6, <1>7, <1>8, <1>9, <1>10, <1>11 DEF Next, Worker

\* Whatever is opened, closed and refreshed while queries are on their way, and
\* whatever fails: the state is well typed, an open picker lists the answer to its
\* own query, and one that says it loads has its query or the answer on the way.
\* (branches.rs and merge.rs: the answers the open modal accepts; ADR 0079.)
THEOREM PickersAreAnswered == Spec => []PickersAnswered
  <1>1. IInv => PickersAnswered
    BY DEF IInv, PickersAnswered
  <1> QED BY <1>1, InitIInv, IInvStep, PTL DEF Spec

-----------------------------------------------------------------------------
(* What Git does.                                                          *)

\* The worker verifies a command, and Git ends it; nothing else moves the job.
LEMMA JobMoves ==
  ASSUME [Next]_vars
  PROVE  \/ job' = job
         \/ Verify /\ job = NoCommand
         \/ Run /\ job # NoCommand /\ job' = NoCommand
  <1>1. CASE Verify
    BY <1>1 DEF Verify
  <1>2. CASE Run
    BY <1>2 DEF Run
  <1>3. CASE Foreign \/ Input
    BY <1>3 DEF Foreign, Input, OpenPalette, PaletteOpens, PaletteEnters, Close, Browse, Pick, SubmitName,
       Choose, Decide, User, repoVars
  <1>4. CASE Accept
    BY <1>4 DEF Accept, RefsLoaded, RemotesLoaded, LoadFailed, SnapshotArrives, RefreshFails,
       Completes, Fails, AsksToForce, Drain, repoVars
  <1>5. CASE Dispatch \/ TakeCommand \/ Refresh \/ Serve \/ UNCHANGED vars
    BY <1>5 DEF Dispatch, TakeCommand, Refresh, Serve, vars, repoVars
  <1> QED BY <1>1, <1>2, <1>3, <1>4, <1>5 DEF Next, Worker

\* The repository moves under no verified command, except by Git itself.
LEMMA RepositoryMoves ==
  ASSUME RacesGit = FALSE, [Next]_vars, job # NoCommand
  PROVE  repo' = repo \/ Run
  <1>1. CASE Foreign
    BY <1>1 DEF Foreign
  <1>2. CASE Verify
    BY <1>2 DEF Verify
  <1>3. CASE Input
    BY <1>3 DEF Input, OpenPalette, PaletteOpens, PaletteEnters, Close, Browse, Pick, SubmitName,
       Choose, Decide, User, repoVars
  <1>4. CASE Accept
    BY <1>4 DEF Accept, RefsLoaded, RemotesLoaded, LoadFailed, SnapshotArrives, RefreshFails,
       Completes, Fails, AsksToForce, Drain, repoVars
  <1>5. CASE Dispatch \/ TakeCommand \/ Refresh \/ Serve \/ UNCHANGED vars
    BY <1>5 DEF Dispatch, TakeCommand, Refresh, Serve, vars, repoVars
  <1> QED BY <1>1, <1>2, <1>3, <1>4, <1>5 DEF Next, Worker

LEMMA JobStaysVerified ==
  ASSUME RacesGit = FALSE, JobVerified, [Next]_vars
  PROVE  JobVerified'
  <1> SUFFICES ASSUME job' # NoCommand PROVE Verifies(job)'
    BY DEF JobVerified
  <1> USE DEF Verifies, VerifiesCheckout, VerifiesCreate, VerifiesDelete, VerifiesMerge, StillAt,
              HeadState, Unborn
  <1>1. CASE job' = job
    <2>1. Verifies(job)
      BY <1>1 DEF JobVerified
    <2>2. repo' = repo
      BY <1>1, RepositoryMoves DEF Run
    <2> QED BY <1>1, <2>1, <2>2
  <1>2. CASE Verify /\ job = NoCommand
    <2>1. repo' = repo /\ Verifies(Head(requests)) /\ job' = Head(requests)
      BY <1>2 DEF Verify
    <2> QED BY <2>1
  <1> QED BY <1>1, <1>2, JobMoves

\* The forced deletions on their way, when commands move along it.
LEMMA ForcedMove ==
  ASSUME TypeOK, ForcedWereConfirmed, confirmed \subseteq confirmed',
         \/ queued' = queued \/ queued' = <<>>
         \/ queued # <<>> /\ queued' = Tail(queued)
         \/ \E a : Entered(a),
         \/ requests' = requests
         \/ requests # <<>> /\ requests' = Tail(requests)
         \/ \E a \in Commands \cup Queries :
              (Forced(a) => WasConfirmed(a)) /\ requests' = Append(requests, a),
         job' \in {job, NoCommand} \/ (requests # <<>> /\ job' = Head(requests))
  PROVE  ForcedWereConfirmed'
  <1> DEFINE Fine(a) == Forced(a) => Deletion(a) \in confirmed'
  <1>1. requests \in Seq(Commands \cup Queries) /\ queued \in Seq(Commands)
    BY DEF TypeOK
  <1>2. /\ \A i \in DOMAIN queued : Fine(queued[i])
        /\ \A i \in DOMAIN requests : Fine(requests[i])
        /\ Fine(job)
    BY DEF ForcedWereConfirmed, WasConfirmed
  <1>3. Fine(NoCommand)
    BY DEF NoCommand, None, Forced
  <1>4. \A a : (Forced(a) => WasConfirmed(a)) \/ Entered(a) => Fine(a)
    BY DEF WasConfirmed, Entered
  <1> HIDE DEF Fine
  <1>5. \A i \in DOMAIN queued' : Fine(queued'[i])
    <2>1. CASE queued' = queued
      BY <1>2, <2>1
    <2>2. CASE queued' = <<>>
      BY <2>2
    <2>3. CASE queued # <<>> /\ queued' = Tail(queued)
      BY <1>1, <1>2, <2>3, Tailed
    <2>4. ASSUME NEW a, Entered(a) PROVE \A i \in DOMAIN queued' : Fine(queued'[i])
      <3>1. a \in Commands /\ queued' = Append(queued, a)
        BY <2>4, EnteredTyped
      <3>2. \A i \in DOMAIN queued' :
              (i \in DOMAIN queued /\ queued'[i] = queued[i]) \/ queued'[i] = a
        BY <1>1, <3>1, Appended
      <3> QED BY <1>2, <1>4, <2>4, <3>2
    <2> QED BY <2>1, <2>2, <2>3, <2>4
  <1>6. \A i \in DOMAIN requests' : Fine(requests'[i])
    <2>1. CASE requests' = requests
      BY <1>2, <2>1
    <2>2. CASE requests # <<>> /\ requests' = Tail(requests)
      BY <1>1, <1>2, <2>2, Tailed
    <2>3. ASSUME NEW a \in Commands \cup Queries, Forced(a) => WasConfirmed(a),
                 requests' = Append(requests, a)
          PROVE  \A i \in DOMAIN requests' : Fine(requests'[i])
      <3>1. \A i \in DOMAIN requests' :
              (i \in DOMAIN requests /\ requests'[i] = requests[i]) \/ requests'[i] = a
        BY <1>1, <2>3, Appended
      <3> QED BY <1>2, <1>4, <2>3, <3>1
    <2> QED BY <2>1, <2>2, <2>3
  <1>7. Fine(job')
    <2>1. requests # <<>> => 1 \in DOMAIN requests /\ requests[1] = Head(requests)
      BY <1>1, Tailed
    <2> QED BY <1>2, <1>3, <2>1
  <1> QED BY <1>5, <1>6, <1>7 DEF Fine, ForcedWereConfirmed, WasConfirmed, Forced, Deletion

LEMMA ForcedStay ==
  ASSUME IInv, ForcedWereConfirmed, [Next]_vars
  PROVE  ForcedWereConfirmed'
  <1>1. TypeOK /\ MergeHasHead
    BY DEF IInv
  <1>2. job' \in {job, NoCommand} \/ (requests # <<>> /\ job' = Head(requests))
    BY JobMoves DEF Verify
  <1>3. CASE Input
    <2>1. queued' = queued \/ \E a : Entered(a)
      BY <1>1, <1>3, InputStep, PaletteOpensStep DEF commands
    <2>2. confirmed \subseteq confirmed' /\ requests' = requests
      BY <1>1, <1>3, InputStep, PaletteOpensStep, UserChannels
    <2> QED BY <1>1, <1>2, <2>1, <2>2, ForcedMove
  <1>4. CASE Accept
    <2>1. (queued' = queued \/ queued' = <<>> \/ \E a : Entered(a)) /\ confirmed' = confirmed
      BY <1>1, <1>4, AcceptStep DEF commands
    <2> QED BY <1>1, <1>2, <1>4, <2>1, AcceptChannels, ForcedMove
  <1>5. CASE TakeCommand
    <2> DEFINE a == Head(queued)
    <2>1. /\ queued # <<>> /\ queued' = Tail(queued) /\ requests' = Append(requests, a)
          /\ confirmed' = confirmed
      BY <1>5 DEF TakeCommand, history
    <2>2. a \in Commands
      BY <1>1, <2>1, HeadOfChannel DEF TypeOK
    <2>3. Forced(a) => WasConfirmed(a)
      <3>1. 1 \in DOMAIN queued /\ queued[1] = Head(queued)
        BY <1>1, <2>1, Tailed DEF TypeOK
      <3> QED BY <3>1 DEF ForcedWereConfirmed
    <2> HIDE DEF a
    <2> QED BY <1>1, <1>2, <2>1, <2>2, <2>3, ForcedMove
  <1>6. CASE Dispatch
    <2>1. queued' = queued /\ confirmed' = confirmed
      BY <1>6 DEF Dispatch, commands, history
    <2>2. PICK s \in Slots :
            requests' = Append(requests, [kind |-> "Query", slot |-> s, query |-> pending[s]])
      BY <1>6 DEF Dispatch
    <2> DEFINE a == [kind |-> "Query", slot |-> s, query |-> pending[s]]
    <2>3. a \in Queries /\ ~Forced(a)
      BY <1>1 DEF TypeOK, Queries, Forced
    <2> HIDE DEF a
    <2>4. requests' = Append(requests, a)
      BY <2>2 DEF a
    <2> QED BY <1>1, <1>2, <2>1, <2>3, <2>4, ForcedMove
  <1>7. CASE Foreign \/ Verify \/ Run \/ Refresh \/ Serve \/ UNCHANGED vars
    <2>1. queued' = queued /\ confirmed' = confirmed
      BY <1>7 DEF Foreign, Verify, Run, Refresh, Serve, vars, commands, history
    <2>2. requests' = requests \/ (requests # <<>> /\ requests' = Tail(requests))
      BY <1>7 DEF Foreign, Verify, Run, Refresh, Serve, vars, channels
    <2> QED BY <1>1, <1>2, <2>1, <2>2, ForcedMove
  <1> QED BY <1>3, <1>4, <1>5, <1>6, <1>7 DEF Next, Worker

LEMMA IInvGitStep ==
  ASSUME RacesGit = FALSE
  PROVE  IInvGit /\ [Next]_vars => IInvGit'
  BY IInvStep, JobStaysVerified, ForcedStay DEF IInvGit

LEMMA InitIInvGit == Init => IInvGit
  <1> SUFFICES ASSUME Init PROVE IInvGit
    OBVIOUS
  <1>1. queued = <<>> /\ requests = <<>> /\ job = NoCommand
    BY DEF Init
  <1>2. ~Forced(job)
    BY <1>1 DEF Forced, NoCommand, None
  <1> QED BY <1>1, <1>2, InitIInv DEF IInvGit, JobVerified, ForcedWereConfirmed

\* What Git does to the verified command's repository.
LEMMA GitRuns ==
  ASSUME IInvGit, Run, repo' # repo
  PROVE  /\ job \in Commands /\ Verifies(job) /\ repo' \in Git(job)
         /\ repo \in Repositories /\ (job.kind = "Merge" => HeadCommit # Gone)
  BY DEF IInvGit, IInv, TypeOK, JobVerified, MergeHasHead, Run

LEMMA PickedStep ==
  ASSUME IInvGit, [Next]_vars
  PROVE  DoesWhatWasPicked
  <1> DEFINE before == HeadState(repo)
             after == HeadState(repo')
  <1> SUFFICES ASSUME job # NoCommand, job' = NoCommand, repo' # repo
               PROVE  /\ job.kind = "Delete" => StillAt(job) /\ before = after
                      /\ job.kind = "Merge" =>
                           /\ StillAt(job) /\ before = job.head /\ after.name = before.name
                           /\ repo'.op = None => job.commit \in Ancestors[after.commit]
                      /\ job.kind = "Create" =>
                           /\ after.name = job.name
                           /\ after.commit = IF job.start.from = "Head" THEN before.commit
                                             ELSE repo.refs[job.start.ref]
                      /\ job.kind = "Checkout" =>
                           /\ after.name = Short[job.ref]
                           /\ repo.refs[Short[job.ref]] \in {Gone, job.commit} => after.commit = job.commit
    BY DEF DoesWhatWasPicked
  <1>1. Run
    BY JobMoves
  <1>2. /\ job \in Commands /\ Verifies(job) /\ repo' \in Git(job)
        /\ repo \in Repositories /\ (job.kind = "Merge" => HeadCommit # Gone)
    BY <1>1, GitRuns
  <1>3. ASSUME job.kind = "Delete" PROVE StillAt(job) /\ before = after
    BY <1>2, <1>3, DeleteTyped DEF Git, Verifies, VerifiesDelete
  <1>4. ASSUME job.kind = "Merge"
        PROVE  /\ StillAt(job) /\ before = job.head /\ after.name = before.name
               /\ repo'.op = None => job.commit \in Ancestors[after.commit]
    <2>1. StillAt(job) /\ before = job.head
      BY <1>2, <1>4 DEF Verifies, VerifiesMerge
    <2>2. before.name = repo.branch
      BY DEF HeadState
    <2>3. /\ after.name = repo.branch
          /\ repo' = repo \/ repo'.op = "Merge" \/ repo.refs[job.ref] \in Ancestors[after.commit]
      BY <1>2, <1>4, MergeTyped DEF Git
    <2> QED BY <2>1, <2>2, <2>3 DEF StillAt, None
  <1>5. ASSUME job.kind = "Create"
        PROVE  /\ after.name = job.name
               /\ after.commit = IF job.start.from = "Head" THEN before.commit
                                 ELSE repo.refs[job.start.ref]
    <2>1. IF job.start.from = "Head" THEN before = job.start.head
          ELSE repo.refs[job.start.ref] = job.start.commit
      BY <1>2, <1>5 DEF Verifies, VerifiesCreate, StillAt
    <2>2. /\ after.name = job.name
          /\ after.commit = IF job.start.from = "Head" THEN job.start.head.commit ELSE job.start.commit
      BY <1>2, <1>5, CreateTyped DEF Git
    <2> QED BY <2>1, <2>2
  <1>6. ASSUME job.kind = "Checkout"
        PROVE  /\ after.name = Short[job.ref]
               /\ repo.refs[Short[job.ref]] \in {Gone, job.commit} => after.commit = job.commit
    <2>1. repo.refs[job.ref] = job.commit
      BY <1>2, <1>6 DEF Verifies, VerifiesCheckout, StillAt
    <2>2. /\ after.name = Short[job.ref]
          /\ after.commit = IF repo.refs[Short[job.ref]] # Gone THEN repo.refs[Short[job.ref]]
                            ELSE repo.refs[job.ref]
      BY <1>2, <1>6, CheckoutTyped DEF Git
    <2> QED BY <2>1, <2>2
  <1> QED BY <1>3, <1>4, <1>5, <1>6

LEMMA ConfirmedStep ==
  ASSUME IInvGit, [Next]_vars
  PROVE  DeletesWhatWasConfirmed
  <1> SUFFICES ASSUME NEW b \in Branches, job.kind = "Delete", repo.refs[b] # Gone,
                      repo'.refs[b] = Gone, job' # job, ~Merged(b)
               PROVE  [kind |-> "Delete", ref |-> b, commit |-> repo.refs[b], force |-> FALSE] \in confirmed
    BY DEF DeletesWhatWasConfirmed
  <1>1. Run
    BY JobMoves DEF NoCommand, None
  <1>2. job \in Commands /\ Verifies(job) /\ repo' \in GitDelete(job) /\ repo \in Repositories
    BY <1>1, GitRuns DEF Git
  <1>3. (job.force \/ Merged(job.ref)) /\ \A c \in Refs : c # job.ref => repo'.refs[c] = repo.refs[c]
    BY <1>2, DeleteTyped
  <1>4. b = job.ref
    BY <1>3, Names
  <1>5. repo.refs[b] = job.commit
    BY <1>2, <1>4 DEF Verifies, VerifiesDelete, StillAt
  <1>6. Forced(job)
    BY <1>3, <1>4 DEF Forced
  <1>7. Deletion(job) \in confirmed
    BY <1>6 DEF IInvGit, ForcedWereConfirmed, WasConfirmed
  <1> QED BY <1>4, <1>5, <1>7 DEF Deletion

\* While nobody else touches the repository between a verification and its Git
\* process: Git deletes, merges, creates and checks out what was picked, at the
\* commit it was picked at, and deletes unmerged work only after the user confirmed
\* the deletion of that branch at that commit.
\* (delete_branch.rs, merge.rs, create_branch.rs, checkout.rs.)
THEOREM GitDoesWhatIsConfirmed ==
  ASSUME RacesGit = FALSE
  PROVE  Spec => GitDoesWhatWasConfirmed
  <1>1. IInvGit /\ [Next]_vars => IInvGit'
    BY IInvGitStep
  <1>2. IInvGit /\ [Next]_vars => DoesWhatWasPicked /\ DeletesWhatWasConfirmed
    BY PickedStep, ConfirmedStep
  <1> QED BY <1>1, <1>2, InitIInvGit, PTL
         DEF Spec, GitDoesWhatWasConfirmed, GitDoesWhatWasPicked, UnmergedNeedsConfirmation

-----------------------------------------------------------------------------
(* What the user sees selected.                                            *)

LEMMA ShownIdentity ==
  ASSUME NEW p, NEW row
  PROVE  /\ row \in DOMAIN p.matches => IdentityAt(p, row) = <<p.matches[row].identity>>
         /\ \A id \in ToSet(IdentityAt(p, row)) : IdentityAt(p, row) = <<id>>
  <1>1. CASE row \in DOMAIN p.matches
    <2>1. IdentityAt(p, row) = <<p.matches[row].identity>>
      BY <1>1 DEF IdentityAt
    <2>2. \A x : ToSet(<<x>>) = {x}
      BY DEF ToSet
    <2> QED BY <2>1, <2>2
  <1>2. CASE row \notin DOMAIN p.matches
    <2>1. IdentityAt(p, row) = <<>>
      BY <1>2 DEF IdentityAt
    <2>2. ToSet(<<>>) = {}
      BY DEF ToSet
    <2> QED BY <1>2, <2>1, <2>2
  <1> QED BY <1>1, <1>2

\* reconcile_items keeps the selected and the first visible item where it can.
LEMMA ReconcileKeeps ==
  ASSUME NEW S, NEW p \in Pickers(S), NEW items \in Seq(Items(S)),
         NEW id \in ToSet(SelectedIdentity(p)),
         \E i \in DOMAIN Reconcile(p, items).matches :
           Reconcile(p, items).matches[i].identity = id /\ Reconcile(p, items).matches[i].enabled
  PROVE  LET n == Reconcile(p, items) IN
         /\ SelectedIdentity(n) = <<id>>
         /\ \A t \in ToSet(TopIdentity(p)) :
              (\E i \in DOMAIN n.matches : n.matches[i].identity = t) => TopIdentity(n) = <<t>>
  <1> DEFINE b == [p EXCEPT !.items = items]
             q == RankMatches(b)
             n == Reconcile(p, items)
             rows == {i \in EnabledRows(q) : SelectedIdentity(p) = IdentityAt(q, i)}
             tops == {i \in DOMAIN q.matches : TopIdentity(p) = IdentityAt(q, i)}
             kept == First(rows)
             top == First(tops)
             last == IF q.matches = <<>> THEN 1 ELSE Len(q.matches)
             from == IF top = NoRow THEN p.offset ELSE top
             offset == IF from < last THEN from ELSE last
             r == [q EXCEPT !.selected = kept, !.offset = offset]
  <1>1. q \in Pickers(S)
    <2>1. b \in Pickers(S)
      BY DEF Pickers
    <2> HIDE DEF b
    <2> QED BY <2>1, RankedTyped
  <1>2. n = IF kept = NoRow THEN SelectFirstEnabled(q) ELSE r
    BY DEF Reconcile
  <1> HIDE DEF q
  <1>3. /\ EnabledRows(q) \subseteq DOMAIN q.matches /\ DOMAIN q.matches \subseteq Nat
        /\ DOMAIN q.matches = 1..Len(q.matches) /\ Len(q.matches) \in Nat
    BY <1>1, PickerFields
  <1>4. rows \in SUBSET Nat /\ tops \in SUBSET Nat
    BY <1>3
  <1>5. SelectFirstEnabled(q).matches = q.matches
    <2> DEFINE k == First(EnabledRows(q))
    <2>1. SelectFirstEnabled(q) = [q EXCEPT !.selected = k, !.offset = 1]
      BY DEF SelectFirstEnabled
    <2> HIDE DEF k
    <2> QED BY <1>1, <2>1 DEF Pickers
  <1>6. r.matches = q.matches /\ r.selected = kept /\ r.offset = offset
    <2> HIDE DEF kept, offset
    <2>1. [q EXCEPT !.selected = kept].matches = q.matches
          /\ DOMAIN [q EXCEPT !.selected = kept] = DOMAIN q
      BY <1>1 DEF Pickers
    <2> QED BY <1>1, <2>1 DEF Pickers
  <1> HIDE DEF r
  <1>7. n.matches = q.matches
    BY <1>2, <1>5, <1>6
  <1>8. SelectedIdentity(p) = <<id>>
    BY ShownIdentity DEF SelectedIdentity
  <1>9. rows # {}
    <2>1. PICK i \in DOMAIN q.matches : q.matches[i].identity = id /\ q.matches[i].enabled
      BY <1>7
    <2>2. i \in EnabledRows(q) /\ IdentityAt(q, i) = <<id>>
      BY <2>1, ShownIdentity DEF EnabledRows
    <2> QED BY <1>8, <2>2
  <1>10. kept \in rows /\ kept # NoRow
    <2>1. kept \in rows
      <3> HIDE DEF rows
      <3> QED BY <1>4, <1>9, FirstIsOne
    <2>2. kept \in 1..Len(q.matches)
      <3> HIDE DEF kept
      <3> QED BY <1>3, <2>1
    <2> HIDE DEF kept, rows
    <2> QED BY <1>3, <2>1, <2>2 DEF NoRow
  <1>11. n = r
    BY <1>2, <1>10
  <1>12. \A row : IdentityAt(n, row) = IdentityAt(q, row)
    BY <1>7 DEF IdentityAt
  <1>13. SelectedIdentity(n) = <<id>>
    BY <1>6, <1>8, <1>10, <1>11, <1>12 DEF SelectedIdentity
  <1>14. ASSUME NEW t \in ToSet(TopIdentity(p)), \E i \in DOMAIN n.matches : n.matches[i].identity = t
         PROVE  TopIdentity(n) = <<t>>
    <2>1. TopIdentity(p) = <<t>>
      BY ShownIdentity DEF TopIdentity
    <2>2. tops # {}
      <3>1. PICK i \in DOMAIN q.matches : q.matches[i].identity = t
        BY <1>7, <1>14
      <3>2. IdentityAt(q, i) = <<t>>
        BY <3>1, ShownIdentity
      <3> QED BY <2>1, <3>2
    <2>3. top \in tops
      <3> HIDE DEF tops
      <3> QED BY <1>4, <2>2, FirstIsOne
    <2>4. offset = top
      <3>1. top \in 1..Len(q.matches)
        BY <1>3, <2>3
      <3>2. q.matches # <<>>
        BY <3>1
      <3> HIDE DEF top
      <3> QED BY <1>3, <3>1, <3>2 DEF NoRow
    <2>5. TopIdentity(n) = IdentityAt(q, top)
      BY <1>6, <1>11, <1>12, <2>4 DEF TopIdentity
    <2> QED BY <2>1, <2>3, <2>5
  <1> QED BY <1>13, <1>14

LEMMA ChoiceStep ==
  ASSUME TypeOK, [Next]_vars
  PROVE  KeepsChoice
  <1> SUFFICES ASSUME IsPicker(modal), modal'.kind = modal.kind, snap' # snap,
                      NEW id \in ToSet(SelectedIdentity(modal.picker)),
                      \E i \in DOMAIN modal'.picker.matches :
                        modal'.picker.matches[i].identity = id /\ modal'.picker.matches[i].enabled
               PROVE  /\ SelectedIdentity(modal'.picker) = <<id>>
                      /\ \A top \in ToSet(TopIdentity(modal.picker)) :
                           (\E i \in DOMAIN modal'.picker.matches :
                              modal'.picker.matches[i].identity = top) =>
                           TopIdentity(modal'.picker) = <<top>>
    BY DEF KeepsChoice
  <1>1. SnapshotArrives \/ Completes \/ Fails
    <2>1. CASE Foreign \/ Worker \/ Refresh \/ Dispatch \/ TakeCommand \/ UNCHANGED vars
      BY <2>1 DEF Foreign, Worker, Serve, Verify, Run, Refresh, Dispatch, TakeCommand, vars
    <2>2. CASE Input
      BY <2>2 DEF Input, OpenPalette, PaletteOpens, PaletteEnters, Close, Browse, Pick, SubmitName,
         Choose, Decide, User
    <2>3. CASE Accept
      BY <2>3 DEF Accept, RefsLoaded, RemotesLoaded, LoadFailed, RefreshFails, AsksToForce
    <2> QED BY <2>1, <2>2, <2>3 DEF Next
  <1>2. modal' = modal \/ \E s \in Snapshots : modal' = Refreshed(modal, s)
    <2>1. CASE SnapshotArrives
      <3>1. Head(events).snapshot \in Snapshots
        <4>1. events # <<>> /\ Head(events).kind = "Snapshot"
          BY <2>1 DEF SnapshotArrives, Drain
        <4> QED BY <4>1, HeadEvent, EventFields DEF IsLoad
      <3>2. RepositoryChanged(Head(events).snapshot)
        BY <2>1 DEF SnapshotArrives
      <3>3. ~CloseModal
        BY DEF CloseModal, SetModal, NoModal, IsPicker, None
      <3> QED BY <3>1, <3>2, <3>3 DEF RepositoryChanged
    <2>2. CASE Completes
      BY <2>2 DEF Completes
    <2>3. CASE Fails
      BY <2>3 DEF Fails, ShowError, SetModal, ErrorModal, IsPicker
    <2> QED BY <1>1, <2>1, <2>2, <2>3
  <1>3. CASE modal' = modal
    BY <1>3, ShownIdentity DEF SelectedIdentity, TopIdentity
  <1>4. ASSUME NEW s \in Snapshots, modal' = Refreshed(modal, s)
        PROVE  /\ SelectedIdentity(modal'.picker) = <<id>>
               /\ \A top \in ToSet(TopIdentity(modal.picker)) :
                    (\E i \in DOMAIN modal'.picker.matches :
                       modal'.picker.matches[i].identity = top) =>
                    TopIdentity(modal'.picker) = <<top>>
    <2>1. TypedModal(modal) /\ HasList(modal)
      BY TypeOKParts DEF ModalPart, HasList, IsPicker
    <2>2. modal.picker \in Pickers(PayloadsOf(modal))
      BY <2>1, ListTyped
    <2>3. ItemsOf(modal, s) \in Seq(Items(PayloadsOf(modal)))
      BY <2>1, ItemsTyped
    <2>4. modal'.picker = Reconcile(modal.picker, ItemsOf(modal, s))
      <3> DEFINE q == Reconcile(modal.picker, ItemsOf(modal, s))
      <3>1. modal' = [modal EXCEPT !.picker = q]
        BY <1>4 DEF Refreshed
      <3>2. modal \in BranchPickers \/ modal \in MergePickers
        BY <2>1, ModalFields DEF TypedModal, IsPicker
      <3> HIDE DEF q
      <3>3. modal'.picker = q
        BY <3>1, <3>2 DEF BranchPickers, MergePickers
      <3> QED BY <3>3 DEF q
    <2> QED BY <2>2, <2>3, <2>4, ReconcileKeeps
  <1> QED BY <1>2, <1>3, <1>4

\* A snapshot that rebuilds an open picker moves neither the selection nor the
\* first visible row, while the selected ref can still be chosen.
\* (search_picker.rs: reconcile_items; repository_update.rs.)
THEOREM ChoiceSurvivesSnapshots == Spec => SnapshotKeepsChoice
  <1>1. IInv /\ [Next]_vars => KeepsChoice
    BY ChoiceStep DEF IInv
  <1> QED BY <1>1, InitIInv, IInvStep, PTL DEF Spec, SnapshotKeepsChoice
=============================================================================
