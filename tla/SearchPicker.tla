---------------------------- MODULE SearchPicker ----------------------------
(***************************************************************************)
(* The searchable list of diffo-ui, the body of every picker: items with an *)
(* identity and a payload, a filter, the selected row and the first visible *)
(* row.  A picker is a record                                               *)
(*   [items, query, matches, selected, offset]                              *)
(* whose matches are the items the filter leaves and whose selected and     *)
(* offset count them from 1; selected is NoRow when no row is selected.     *)
(* Fuzzy ranking is abstracted to a filter that keeps the order of the      *)
(* items, as it does between equal scores.                                  *)
(***************************************************************************)
EXTENDS Integers, Sequences, Retaining

CONSTANTS
  Viewport,        \* rows of the result list, at least one
  Scores(_, _)     \* whether a filter text scores against an item

ASSUME ViewportAssumption == Viewport \in Nat \ {0}

NoRow == 0

NewPicker == [items |-> <<>>, query |-> "", matches |-> <<>>, selected |-> NoRow, offset |-> 1]

\* rank_matches, after the items or the filter changed.
RankMatches(p) ==
  [p EXCEPT !.matches = Retained(p.items, {i \in DOMAIN p.items : Scores(p.query, p.items[i])})]

EnabledRows(p) == {i \in DOMAIN p.matches : p.matches[i].enabled}

First(rows) == IF rows = {} THEN NoRow ELSE CHOOSE i \in rows : \A j \in rows : i <= j

\* select_first_enabled, after the filter changed.
SelectFirstEnabled(p) ==
  [p EXCEPT !.selected = First(EnabledRows(p)), !.offset = 1]

SetItems(p, items) == SelectFirstEnabled(RankMatches([p EXCEPT !.items = items]))
Filter(p, text) == SelectFirstEnabled(RankMatches([p EXCEPT !.query = text]))

IdentityAt(p, row) == IF row \in DOMAIN p.matches THEN <<p.matches[row].identity>> ELSE <<>>
SelectedIdentity(p) == IdentityAt(p, p.selected)
TopIdentity(p) == IdentityAt(p, p.offset)

\* Mutant: the row number stays and the item under it changes.
ReconcileRows(p, items) ==
  LET q == RankMatches([p EXCEPT !.items = items]) IN
  [q EXCEPT !.selected = IF @ \in EnabledRows(q) THEN @ ELSE First(EnabledRows(q))]

\* reconcile_items: the selected item keeps its selection and the first visible
\* row its place while they can; otherwise the list starts over.
Reconcile(p, items) ==
  LET q    == RankMatches([p EXCEPT !.items = items])
      kept == First({i \in EnabledRows(q) : SelectedIdentity(p) = IdentityAt(q, i)})
      top  == First({i \in DOMAIN q.matches : TopIdentity(p) = IdentityAt(q, i)})
      last == IF q.matches = <<>> THEN 1 ELSE Len(q.matches)
      from == IF top = NoRow THEN p.offset ELSE top
  IN IF kept = NoRow
       THEN SelectFirstEnabled(q)
       ELSE [q EXCEPT !.selected = kept, !.offset = IF from < last THEN from ELSE last]

\* ensure_selection_visible
Reveal(p) ==
  [p EXCEPT !.offset = IF p.selected # NoRow /\ p.selected < @ THEN p.selected
                       ELSE IF p.selected # NoRow /\ p.selected >= @ + Viewport
                         THEN p.selected - Viewport + 1
                       ELSE @]

\* Up and Down: to the enabled row before or after, and into view.
MoveSelection(p, down) ==
  LET enabled == EnabledRows(p)
      beyond  == {i \in enabled : IF down THEN i > p.selected ELSE i < p.selected}
      nearest == CHOOSE i \in beyond :
                   \A j \in beyond : IF down THEN i <= j ELSE i >= j
  IN Reveal([p EXCEPT !.selected = IF enabled = {} \/ @ = NoRow THEN First(enabled)
                                   ELSE IF beyond = {} THEN @ ELSE nearest])

MaximumOffset(p) ==
  LET n == Len(p.matches) IN IF n > Viewport THEN n - Viewport + 1 ELSE 1

\* The wheel moves the list and leaves the selection.
Wheel(p, down) ==
  [p EXCEPT !.offset = IF down THEN IF @ < MaximumOffset(p) THEN @ + 1 ELSE MaximumOffset(p)
                       ELSE IF @ > 1 THEN @ - 1 ELSE 1]

\* Enter activates the selected row, a click an enabled row under the pointer.
Activations(p) ==
  {p.matches[i].payload : i \in {j \in DOMAIN p.matches :
     \/ j = p.selected
     \/ j \in p.offset..(p.offset + Viewport - 1) /\ p.matches[j].enabled}}
=============================================================================
