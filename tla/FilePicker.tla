----------------------------- MODULE FilePicker -----------------------------
(***************************************************************************)
(* The list of files of the Diff, Explorer and History tabs: a flat list   *)
(* or a tree that unfolds, a selection, a scroll offset with a scrollbar   *)
(* and a context menu.  Its owner prepares it for every frame with the     *)
(* rows and the area of that frame; events come between two frames and act *)
(* on the rows and the area prepared last.  Labels are sequences of the    *)
(* widths of their characters; the outcome an event returns is modelled by *)
(* the modules of the owners.                                              *)
(***************************************************************************)
EXTENDS SequencesExt, FiniteSetsExt, Functions, Integers

CONSTANTS
  Forests,      \* the trees the owner may show: sequences of nodes
  Lists,        \* the flat lists it may show: sequences of rows
  ListAction,   \* the widths of the characters of a row's action
  Heights,      \* the heights of the list, in rows, borders excluded
  Widths,       \* and its widths, in columns
  HeaderWidth,  \* the width from which a tree's header has its buttons
  WheelStep,    \* rows per wheel event
  NoId

VARIABLE picker

(***************************************************************************)
(* A document is a flat list of rows; a tree's rows carry their depth.     *)
(***************************************************************************)
FlatRow(row) ==
  [id |-> row.id, label |-> row.label, depth |-> 0, branch |-> FALSE,
   action |-> ListAction, menu |-> TRUE]

RECURSIVE TreeRows(_, _)
TreeRows(nodes, depth) ==
  FlattenSeq([i \in DOMAIN nodes |->
    <<[id |-> nodes[i].id, label |-> nodes[i].label, depth |-> depth,
       branch |-> nodes[i].branch, action |-> <<>>, menu |-> nodes[i].menu]>>
      \o TreeRows(nodes[i].children, depth + 1)])

Flat(rows) == [tree |-> FALSE, rows |-> [i \in DOMAIN rows |-> FlatRow(rows[i])]]
Tree(nodes) == [tree |-> TRUE, rows |-> TreeRows(nodes, 0)]

Documents == {Flat(rows) : rows \in Lists} \cup {Tree(nodes) : nodes \in Forests}

EmptyPicker ==
  [document |-> Flat(<<>>), visible |-> <<>>, selected |-> NoId, expanded |-> {},
   height |-> 0, width |-> 0, maximum |-> 0, offset |-> 0,
   dragging |-> FALSE, menu |-> NoId]

IdsOf(document) == {document.rows[i].id : i \in DOMAIN document.rows}
RowOf(p, id) ==
  p.document.rows[SelectInSeq(p.document.rows, LAMBDA row : row.id = id)]
VisibleIds(p) == [k \in DOMAIN p.visible |-> p.document.rows[p.visible[k]].id]
IsVisible(p, id) == id \in Range(VisibleIds(p))

\* Positions count from 0; -1 when the selection is hidden or there is none.
SelectedIndex(p) ==
  IF IsVisible(p, p.selected)
  THEN SelectInSeq(VisibleIds(p), LAMBDA id : id = p.selected) - 1 ELSE -1
IdAt(p, index) == IF index < Len(p.visible) THEN VisibleIds(p)[index + 1] ELSE NoId

(***************************************************************************)
(* Rows below a folded branch are skipped up to the next row that is not   *)
(* deeper than it.                                                         *)
(***************************************************************************)
RebuildVisible(p) ==
  LET rows == p.document.rows
      Row(seen, i) ==
        IF seen.hidden >= 0 /\ rows[i].depth > seen.hidden THEN seen
        ELSE [visible |-> Append(seen.visible, i),
              hidden |-> IF p.document.tree /\ rows[i].branch /\ rows[i].id \notin p.expanded
                         THEN rows[i].depth ELSE -1]
  IN  [p EXCEPT !.visible =
        FoldLeft(Row, [visible |-> <<>>, hidden |-> -1], [i \in DOMAIN rows |-> i]).visible]

MaximumRow(rows, height) == IF height = 0 \/ rows < height THEN 0 ELSE rows - height

RecalculateMetrics(p) ==
  LET maximum == MaximumRow(Len(p.visible), p.height)
  IN  [p EXCEPT !.maximum = maximum, !.offset = Min({p.offset, maximum})]

HasScrollbar(p) == p.maximum > 0 /\ p.width > 0
ListWidth(p) == IF HasScrollbar(p) THEN p.width - 1 ELSE p.width

EnsureSelectionVisible(p) ==
  LET index == SelectedIndex(p)
      offset == IF p.height = 0 THEN 0
                ELSE IF index < p.offset THEN index
                ELSE IF index >= p.offset + p.height THEN index + 1 - p.height
                ELSE p.offset
  IN  IF index < 0 THEN p ELSE [p EXCEPT !.offset = Min({offset, p.maximum})]

\* A hidden selection moves to the nearest shown row above it that is not as deep.
RepairHiddenSelection(p) ==
  LET rows == p.document.rows
      at == SelectInSeq(rows, LAMBDA row : row.id = p.selected)
      above == {i \in 1 .. at - 1 : rows[i].depth < rows[at].depth /\ i \in Range(p.visible)}
  IN  IF IsVisible(p, p.selected) THEN p
      ELSE [p EXCEPT !.selected = IF above # {} THEN rows[Max(above)].id ELSE IdAt(p, 0)]

ToggleExpanded(p, id) ==
  LET folded == [p EXCEPT !.expanded = IF id \in @ THEN @ \ {id} ELSE @ \cup {id}]
  IN  RecalculateMetrics(RepairHiddenSelection(RebuildVisible(folded)))

SelectVisible(p, index) ==
  IF IdAt(p, index) = NoId THEN p
  ELSE EnsureSelectionVisible([p EXCEPT !.selected = IdAt(p, index)])

\* Mutant: the viewport is fitted before the rows of the frame are counted.
PreparedOnOldMetrics(p, document, height, width, requested) ==
  LET shown == RebuildVisible([p EXCEPT !.document = document, !.height = height, !.width = width])
      selected == IF IsVisible(shown, requested) THEN requested
                  ELSE IF IsVisible(shown, p.selected) THEN p.selected ELSE IdAt(shown, 0)
  IN  RecalculateMetrics(EnsureSelectionVisible([shown EXCEPT
        !.selected = selected, !.menu = IF IsVisible(shown, @) THEN @ ELSE NoId]))

(***************************************************************************)
(* A frame: new rows, perhaps a new area.  The owner may request a         *)
(* selection; else the old one stays if it is still shown, else the row    *)
(* that took its place.                                                    *)
(***************************************************************************)
Prepared(p, document, height, width, requested) ==
  LET old == SelectedIndex(p)
      branches == {document.rows[i].id : i \in {j \in DOMAIN document.rows : document.rows[j].branch}}
      shown == RebuildVisible([p EXCEPT !.document = document, !.height = height, !.width = width,
                                        !.expanded = @ \cap branches])
      fallback == Min({IF old < 0 THEN 0 ELSE old,
                       IF shown.visible = <<>> THEN 0 ELSE Len(shown.visible) - 1})
      selected == IF IsVisible(shown, requested) THEN requested
                  ELSE IF IsVisible(shown, p.selected) THEN p.selected
                  ELSE IdAt(shown, fallback)
      next == RecalculateMetrics([shown EXCEPT
                !.selected = selected,
                !.menu = IF IsVisible(shown, @) THEN @ ELSE NoId])
  IN  IF selected = p.selected THEN next ELSE EnsureSelectionVisible(next)

Prepare ==
  \E document \in Documents, height \in Heights, width \in Widths :
    \E requested \in IdsOf(document) \cup {NoId} :
      picker' = Prepared(picker, document, height, width, requested)

(***************************************************************************)
(* The scrollbar: where a press on its track scrolls to, and the thumb it  *)
(* draws.  The track is as long as the list is high.                       *)
(***************************************************************************)
ScrollbarPosition(coordinate, track, maximum) ==
  IF track <= 1 THEN 0 ELSE (Min({coordinate, track - 1}) * maximum) \div (track - 1)

RoundedRatio(value, scale, divisor) == (value * scale + divisor \div 2) \div divisor

ScrollbarThumb(track, content, viewport, position) ==
  LET maximum == MaximumRow(content, viewport)
      length == IF content = 0 \/ viewport >= content THEN track
                ELSE Min({Max({RoundedRatio(viewport, track, content), 1}), track})
      travel == track - length
  IN  [length |-> length,
       start |-> IF maximum = 0 THEN 0
                 ELSE Min({RoundedRatio(Min({position, maximum}), travel, maximum), travel})]

(***************************************************************************)
(* A label that does not fit ends in up to three dots; the action of a row *)
(* is drawn at its right edge.                                             *)
(***************************************************************************)
WidthOf(label) == FoldLeft(+, 0, label)

TruncateSpans(label, width) ==
  LET dots == Min({width, 3})
      fitting == {n \in 0 .. Len(label) : WidthOf(SubSeq(label, 1, n)) <= width - dots}
  IN  IF WidthOf(label) <= width THEN label
      ELSE SubSeq(label, 1, Max(fitting)) \o [i \in 1 .. dots |-> 1]

Monus(a, b) == IF a > b THEN a - b ELSE 0

\* What the row draws: its label, blanks, and its action.
ListItem(p, row) ==
  LET label == [i \in 1 .. (IF p.document.tree THEN row.depth + 1 ELSE 0) |-> 2] \o row.label
      leading == Monus(ListWidth(p), WidthOf(row.action))
      shown == TruncateSpans(label, Monus(leading, IF leading > 0 THEN 1 ELSE 0))
  IN  IF row.action = <<>> THEN TruncateSpans(label, ListWidth(p))
      ELSE shown \o [i \in 1 .. Monus(ListWidth(p), WidthOf(shown) + WidthOf(row.action)) |-> 1]
             \o row.action

\* The first column of the list at which a click is on the row's action.
RowActionStart(p, row) == Monus(ListWidth(p), Len(row.action))

\* The rows a frame draws, from the first one in the list.
Drawn(p) == SubSeq(p.visible, p.offset + 1, Min({p.offset + p.height, Len(p.visible)}))

(***************************************************************************)
(* Events.  An open menu gets all of them.                                 *)
(***************************************************************************)
NoMenu == picker.menu = NoId

Wheel ==
  /\ NoMenu
  /\ \E down \in BOOLEAN :
       picker' = [picker EXCEPT !.offset =
         IF down THEN Min({@ + WheelStep, picker.maximum}) ELSE Monus(@, WheelStep)]

ScrollbarTo(p, row) ==
  [p EXCEPT !.offset = ScrollbarPosition(row, p.height, p.maximum)]

ScrollbarDown ==
  /\ NoMenu /\ HasScrollbar(picker)
  /\ \E row \in 0 .. picker.height - 1 :
       picker' = ScrollbarTo([picker EXCEPT !.dragging = TRUE], row)

ScrollbarDrag ==
  /\ NoMenu /\ picker.dragging
  /\ \E row \in 0 .. picker.height : picker' = ScrollbarTo(picker, row)

ScrollbarUp ==
  /\ NoMenu /\ picker.dragging
  /\ picker' = [picker EXCEPT !.dragging = FALSE]

RowAt(p, k) == p.document.rows[Drawn(p)[k]]

RightClick ==
  /\ NoMenu
  /\ \E k \in DOMAIN Drawn(picker) :
       /\ RowAt(picker, k).menu
       /\ picker' = [picker EXCEPT !.selected = RowAt(picker, k).id, !.menu = RowAt(picker, k).id]

\* A click on the row's action changes nothing here.
LeftClick ==
  /\ NoMenu
  /\ \E k \in DOMAIN Drawn(picker) :
       LET row == RowAt(picker, k)
           chosen == [picker EXCEPT !.selected = row.id]
       IN  /\ row.action = <<>> \/ RowActionStart(picker, row) > 0
           /\ picker' = EnsureSelectionVisible(
                IF row.branch THEN ToggleExpanded(chosen, row.id) ELSE chosen)

CollapsedAll(p) ==
  EnsureSelectionVisible(RecalculateMetrics(RepairHiddenSelection(RebuildVisible(
    [p EXCEPT !.expanded = {}]))))

ExpandedAll(p) ==
  EnsureSelectionVisible(RecalculateMetrics(RebuildVisible(
    [p EXCEPT !.expanded = {p.document.rows[i].id :
                              i \in {j \in DOMAIN p.document.rows : p.document.rows[j].branch}}])))

HeaderClick ==
  /\ NoMenu /\ picker.document.tree /\ picker.width >= HeaderWidth
  /\ picker' \in {CollapsedAll(picker), ExpandedAll(picker)}

\* The commands of the palette, which closes a menu before it opens.
FoldCommand ==
  /\ NoMenu /\ picker.document.tree
  /\ picker' \in {CollapsedAll(picker), ExpandedAll(picker)}

\* Previous, next, first and last; History drives them past an open menu.
Navigate ==
  LET current == Max({SelectedIndex(picker), 0})
      last == Monus(Len(picker.visible), 1)
  IN  \E index \in {Monus(current, 1), Min({current + 1, last}), 0, last} :
        picker' = SelectVisible(picker, index)

Activate ==
  /\ NoMenu
  /\ picker.selected # NoId /\ RowOf(picker, picker.selected).branch
  /\ picker' = EnsureSelectionVisible(ToggleExpanded(picker, picker.selected))

OpenMenu ==
  /\ NoMenu
  /\ picker.selected # NoId /\ RowOf(picker, picker.selected).menu
  /\ SelectedIndex(picker) >= 0
  /\ picker' = [picker EXCEPT !.menu = picker.selected]

\* Escape, c, an action's key or any click closes the menu.
MenuEvent == ~NoMenu /\ picker' = [picker EXCEPT !.menu = NoId]

\* The owner reveals a file: quick open, and a file selected in another tab.
SelectAndReveal ==
  \E id \in IdsOf(picker.document) :
    LET rows == picker.document.rows
        at == SelectInSeq(rows, LAMBDA row : row.id = id)
        ancestors == {rows[i].id : i \in {j \in 1 .. at - 1 :
                        /\ rows[j].depth < rows[at].depth
                        /\ \A k \in j + 1 .. at : rows[k].depth > rows[j].depth}}
        shown == RebuildVisible([picker EXCEPT !.expanded = @ \cup ancestors])
    IN  picker' = EnsureSelectionVisible(RecalculateMetrics(
          IF IsVisible(shown, id) THEN [shown EXCEPT !.selected = id] ELSE shown))

PickerInit == picker = EmptyPicker

PickerEvent ==
  Wheel \/ ScrollbarDown \/ ScrollbarDrag \/ ScrollbarUp \/ RightClick \/ LeftClick
    \/ HeaderClick \/ FoldCommand \/ Navigate \/ Activate \/ OpenMenu \/ MenuEvent \/ SelectAndReveal

PickerNext == Prepare \/ PickerEvent

-----------------------------------------------------------------------------
(* The ancestors of a row: what the tree the rows were made from says.      *)
RECURSIVE AncestorsIn(_, _)
AncestorsIn(nodes, id) ==
  UNION {LET below == {n.id : n \in Range(nodes[i].children)}
             deeper == AncestorsIn(nodes[i].children, id)
         IN  IF id \in below \/ deeper # {} THEN {nodes[i].id} \cup deeper ELSE {}
         : i \in DOMAIN nodes}

Ancestors(p, id) ==
  IF p.document.tree
  THEN LET nodes == CHOOSE n \in Forests : Tree(n) = p.document IN AncestorsIn(nodes, id)
  ELSE {}

(* The rows on screen are those whose folders are all unfolded, in order,   *)
(* and one of them is selected; an open menu belongs to one of them.        *)
(* (FilePicker: rebuild_visible, repair_hidden_selection, prepare.)         *)
SelectionIsShown ==
  /\ VisibleIds(picker) =
       LET ids == [i \in DOMAIN picker.document.rows |-> picker.document.rows[i].id]
       IN  SelectSeq(ids, LAMBDA id : Ancestors(picker, id) \subseteq picker.expanded)
  /\ IF picker.visible = <<>> THEN picker.selected = NoId ELSE IsVisible(picker, picker.selected)
  /\ picker.menu # NoId => IsVisible(picker, picker.menu)

(* The offset never points past the last page, the thumb stays on its       *)
(* track and touches an end exactly at the first and the last page, or when *)
(* there is no room to move.  (scrollbar_geometry, recalculate_metrics.)    *)
ThumbShowsOffset ==
  LET thumb == ScrollbarThumb(picker.height, Len(picker.visible), picker.height, picker.offset)
      end == thumb.start + thumb.length
  IN  /\ picker.offset \in 0 .. picker.maximum
      /\ HasScrollbar(picker) =>
           /\ thumb.length \in 1 .. picker.height /\ end <= picker.height
           /\ picker.offset = 0 => thumb.start = 0
           /\ picker.offset = picker.maximum => end = picker.height

(* A row never draws past the list, and its action is drawn in exactly the  *)
(* columns where a click runs it, when the list is wide enough for one.     *)
(* (list_item and truncate_spans against row_action_contains.)              *)
ActionIsWhereItIsDrawn ==
  \A i \in Range(Drawn(picker)) :
    LET row == picker.document.rows[i]
        drawn == ListItem(picker, row)
        before == SubSeq(drawn, 1, Len(drawn) - Len(row.action))
    IN  ListWidth(picker) >= WidthOf(row.action) =>
          /\ WidthOf(drawn) <= ListWidth(picker)
          /\ row.action # <<>> => WidthOf(before) = RowActionStart(picker, row)

InView(p) == SelectedIndex(p) \in p.offset .. p.offset + p.height - 1

(* A step that selects another row leaves it on screen, whichever way it    *)
(* was selected: a key, a click, a fold, a reveal or new rows.              *)
(* (ensure_selection_visible after recalculate_metrics.)                    *)
SelectionComesIntoView ==
  [][picker'.selected # picker.selected /\ picker'.visible # <<>> /\ picker'.height > 0
       => InView(picker')]_picker
=============================================================================
