------------------------------ MODULE DiffText ------------------------------
(***************************************************************************)
(* Reading a file's patch and laying it out: the parser, the three         *)
(* projections of the review pane (inline, side by side, compact hunks),   *)
(* where the changes are, where jumps and refreshed documents put the      *)
(* viewport, and which lines the syntax worker colors.                     *)
(*                                                                         *)
(* A patch is a sequence of lines, a line its first character (op) and its *)
(* text; a text is an element of any set.  Rows are counted from 0 as the  *)
(* code counts them: row r of a sequence rows is rows[r + 1].  Lines of    *)
(* files are counted from 1, so 0 (NoLine) stands for None.                *)
(***************************************************************************)
EXTENDS Integers, Sequences, FiniteSets, SequencesExt, FiniteSetsExt

CONSTANTS
  Markers,   \* the texts that start with a conflict marker
  Margin,    \* COMPACT_CONTEXT_LINES
  None

ASSUME MarginAssumption == Margin \in Nat

NoLine == 0

Lower(a, b) == IF a <= b THEN a ELSE b
Upper(a, b) == IF a <= b THEN b ELSE a
Less(a, b) == IF b <= a THEN a - b ELSE 0          \* saturating_sub
Apart(a, b) == IF b <= a THEN a - b ELSE b - a     \* abs_diff

-----------------------------------------------------------------------------
(* Patches *)

Line(op, text) == [op |-> op, text |-> text]
HunkHeader(old, new) == [op |-> "@@", text |-> "@@", old |-> old, new |-> new]

(***************************************************************************)
(* A hunk under construction: the blocks that are complete, the lines of   *)
(* the block that is not, and the numbers of the next lines.               *)
(***************************************************************************)
HunkBuilder(header) ==
  [start |-> <<header.old, header.new>>, old |-> header.old, new |-> header.new,
   blocks |-> << >>, context |-> << >>, removed |-> << >>, added |-> << >>]

FlushContext(hunk) ==
  IF hunk.context = << >> THEN hunk
  ELSE [hunk EXCEPT !.context = << >>,
          !.blocks = Append(@, [kind |-> "Context", lines |-> hunk.context])]

FlushChange(hunk) ==
  IF hunk.removed = << >> /\ hunk.added = << >> THEN hunk
  ELSE [hunk EXCEPT !.removed = << >>, !.added = << >>,
          !.blocks = Append(@, [kind |-> "Change", removed |-> hunk.removed,
                                added |-> hunk.added])]

Push(hunk, line) ==
  CASE line.op = " " ->
         [FlushChange(hunk) EXCEPT !.old = @ + 1, !.new = @ + 1,
            !.context = Append(@, [old |-> hunk.old, new |-> hunk.new, text |-> line.text])]
    [] line.op = "-" ->
         [FlushContext(hunk) EXCEPT !.old = @ + 1,
            !.removed = Append(@, [old |-> hunk.old, new |-> NoLine, text |-> line.text])]
    [] line.op = "+" ->
         [FlushContext(hunk) EXCEPT !.new = @ + 1,
            !.added = Append(@, [old |-> NoLine, new |-> hunk.new, text |-> line.text])]
    [] line.op = "\\" ->
         [FlushChange(FlushContext(hunk)) EXCEPT
            !.blocks = Append(@, [kind |-> "Meta", text |-> line.text])]
    [] OTHER -> hunk

FinishHunk(hunk) ==
  LET done == FlushChange(FlushContext(hunk))
  IN  [start |-> done.start, blocks |-> done.blocks]

(***************************************************************************)
(* Lines before the first hunk header say whether there are hunks at all.  *)
(* Malformed headers are left out: Git does not print them.                *)
(***************************************************************************)
Parse(patch) ==
  LET headers == {i \in DOMAIN patch : patch[i].op = "@@"}
      telling == {i \in DOMAIN patch : /\ patch[i].op \in {"Binary", "diff --cc"}
                                       /\ \A h \in headers : i < h}
      read == FoldLeft(LAMBDA hunks, line :
                 CASE line.op = "@@" -> Append(hunks, HunkBuilder(line))
                   [] line.op # "@@" /\ hunks = << >> -> hunks
                   [] OTHER -> [hunks EXCEPT ![Len(hunks)] = Push(@, line)],
               << >>, patch)
  IN  IF telling = {}
      THEN [ok |-> TRUE, binary |-> FALSE, hunks |-> [h \in DOMAIN read |-> FinishHunk(read[h])]]
      ELSE [ok |-> patch[Min(telling)].op = "Binary", binary |-> TRUE, hunks |-> << >>]

(***************************************************************************)
(* Which removed line stands beside which added one.  Myers' algorithm,    *)
(* which the code takes from a library, keeps a longest common subsequence *)
(* of the two: a set of pairs of lines.  Lines of a change that Git prints *)
(* are equal here when only what the parser does not keep, a carriage      *)
(* return, differs.                                                        *)
(***************************************************************************)
Matchings(removed, added) ==
  LET equal == {p \in (DOMAIN removed) \X (DOMAIN added) : removed[p[1]].text = added[p[2]].text}
      common == {m \in SUBSET equal : \A p, q \in m : p[1] < q[1] <=> p[2] < q[2]}
  IN  {m \in common : \A other \in common : Cardinality(other) <= Cardinality(m)}

\* Mutant: lines without a partner are dropped.
PairsShortest(removed, added) ==
  [i \in 1 .. Lower(Len(removed), Len(added)) |-> [old |-> <<removed[i]>>, new |-> <<added[i]>>]]

(***************************************************************************)
(* The rows of one operation: paired by position, the rest on their own.   *)
(***************************************************************************)
Pairs(removed, added) ==
  [i \in 1 .. Upper(Len(removed), Len(added)) |->
    [old |-> IF i <= Len(removed) THEN <<removed[i]>> ELSE << >>,
     new |-> IF i <= Len(added) THEN <<added[i]>> ELSE << >>]]

(***************************************************************************)
(* The kept lines level, and what is between two of them one operation.    *)
(***************************************************************************)
Aligned(removed, added, matching) ==
  LET kept == SetToSortSeq(matching, LAMBDA p, q : p[1] < q[1])
      ends == <<<<0, 0>>>> \o kept \o <<<<Len(removed) + 1, Len(added) + 1>>>>
      Between(side, lines, i) == SubSeq(lines, ends[i][side] + 1, ends[i + 1][side] - 1)
      Level(i) == Pairs(<<removed[kept[i][1]]>>, <<added[kept[i][2]]>>)
  IN  FlattenSeq([i \in 1 .. Len(kept) + 1 |->
        Pairs(Between(1, removed, i), Between(2, added, i))
          \o IF i <= Len(kept) THEN Level(i) ELSE << >>])

(***************************************************************************)
(* Of several longest subsequences the library keeps one.                  *)
(***************************************************************************)
AlignLines(removed, added) ==
  Aligned(removed, added, CHOOSE m \in Matchings(removed, added) : TRUE)

-----------------------------------------------------------------------------
(***************************************************************************)
(* Projections.  A row has the kind it is drawn and searched by, what an   *)
(* anchor recognizes it by (content), and the lines of the old and the new *)
(* file whose colors it needs.                                             *)
(***************************************************************************)
Row(kind, content, old, new) ==
  [kind |-> kind, content |-> content, old |-> old, new |-> new]

LineKind(text, fallback, marked) ==
  IF marked /\ text \in Markers THEN "Conflict" ELSE fallback

InlineRows(document, marked) ==
  LET Show(line, fallback) ==
        LET kind == LineKind(line.text, fallback, marked)
            number == IF fallback = "Removed" THEN line.old ELSE line.new
        IN  Row(kind, <<kind, line.text>>, IF kind = "Removed" THEN number ELSE NoLine,
                IF kind = "Removed" THEN NoLine ELSE number)
      Rows(lines, fallback) == [i \in DOMAIN lines |-> Show(lines[i], fallback)]
      Block(block) ==
        CASE block.kind = "Context" -> Rows(block.lines, "Context")
          [] block.kind = "Change" -> Rows(block.removed, "Removed") \o Rows(block.added, "Added")
          [] block.kind = "Meta" -> <<Row("Meta", <<"Meta", block.text>>, NoLine, NoLine)>>
      Hunk(hunk) ==
        <<Row("Header", <<"Header", hunk.start>>, NoLine, NoLine)>>
          \o FlattenSeq([b \in DOMAIN hunk.blocks |-> Block(hunk.blocks[b])])
  IN  FlattenSeq([h \in DOMAIN document.hunks |-> Hunk(document.hunks[h])])

SideBySideRows(document, marked) ==
  LET Cell(lines, fallback) ==
        IF lines = << >> THEN << >>
        ELSE <<LineKind(lines[1].text, fallback, marked), lines[1].text>>
      Pair(kind, old, new, oldKind, newKind) ==
        Row(kind, <<Cell(old, oldKind), Cell(new, newKind)>>,
            IF old = << >> THEN NoLine ELSE old[1].old, IF new = << >> THEN NoLine ELSE new[1].new)
      Block(block) ==
        CASE block.kind = "Context" ->
               [i \in DOMAIN block.lines |->
                 Pair("Context", <<block.lines[i]>>, <<block.lines[i]>>, "Context", "Context")]
          [] block.kind = "Change" ->
               LET pairs == AlignLines(block.removed, block.added)
               IN  [i \in DOMAIN pairs |->
                     Pair("Changed", pairs[i].old, pairs[i].new, "Removed", "Added")]
          [] block.kind = "Meta" -> <<Row("Meta", <<<<"Meta", block.text>>, << >>>>, NoLine, NoLine)>>
      Hunk(hunk) ==
        <<Row("Header", <<<<"Header", hunk.start>>, <<"Header", hunk.start>>>>, NoLine, NoLine)>>
          \o FlattenSeq([b \in DOMAIN hunk.blocks |-> Block(hunk.blocks[b])])
  IN  FlattenSeq([h \in DOMAIN document.hunks |-> Hunk(document.hunks[h])])

IsChange(row) == row.kind \in {"Removed", "Added", "Changed", "Conflict"}

(***************************************************************************)
(* A hunk of the compact projection: the rows of its changes with Margin   *)
(* rows around them, windows that touch are one.                           *)
(***************************************************************************)
HunkBody(hunk, marked) ==
  LET Rows(lines, fallback) ==
        [i \in DOMAIN lines |->
          LET kind == LineKind(lines[i].text, fallback, marked)
          IN  Row(kind, <<kind, lines[i].text>>, lines[i].old, lines[i].new)]
      Block(block) ==
        CASE block.kind = "Context" -> Rows(block.lines, "Context")
          [] block.kind = "Change" -> Rows(block.removed, "Removed") \o Rows(block.added, "Added")
          [] block.kind = "Meta" -> <<Row("Meta", <<"Meta", block.text>>, NoLine, NoLine)>>
  IN  FlattenSeq([b \in DOMAIN hunk.blocks |-> Block(hunk.blocks[b])])

CompactWindows(body) ==
  LET changes == SetToSortSeq({i \in DOMAIN body : IsChange(body[i])}, <)
      From(i) == Less(i - 1, Margin)
      To(i) == Lower(i + Margin, Len(body))
      Widen(windows, i) ==
        IF windows # << >> /\ From(i) <= windows[Len(windows)].end
        THEN [windows EXCEPT ![Len(windows)].end = Upper(@, To(i))]
        ELSE Append(windows, [start |-> From(i), end |-> To(i)])
  IN  FoldLeft(Widen, << >>, changes)

(***************************************************************************)
(* The header of a window: the first number and the count of each side.    *)
(***************************************************************************)
WindowHeader(rows, start) ==
  LET Header(numbers, otherwise) ==
        LET known == SelectSeq(numbers, LAMBDA n : n # NoLine)
        IN  <<IF known = << >> THEN otherwise ELSE known[1], Len(known)>>
  IN  <<"Header", Header([i \in DOMAIN rows |-> rows[i].old], start[1]),
                  Header([i \in DOMAIN rows |-> rows[i].new], start[2])>>

WindowRows(rows, start) == <<Row("Header", WindowHeader(rows, start), NoLine, NoLine)>> \o rows

CompactRows(body, windows, start) ==
  FlattenSeq([w \in DOMAIN windows |->
    WindowRows(SubSeq(body, windows[w].start + 1, windows[w].end), start)])

CompactHunk(hunk, marked) ==
  LET Compacted(body) == CompactRows(body, CompactWindows(body), hunk.start)
  IN  Compacted(HunkBody(hunk, marked))

(***************************************************************************)
(* The compact projection of several patches.  A segment is a patch with   *)
(* its selection; a target is where the rows of a segment are.  Its rows   *)
(* are the lines before the first hunk header, then the compact hunks.     *)
(***************************************************************************)
Metadata(patch) ==
  LET heads == {i \in DOMAIN patch : patch[i].op = "@@"}
      last == IF heads = {} THEN Len(patch) ELSE Min(heads) - 1
  IN  [i \in 1 .. last |-> Row("Meta", <<"Meta", patch[i].text>>, NoLine, NoLine)]

SegmentRows(segment, document) ==
  Metadata(segment.patch)
    \o FlattenSeq([h \in DOMAIN document.hunks |->
                     CompactHunk(document.hunks[h], segment.marked)])

Aggregate(segments, documents, own) ==
  LET Before(s) == FoldLeft(LAMBDA n, rows : n + Len(rows), 0, SubSeq(own, 1, s - 1))
      Body(s) == IF documents[s].hunks = << >> THEN 0 ELSE Len(Metadata(segments[s].patch))
      Tagged(s) == [i \in DOMAIN own[s] |-> own[s][i] @@ [segment |-> s]]
  IN  [ok |-> \A s \in DOMAIN segments : documents[s].ok,
       rows |-> FlattenSeq([s \in DOMAIN segments |-> Tagged(s)]),
       targets |-> [s \in DOMAIN segments |->
                     [selection |-> segments[s].selection, start |-> Before(s) + Body(s),
                      end |-> Before(s + 1)]]]

AggregateHunkRows(segments) ==
  LET Parsed(documents) ==
        Aggregate(segments, documents,
                  [s \in DOMAIN segments |-> SegmentRows(segments[s], documents[s])])
  IN  Parsed([s \in DOMAIN segments |-> Parse(segments[s].patch)])

-----------------------------------------------------------------------------
(* Changes and the viewport *)

ChangeRegions(rows) ==
  LET changed == {r \in 0 .. Len(rows) - 1 : IsChange(rows[r + 1])}
      firsts == {r \in changed : r - 1 \notin changed}
      LastOf(r) == Min({e \in changed : e >= r /\ e + 1 \notin changed})
  IN  [i \in 1 .. Cardinality(firsts) |->
        LET first == SetToSortSeq(firsts, <)[i] IN [first |-> first, last |-> LastOf(first)]]

FirstChange(regions) == IF regions = << >> THEN None ELSE regions[1].first

(***************************************************************************)
(* The row above the change, if another change is above it.                *)
(***************************************************************************)
ChangeScroll(regions, index) == Less(regions[index].first, IF index > 1 THEN 1 ELSE 0)

\* Mutant: the row below the viewport is skipped.
NextChangeAfter(regions, first, height) ==
  LET below == {i \in DOMAIN regions : regions[i].first > first + height}
  IN  IF below = {} THEN None ELSE ChangeScroll(regions, Min(below))

NextChangeTarget(regions, first, height) ==
  LET below == {i \in DOMAIN regions : regions[i].first >= first + height}
  IN  IF height = 0 \/ below = {} THEN None ELSE ChangeScroll(regions, Min(below))

PreviousChangeTarget(regions, first, height) ==
  LET above == {i \in DOMAIN regions : regions[i].last < first}
  IN  IF height = 0 \/ above = {} THEN None ELSE ChangeScroll(regions, Max(above))

MaximumScroll(total, height) == Less(total, height)

(***************************************************************************)
(* What a refreshed document is recognized by: up to AnchorRows rows from  *)
(* the top of the viewport, and the viewport that shows the first of them  *)
(* that is still there, nearest to where it was.                           *)
(***************************************************************************)
AnchorRows == 16

Anchor(rows, scroll) ==
  [i \in 1 .. Lower(AnchorRows, Less(Len(rows), scroll)) |->
    [offset |-> i - 1, index |-> scroll + i - 1, content |-> rows[scroll + i].content]]

ResolveAnchor(anchor, rows) ==
  LET Matches(a) == {r \in 0 .. Len(rows) - 1 : rows[r + 1].content = a.content}
      found == {i \in DOMAIN anchor : Matches(anchor[i]) # {}}
      a == anchor[Min(found)]
      nearest == CHOOSE r \in Matches(a) : \A q \in Matches(a) :
                   \/ Apart(r, a.index) < Apart(q, a.index)
                   \/ Apart(r, a.index) = Apart(q, a.index) /\ r <= q
  IN  IF found = {} THEN None ELSE Less(nearest, a.offset)

-----------------------------------------------------------------------------
(* Syntax *)

CenteredWindow(target, total, height, viewports) ==
  LET rows == Upper(height, 1) * Upper(viewports, 1)
      start == Lower(Less(target, Upper(height, 1) * (Upper(viewports, 1) \div 2)), Less(total, rows))
  IN  start .. Lower(start + rows, total) - 1

PrefetchViewports(committed, requested, height) ==
  CASE committed = requested -> 3
    [] committed # requested /\ Apart(committed, requested) < Upper(height, 1) -> 7
    [] OTHER -> 13

(***************************************************************************)
(* The lines of each side between the first and the last one in a window.  *)
(***************************************************************************)
LineRange(lines) == IF lines = {} THEN {} ELSE Min(lines) .. Max(lines)

HighlightRanges(rows, window) ==
  [old |-> LineRange({rows[r + 1].old : r \in window} \ {NoLine}),
   new |-> LineRange({rows[r + 1].new : r \in window} \ {NoLine})]
=============================================================================
