----------------------------- MODULE MCDiffText -----------------------------
(***************************************************************************)
(* DiffText on every short edit of a short file.  The script is the edit:  *)
(* the lines of both files in the order Git prints them, the context lines *)
(* Git leaves out marked as hidden.  A step inserts one line.              *)
(***************************************************************************)
EXTENDS DiffView

CONSTANTS Texts, MaxLines

VARIABLE script

Items ==
  [op : {" "}, text : Texts, shown : BOOLEAN] \cup [op : {"-", "+"}, text : Texts, shown : {TRUE}]
    \cup {[op |-> "\\", text |-> "eof", shown |-> TRUE]}

(***************************************************************************)
(* Git prints the removed lines of a change before the added ones, and the *)
(* missing newline after the last line of a file.                          *)
(***************************************************************************)
Printed(s) ==
  /\ \A i \in 1 .. Len(s) - 1 : s[i].op = "+" => s[i + 1].op # "-"
  /\ \A i \in DOMAIN s : s[i].op = "\\" =>
       /\ i > 1 /\ s[i - 1].op # "\\" /\ s[i - 1].shown
       /\ s[i - 1].op = "-" => \A j \in DOMAIN s : j > i => s[j].op \in {"+", "\\"}
       /\ s[i - 1].op # "-" => i = Len(s)

Counts(op) == [old |-> IF op \in {" ", "-"} THEN 1 ELSE 0, new |-> IF op \in {" ", "+"} THEN 1 ELSE 0]

(***************************************************************************)
(* What `git diff` prints of the script: a header before each run of shown *)
(* lines, with the numbers of its first lines; a side without lines counts *)
(* from the line before.                                                   *)
(***************************************************************************)
GitPatch(s) ==
  LET Old(i) == Cardinality({j \in 1 .. i : Counts(s[j].op).old = 1})
      New(i) == Cardinality({j \in 1 .. i : Counts(s[j].op).new = 1})
      Starts(i) == s[i].shown /\ (i = 1 \/ ~s[i - 1].shown)
      End(i) == Max({j \in i .. Len(s) : \A k \in i .. j : s[k].shown})
      Start(before, upto) == IF upto > before THEN before + 1 ELSE before
      Printing(i) ==
        (IF Starts(i)
         THEN <<HunkHeader(Start(Old(i - 1), Old(End(i))), Start(New(i - 1), New(End(i))))>>
         ELSE << >>)
          \o (IF s[i].shown THEN <<Line(s[i].op, s[i].text)>> ELSE << >>)
  IN  <<Line("meta", "index")>> \o FlattenSeq([i \in DOMAIN s |-> Printing(i)])

Segment(s) == [selection |-> "file", patch |-> GitPatch(s), marked |-> TRUE]
Document(s) == Parse(GitPatch(s))
Compact(s) == AggregateHunkRows(<<Segment(s)>>).rows

ScriptInit == script = << >>

Insert(item, i) ==
  /\ Len(script) < MaxLines
  /\ Printed(InsertAt(script, i, item))
  /\ script' = InsertAt(script, i, item)

ScriptNext == \E item \in Items, i \in 1 .. Len(script) + 1 : Insert(item, i)

-----------------------------------------------------------------------------
(* Properties *)

Numbers(rows, Side(_)) == SelectSeq([r \in DOMAIN rows |-> Side(rows[r])], LAMBDA n : n # NoLine)
OldSide(row) == row.old
NewSide(row) == row.new
Numbered(s, counts) == SetToSortSeq({n \in 1 .. Len(s) : \E i \in DOMAIN s :
                          /\ s[i].shown /\ counts[i] = 1
                          /\ n = Cardinality({j \in 1 .. i : counts[j] = 1})}, <)
OldCounts(s) == [i \in DOMAIN s |-> Counts(s[i].op).old]
NewCounts(s) == [i \in DOMAIN s |-> Counts(s[i].op).new]
FileText(s, counts, n) ==
  s[CHOOSE i \in DOMAIN s : counts[i] = 1 /\ Cardinality({j \in 1 .. i : counts[j] = 1}) = n].text

(***************************************************************************)
(* Every line Git shows is in each projection once, in the order and with  *)
(* the number it has in its file: side by side has each file whole, inline *)
(* the new file and the removed lines, the compact hunks every change;     *)
(* whichever lines of a change are found to be equal.                      *)
(* (projection.rs, hunk.rs: three projections of one parsed document.)     *)
(***************************************************************************)
EveryLineOnce ==
  LET inline == InlineRows(Document(script), FALSE)
      side == SideBySideRows(Document(script), TRUE)
      compact == SelectSeq(Compact(script), IsChange)
      removed == [i \in DOMAIN script |-> IF script[i].op = "-" THEN 1 ELSE 0]
      changed(s, counts, op) ==
        SetToSortSeq({Cardinality({j \in 1 .. i : counts[j] = 1}) :
                        i \in {k \in DOMAIN s : s[k].op = op}}, <)
      SideText(row, side1) == row.content[side1][2]
  IN  /\ Numbers(side, OldSide) = Numbered(script, OldCounts(script))
      /\ Numbers(side, NewSide) = Numbered(script, NewCounts(script))
      /\ \A r \in DOMAIN side :
           /\ side[r].old # NoLine =>
                SideText(side[r], 1) = FileText(script, OldCounts(script), side[r].old)
           /\ side[r].new # NoLine =>
                SideText(side[r], 2) = FileText(script, NewCounts(script), side[r].new)
      /\ \A h \in DOMAIN Document(script).hunks :
           LET blocks == Document(script).hunks[h].blocks
           IN  \A b \in {c \in DOMAIN blocks : blocks[c].kind = "Change"} :
                 \A m \in Matchings(blocks[b].removed, blocks[b].added) :
                   LET pairs == Aligned(blocks[b].removed, blocks[b].added, m)
                       Lines(Side(_)) == FlattenSeq([i \in DOMAIN pairs |-> Side(pairs[i])])
                   IN  /\ Lines(LAMBDA pair : pair.old) = blocks[b].removed
                       /\ Lines(LAMBDA pair : pair.new) = blocks[b].added
      /\ Numbers(inline, OldSide) = changed(script, OldCounts(script), "-")
      /\ Numbers(inline, NewSide) = Numbered(script, NewCounts(script))
      /\ Numbers(SelectSeq(compact, LAMBDA row : row.new = NoLine), OldSide)
           = changed(script, OldCounts(script), "-")
      /\ Numbers(SelectSeq(compact, LAMBDA row : row.old = NoLine), NewSide)
           = changed(script, NewCounts(script), "+")

(***************************************************************************)
(* The compact projection is itself a patch: reading its headers and rows  *)
(* again gives every line the number it has.  (hunk.rs:compact_hunk writes *)
(* new headers over windows of the hunks.)                                 *)
(***************************************************************************)
CompactIsAPatch ==
  LET rows == Compact(script)
      Op(row) == CASE row.kind = "Header" -> "@@"
                   [] row.kind = "Meta" -> "\\"
                   [] row.kind \notin {"Header", "Meta"} /\ row.new = NoLine -> "-"
                   [] row.kind \notin {"Header", "Meta"} /\ row.old = NoLine -> "+"
                   [] OTHER -> " "
      Reprint(row) ==
        IF row.kind = "Header" THEN HunkHeader(row.content[2][1], row.content[3][1])
        ELSE Line(Op(row), row.content[2])
      again == SideBySideRows(Parse([r \in DOMAIN rows |-> Reprint(rows[r])]), TRUE)
  IN  /\ Numbers(again, OldSide) = Numbers(rows, OldSide)
      /\ Numbers(again, NewSide) = Numbers(rows, NewSide)
      /\ \A r \in DOMAIN rows : rows[r].kind = "Header" =>
           LET following == {q \in DOMAIN rows : q > r /\ \A p \in r + 1 .. q : rows[p].kind # "Header"}
           IN  /\ rows[r].content[2][2] = Cardinality({q \in following : rows[q].old # NoLine})
               /\ rows[r].content[3][2] = Cardinality({q \in following : rows[q].new # NoLine})

(***************************************************************************)
(* From any scroll position of a viewport of two rows or more, jumping to  *)
(* the next change moves down and shows the first change below the         *)
(* viewport, jumping back shows the last change above it, and there is no  *)
(* jump only when no change is left on that side.  (geometry.rs:           *)
(* next_change_target, previous_change_target, after the clamp of          *)
(* ReviewState.)                                                           *)
(***************************************************************************)
JumpsShowTheChange ==
  \A rows \in {InlineRows(Document(script), TRUE), Compact(script)} :
    \A height \in Heights \ {1} :
      LET regions == ChangeRegions(rows)
          last == MaximumScroll(Len(rows), height)
          Shows(target, row) == LET top == Lower(target, last) IN top <= row /\ row < top + height
      IN  \A top \in 0 .. last :
            LET next == NextChangeTarget(regions, top, height)
                previous == PreviousChangeTarget(regions, top, height)
                below == {i \in DOMAIN regions : regions[i].first >= top + height}
                above == {i \in DOMAIN regions : regions[i].last < top}
            IN  /\ (next = None) = (below = {})
                /\ (previous = None) = (above = {})
                /\ next # None => Lower(next, last) > top /\ Shows(next, regions[Min(below)].first)
                /\ previous # None => previous < top /\ Shows(previous, regions[Max(above)].first)

(***************************************************************************)
(* The lines the worker colors for a scroll are all the lines the viewport *)
(* needs there: the answer to a request for syntax ends the request.       *)
(* (syntax.rs:projection_highlight_ranges with the prefetch of the request *)
(* and with the single viewport of syntax_ready_for_viewport.)             *)
(***************************************************************************)
SyntaxAnswersRequest ==
  \A rows \in {InlineRows(Document(script), TRUE), SideBySideRows(Document(script), TRUE)} :
    \A height \in Heights \cup {1} : \A committed, target \in 0 .. Len(rows) :
      LET Ranges(viewports) ==
            HighlightRanges(rows, CenteredWindow(target, Len(rows), height, viewports))
          colored == Ranges(PrefetchViewports(committed, target, height))
          needed == Ranges(1)
      IN  needed.old \subseteq colored.old /\ needed.new \subseteq colored.new
=============================================================================
