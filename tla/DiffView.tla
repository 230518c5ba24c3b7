------------------------------ MODULE DiffView ------------------------------
(***************************************************************************)
(* The Diff activity: which file is selected, which document its pane      *)
(* shows at which scroll position, and the worker that prepares long       *)
(* documents, while snapshots replace the files.                           *)
(*                                                                         *)
(* A document is prepared (parsed, laid out, colored around a row) for a   *)
(* key and committed with its viewport in one frame (Frame).  What a key   *)
(* lays out to is DiffText's business; here a key is compared, and its     *)
(* layout looked up.                                                       *)
(***************************************************************************)
EXTENDS DiffText, TLC

CONSTANTS
  Snapshots,     \* the snapshots the repository service may deliver
  Text,          \* patch -> its lines
  Big,           \* the patches beyond MAX_SYNC_BYTES or MAX_SYNC_LINES
  Long,          \* the patches beyond MAX_HIGHLIGHT_FILE_LINES
  Heights,       \* the heights the pane and the full screen can have
  Step,          \* LINE_SCROLL_ROWS
  CacheSize,     \* PREPARED_BUFFER_CACHE_SIZE
  MaxInputs,     \* bound: inputs of the user
  MaxSnapshots   \* bound: snapshots that arrive

ASSUME ConstantsAssumption ==
  /\ Heights \subseteq Nat \ {0} /\ Step \in Nat /\ CacheSize \in Nat
  /\ MaxInputs \in Nat /\ MaxSnapshots \in Nat

VARIABLES
  model,      \* diff::Model and its ReviewState
  view,       \* diff::Renderer
  requests,   \* the channel to the worker
  job,        \* the request the worker prepares
  result,     \* the one slot of the channel back
  batch,      \* TRUE after an input, until the frame
  inputs, arrivals

vars == <<model, view, requests, job, result, batch, inputs, arrivals>>

-----------------------------------------------------------------------------
(* Files and documents *)

(***************************************************************************)
(* A snapshot is a sequence of files, a file its path and the patches of   *)
(* its two areas, None where there is none.                                *)
(***************************************************************************)
File(path, staged, unstaged, conflicted) ==
  [path |-> path, staged |-> staged, unstaged |-> unstaged, conflicted |-> conflicted]

FileKey(path, area) == [path |-> path, area |-> area]

DiffOf(file, area) == IF area = "staged" THEN file.staged ELSE file.unstaged

InArea(snapshot, area) == SelectSeq(snapshot, LAMBDA file : DiffOf(file, area) # None)

FileKeys(snapshot) ==
  LET Keys(area) == LET files == InArea(snapshot, area)
                    IN  [i \in DOMAIN files |-> FileKey(files[i].path, area)]
  IN  Keys("staged") \o Keys("unstaged")

Position(keys, key) == CHOOSE i \in DOMAIN keys : keys[i] = key

WorktreeHunks(snapshot) ==
  LET Segments(area) ==
        LET files == InArea(snapshot, area)
        IN  [i \in DOMAIN files |-> [selection |-> FileKey(files[i].path, area),
                                     patch |-> DiffOf(files[i], area),
                                     marked |-> files[i].conflicted]]
  IN  Segments("staged") \o Segments("unstaged")

CompleteChange == FileKey("worktree", "complete")

(***************************************************************************)
(* The identity of a document: everything its rows depend on.              *)
(***************************************************************************)
DiffKey(snapshot, selected, mode) ==
  LET found == SelectSeq(snapshot, LAMBDA file : file.path = selected.path)
  IN  IF selected = None THEN None
      ELSE IF found = << >> THEN None
      ELSE IF DiffOf(found[1], selected.area) = None THEN None
      ELSE IF mode = "Hunk"
      THEN [selection |-> CompleteChange, mode |-> mode, patch |-> None, marked |-> FALSE,
            segments |-> WorktreeHunks(snapshot)]
      ELSE [selection |-> selected, mode |-> mode, patch |-> DiffOf(found[1], selected.area),
            marked |-> found[1].conflicted, segments |-> << >>]

Modes == {"Inline", "SideBySide", "Hunk"}

Documents ==
  {DiffKey(s, key, mode) : s \in Snapshots, mode \in Modes,
                           key \in UNION {Range(FileKeys(t)) : t \in Snapshots}} \ {None}

PatchesOf(key) ==
  IF key.mode = "Hunk" THEN {key.segments[s].patch : s \in DOMAIN key.segments} ELSE {key.patch}

Laid(key, rows, ok, targets) ==
  [rows |-> rows, regions |-> ChangeRegions(rows), ok |-> ok, targets |-> targets,
   plain |-> PatchesOf(key) \subseteq Long, big |-> PatchesOf(key) \cap Big # {}]

PrepareRows(key) ==
  LET Compact(aggregate) == Laid(key, aggregate.rows, aggregate.ok, aggregate.targets)
      Whole(document) ==
        Laid(key, IF key.mode = "Inline" THEN InlineRows(document, key.marked)
                  ELSE SideBySideRows(document, key.marked), document.ok, << >>)
  IN  IF key.mode = "Hunk"
      THEN Compact(AggregateHunkRows([s \in DOMAIN key.segments |->
                                        [key.segments[s] EXCEPT !.patch = Text[@]]]))
      ELSE Whole(Parse(Text[key.patch]))

(***************************************************************************)
(* Every layout, computed once.                                            *)
(***************************************************************************)
Layouts == [key \in Documents |-> PrepareRows(key)]

-----------------------------------------------------------------------------
(* The model *)

InstallSnapshot(m, snapshot, intended) ==
  LET keys == FileKeys(snapshot)
      listed == {key \in {intended, m.selected} \ {None} : key \in Range(keys)}
      cursor == CASE intended \in listed -> Position(keys, intended)
                  [] intended \notin listed /\ m.selected \in listed -> Position(keys, m.selected)
                  [] OTHER -> Lower(m.cursor, Upper(Len(keys), 1))
  IN  [m EXCEPT !.snapshot = snapshot, !.cursor = cursor,
                !.selected = IF keys = << >> THEN None ELSE keys[cursor]]

Selected(m, key) ==
  [m EXCEPT !.selected = key, !.cursor = Position(FileKeys(m.snapshot), key)]

(***************************************************************************)
(* What a toggle of the staging of the selected file will do, and the file *)
(* of the same area to go on with.                                         *)
(***************************************************************************)
PrepareToggleStage(m) ==
  LET keys == FileKeys(m.snapshot)
      peers == SelectSeq(keys, LAMBDA key : key.area = m.selected.area)
      index == Position(peers, m.selected)
  IN  [path |-> m.selected.path, area |-> m.selected.area,
       next |-> IF Len(peers) > 1 THEN peers[(index % Len(peers)) + 1] ELSE None]

SelectionAfterSuccess(action, snapshot) ==
  LET keys == FileKeys(snapshot)
      unstaged == SelectSeq(keys, LAMBDA key : key.area = "unstaged")
  IN  IF action.area = "staged" \/ action.next \in Range(keys) THEN action.next
      ELSE IF unstaged = << >> THEN None ELSE unstaged[1]

-----------------------------------------------------------------------------
(* The renderer *)

FirstOf(values) ==
  LET some == {i \in DOMAIN values : values[i] # None}
  IN  IF some = {} THEN None ELSE values[Min(some)]

NoCover == [old |-> {}, new |-> {}, rows |-> {}]

Covered(a, b) == [old |-> a.old \cup b.old, new |-> a.new \cup b.new, rows |-> a.rows \cup b.rows]

(***************************************************************************)
(* What a window of rows needs or gets: rows of the compact projection,    *)
(* whose segments are colored on their own, lines of the others.           *)
(***************************************************************************)
WindowCover(key, layout, window) ==
  IF key.mode = "Hunk" THEN [NoCover EXCEPT !.rows = window]
  ELSE HighlightRanges(layout.rows, window) @@ NoCover

DisplayedKey(v) == IF v.shown # None THEN v.shown ELSE v.failed

DisplayedRows(v) ==
  IF v.shown # None THEN Len(Layouts[v.shown].rows)
  ELSE IF v.failed # None /\ v.failed.mode # "Hunk" THEN Len(Text[v.failed.patch]) ELSE 0

Covers(cover, needed) ==
  /\ needed.old \subseteq cover.old
  /\ needed.new \subseteq cover.new
  /\ needed.rows \subseteq cover.rows

ViewportReady(v, layout, target) ==
  \/ layout.plain
  \/ Covers(v.cover, WindowCover(v.shown, layout,
                                 CenteredWindow(target, Len(layout.rows), v.height, 1)))

SyntaxReady(v, target) == v.shown # None /\ ViewportReady(v, Layouts[v.shown], target)

(***************************************************************************)
(* prepare_diff: a request's answer, the window around its target or, for  *)
(* a document that is new, around the first change.                        *)
(***************************************************************************)
PreparationTarget(request, change) ==
  CASE request.target # None -> request.target
    [] request.target = None /\ change # None -> change
    [] OTHER -> 0

PreparedAround(request, layout, target) ==
  [key |-> request.key, target |-> request.target, ok |-> layout.ok,
   cover |-> IF ~layout.ok \/ layout.plain THEN NoCover
             ELSE WindowCover(request.key, layout,
                    CenteredWindow(target, Len(layout.rows), request.height, request.viewports))]

PreparedIn(request, layout) ==
  PreparedAround(request, layout, PreparationTarget(request, FirstChange(layout.regions)))

PrepareDiff(request) == PreparedIn(request, Layouts[request.key])

\* Mutant: what was colored stays.
InstallCacheColors(v, key, cover) == [v EXCEPT !.shown = key, !.cover = Covered(@, cover)]

InstallCache(v, key, cover) ==
  IF v.shown = key THEN [v EXCEPT !.cover = Covered(@, cover)]
  ELSE [v EXCEPT !.shown = key, !.cover = cover,
          !.cached = IF v.shown = None THEN @
                     ELSE LET others == SelectSeq(@, LAMBDA c : c.key # v.shown)
                              all == <<[key |-> v.shown, cover |-> v.cover]>> \o others
                          IN  SubSeq(all, 1, Lower(CacheSize, Len(all)))]

InstallOutcome(v, outcome) ==
  IF outcome.ok THEN InstallCache([v EXCEPT !.failed = None], outcome.key, outcome.cover)
  ELSE [v EXCEPT !.shown = None, !.cover = NoCover, !.failed = outcome.key]

(***************************************************************************)
(* prepare_requested.  s is the renderer with what it sends and what it    *)
(* commits: the target of the last answer installed, or << >>.             *)
(***************************************************************************)
\* Mutant: a dropped answer stays submitted.
AcceptForgetsSubmitted(s, requested, outcome) ==
  IF requested # outcome.key THEN s
  ELSE [s EXCEPT !.view = InstallOutcome([@ EXCEPT !.submitted = {}], outcome),
                 !.commit = <<outcome.target>>]

AcceptPreparedOutcome(s, requested, outcome) ==
  LET v == [s.view EXCEPT !.submitted = @ \ {<<outcome.key, outcome.target>>}]
  IN  IF requested # outcome.key THEN [s EXCEPT !.view = v]
      ELSE [s EXCEPT !.view = InstallOutcome(v, outcome), !.commit = <<outcome.target>>]

Drained(v, requested, outcomes) ==
  FoldLeft(LAMBDA s, outcome : AcceptPreparedOutcome(s, requested, outcome),
           [view |-> v, commit |-> << >>, send |-> << >>], outcomes)

PrepareRequested(drained, requested, target, viewports) ==
  LET request == [key |-> requested, target |-> target, viewports |-> viewports,
                  height |-> drained.view.height]
      w == drained.view
      hits == {i \in DOMAIN w.cached : w.cached[i].key = requested}
      hit == Min(hits)
  IN  IF drained.commit # << >> THEN drained
      ELSE IF requested = None
      THEN IF DisplayedKey(w) = None THEN drained
           ELSE [drained EXCEPT !.commit = <<None>>,
                   !.view = [w EXCEPT !.shown = None, !.cover = NoCover, !.failed = None]]
      ELSE IF DisplayedKey(w) = requested /\ target = None THEN drained
      ELSE IF target = None /\ hits # {}
      THEN [drained EXCEPT !.commit = <<None>>,
              !.view = InstallCache([w EXCEPT !.cached = RemoveAt(@, hit)],
                                    requested, w.cached[hit].cover)]
      ELSE IF ~Layouts[requested].big
      THEN [drained EXCEPT !.commit = <<target>>, !.view = InstallOutcome(w, PrepareDiff(request))]
      ELSE IF <<requested, target>> \in w.submitted THEN drained
      ELSE [drained EXCEPT !.send = <<request>>,
              !.view = [w EXCEPT !.submitted = {<<requested, target>>}]]

\* Mutant: another file opens at the start.
DocumentViewportAtStart(v, before, after, anchor) ==
  LET kept == IF anchor = << >> \/ v.shown = None THEN None
              ELSE ResolveAnchor(anchor[1], Layouts[after].rows)
  IN  FirstOf(<<kept, 0>>)

(***************************************************************************)
(* Where a replaced document opens: on the row that was on top, if it is   *)
(* the same file and projection; at the start, if the projection changed;  *)
(* at the first change otherwise.                                          *)
(***************************************************************************)
DocumentViewport(v, before, after, anchor) ==
  LET sameSelection == before # None /\ after # None /\ before.selection = after.selection
      sameMode == before # None /\ after # None /\ before.mode = after.mode
      Opening(layout) == FirstOf(<<FirstChange(layout.regions), 0>>)
      Kept(layout) ==
        FirstOf(<<IF anchor = << >> THEN None ELSE ResolveAnchor(anchor[1], layout.rows),
                  Opening(layout)>>)
  IN  CASE v.shown = None -> 0
        [] v.shown # None /\ sameSelection /\ sameMode -> Kept(Layouts[after])
        [] v.shown # None /\ sameSelection /\ ~sameMode -> 0
        [] OTHER -> Opening(Layouts[after])

(***************************************************************************)
(* In the compact view every file is in one document: another selection    *)
(* moves to the start of its hunks.                                        *)
(***************************************************************************)
HunkFocusTarget(v, selection) ==
  LET First(targets, own) == IF own = {} THEN None ELSE targets[Min(own)].start
      Of(targets) == First(targets, {i \in DOMAIN targets : targets[i].selection = selection})
  IN  IF v.shown = None THEN None ELSE Of(Layouts[v.shown].targets)

(***************************************************************************)
(* prepare_buffer: what a frame asks for, from the selection of the model  *)
(* m and what the renderer v shows; the row on top, to find it again; the  *)
(* hunks to move to; and the scroll whose syntax is missing.               *)
(***************************************************************************)
Requesting(m, v, requested) ==
  [v EXCEPT !.requested = requested, !.wanted = m.selected,
            !.target = IF m.selected # v.focus \/ requested # DisplayedKey(v) THEN None ELSE @]

CaptureAnchor(m, v, requested) ==
  IF requested # None /\ v.shown # None /\ v.shown.selection = requested.selection
  THEN <<Anchor(Layouts[v.shown].rows, m.scroll)>> ELSE << >>

FocusTarget(m, v, requested) ==
  IF m.selected # v.focus /\ requested = DisplayedKey(v)
  THEN HunkFocusTarget(v, m.selected) ELSE None

SyntaxTarget(m, v, focus) ==
  LET Unready(target) == IF target # None /\ ~SyntaxReady(v, target) THEN target ELSE None
  IN  FirstOf(<<Unready(focus), Unready(v.target),
                IF v.requested = DisplayedKey(v) THEN Unready(m.scroll) ELSE None>>)

PrepareBuffer(m, v, outcomes, target) ==
  PrepareRequested(Drained(v, v.requested, outcomes), v.requested, target,
                   PrefetchViewports(m.scroll, FirstOf(<<target, m.scroll>>), v.height))

(***************************************************************************)
(* apply_preparation: the scroll position a frame commits with what it     *)
(* prepared (p), and what it no longer has to do.                          *)
(***************************************************************************)
Commits(v, target) == target # None /\ v.requested = DisplayedKey(v) /\ SyntaxReady(v, target)

CommittedScroll(m, v, before, anchor, focus, opened) ==
  FirstOf(<<IF Commits(v, focus) THEN focus ELSE None,
            IF Commits(v, v.target) THEN v.target ELSE None,
            IF opened THEN DocumentViewport(v, before, DisplayedKey(v), anchor) ELSE None,
            m.scroll>>)

Settles(v, focus, opened) ==
  Commits(v, focus) \/ (opened /\ focus = None /\ v.requested = DisplayedKey(v))

CommitPreparation(m, v, scroll, maximum, settled) ==
  [model |-> [m EXCEPT !.maximum = maximum, !.scroll = Lower(scroll, maximum)],
   view |-> [v EXCEPT !.target = IF Commits(v, @) THEN None ELSE @,
                      !.focus = CASE v.requested = None -> None
                                  [] v.requested # None /\ settled -> m.selected
                                  [] OTHER -> @]]

ApplyPreparation(m, v, before, anchor, focus, opened) ==
  CommitPreparation(m, v, CommittedScroll(m, v, before, anchor, focus, opened),
                    MaximumScroll(DisplayedRows(v), v.height), Settles(v, focus, opened))

Applied(m, p, before, anchor, focus) ==
  [send |-> p.send]
    @@ ApplyPreparation(m, p.view, before, anchor, focus, p.commit = <<None>>)

PreparedFocus(m, v, outcomes, before, anchor, focus) ==
  Applied(m, PrepareBuffer(m, v, outcomes, SyntaxTarget(m, v, focus)), before, anchor, focus)

PreparedFor(m, v, outcomes, requested) ==
  PreparedFocus(m, Requesting(m, v, requested), outcomes, DisplayedKey(v),
                CaptureAnchor(m, v, requested), FocusTarget(m, v, requested))

(***************************************************************************)
(* What one frame makes of the model, the renderer and the answers that    *)
(* are there.                                                              *)
(***************************************************************************)
Prepared(m, v, outcomes) ==
  PreparedFor(m, v, outcomes, DiffKey(m.snapshot, m.selected, m.mode))

Preparing(v) == v.requested # DisplayedKey(v) \/ v.wanted # v.focus

-----------------------------------------------------------------------------
(* Behaviour *)

Init ==
  \E snapshot \in Snapshots, height \in Heights :
    LET keys == FileKeys(snapshot)
        unstaged == {i \in DOMAIN keys : keys[i].area = "unstaged"}
        cursor == IF unstaged = {} THEN 1 ELSE Min(unstaged)
    IN  /\ model = [snapshot |-> snapshot, cursor |-> cursor,
                    selected |-> IF keys = << >> THEN None ELSE keys[cursor],
                    mode |-> "Inline", scroll |-> 0, maximum |-> 0, action |-> None]
        /\ view = [shown |-> None, cover |-> NoCover, failed |-> None, cached |-> << >>,
                   requested |-> None, wanted |-> None, focus |-> None, target |-> None,
                   submitted |-> {}, height |-> height]
        /\ requests = << >> /\ job = None /\ result = None
        /\ batch = FALSE /\ inputs = 0 /\ arrivals = 0

(***************************************************************************)
(* What one frame leaves.  The worker may be stopped at its send with the  *)
(* next answer (both), which the drain then gets as well.                  *)
(***************************************************************************)
Outcomes(both) ==
  (IF result = None THEN << >> ELSE <<result>>) \o (IF both THEN <<PrepareDiff(job)>> ELSE << >>)

AfterFrame(both, prepared) ==
  [model |-> prepared.model, view |-> prepared.view,
   requests |-> requests \o prepared.send, result |-> None,
   job |-> IF both THEN None ELSE job, batch |-> FALSE]

Framed(both) == AfterFrame(both, Prepared(model, view, Outcomes(both)))

Both == {FALSE} \cup {both \in {TRUE} : result # None /\ job # None}

Frame ==
  \E both \in Both : \E framed \in {Framed(both)} :
    /\ model' = framed.model
    /\ view' = framed.view
    /\ requests' = framed.requests
    /\ result' = framed.result
    /\ job' = framed.job
    /\ batch' = framed.batch
    /\ UNCHANGED <<inputs, arrivals>>

(***************************************************************************)
(* ENABLED <<Frame>>_vars: a frame would change something.                 *)
(***************************************************************************)
FrameDue ==
  \E both \in Both :
    Framed(both) # [model |-> model, view |-> view, requests |-> requests,
                    result |-> result, job |-> job, batch |-> batch]

(***************************************************************************)
(* The worker takes the newest request and forgets the older ones.         *)
(***************************************************************************)
Take ==
  /\ job = None /\ requests # << >>
  /\ job' = requests[Len(requests)]
  /\ requests' = << >>
  /\ UNCHANGED <<model, view, result, batch, inputs, arrivals>>

Answer ==
  /\ job # None /\ result = None
  /\ result' = PrepareDiff(job)
  /\ job' = None
  /\ UNCHANGED <<model, view, requests, batch, inputs, arrivals>>

(***************************************************************************)
(* Snapshots are drained before input is read.                             *)
(***************************************************************************)
Arrives ==
  /\ ~batch /\ arrivals < MaxSnapshots
  /\ arrivals' = arrivals + 1
  /\ UNCHANGED <<view, requests, job, result, batch, inputs>>

RepositoryChanged(snapshot) ==
  /\ Arrives
  /\ snapshot # model.snapshot
  /\ model' = InstallSnapshot(model, snapshot, None)

(***************************************************************************)
(* The command of the pending file action ended.  The next selection is    *)
(* taken from whatever its snapshot has: the file may be in both areas, or *)
(* changed again.                                                          *)
(***************************************************************************)
CompleteOperation(snapshot) ==
  /\ Arrives
  /\ model.action # None
  /\ model' = InstallSnapshot([model EXCEPT !.action = None], snapshot,
                              SelectionAfterSuccess(model.action, snapshot))

FailOperation ==
  /\ ~batch
  /\ model.action # None
  /\ model' = [model EXCEPT !.action = None]
  /\ UNCHANGED <<view, requests, job, result, batch, inputs, arrivals>>

Input ==
  /\ inputs < MaxInputs
  /\ inputs' = inputs + 1
  /\ batch' = TRUE
  /\ UNCHANGED <<requests, job, result, arrivals>>

(***************************************************************************)
(* The arrow keys and clicks of the two file lists end in one of the files *)
(* listed.                                                                 *)
(***************************************************************************)
SelectFile(key) ==
  /\ Input
  /\ key # model.selected /\ key \in Range(FileKeys(model.snapshot))
  /\ model' = Selected(model, key)
  /\ UNCHANGED view

ToggleDiffView ==
  /\ Input
  /\ model' = [model EXCEPT !.mode = CASE @ = "Inline" -> "SideBySide"
                                        [] @ = "SideBySide" -> "Hunk"
                                        [] @ = "Hunk" -> "Inline"]
  /\ UNCHANGED view

ToggleStageSelected ==
  /\ Input
  /\ model.action = None /\ model.selected # None
  /\ model' = [model EXCEPT !.action = PrepareToggleStage(model)]
  /\ UNCHANGED view

(***************************************************************************)
(* A vertical scroll is a target for the frames to come; it starts from    *)
(* the target there is, and has no lower bound but the top.                *)
(***************************************************************************)
RequestScroll(v, scroll, lines) ==
  LET from == FirstOf(<<v.target, scroll>>)
  IN  [v EXCEPT !.target = Upper(from + lines, 0)]

Scroll(lines) ==
  /\ Input
  /\ view' = RequestScroll(view, model.scroll, lines)
  /\ UNCHANGED model

ChangeTarget(next, regions, first, height) ==
  IF next THEN NextChangeTarget(regions, first, height)
  ELSE PreviousChangeTarget(regions, first, height)

JumpToChange(next) ==
  /\ Input
  /\ \E target \in {IF view.shown = None THEN None
                    ELSE ChangeTarget(next, Layouts[view.shown].regions,
                           Lower(model.scroll, MaximumScroll(DisplayedRows(view), view.height)),
                           view.height)} \ {None} :
       view' = [view EXCEPT !.target = target]
  /\ UNCHANGED model

(***************************************************************************)
(* The terminal is resized, or the document goes to the full screen.       *)
(***************************************************************************)
Resize(height) ==
  /\ Input
  /\ height # view.height
  /\ view' = [view EXCEPT !.height = height]
  /\ UNCHANGED model

Next ==
  \/ Frame \/ Take \/ Answer
  \/ \E snapshot \in Snapshots : RepositoryChanged(snapshot) \/ CompleteOperation(snapshot)
  \/ FailOperation
  \/ \E key \in Range(FileKeys(model.snapshot)) : SelectFile(key)
  \/ ToggleDiffView
  \/ ToggleStageSelected
  \/ \E lines \in {-view.height, -Step, Step, view.height} : Scroll(lines)
  \/ \E next \in BOOLEAN : JumpToChange(next)
  \/ \E height \in Heights : Resize(height)

SafeSpec == Init /\ [][Next]_vars

(***************************************************************************)
(* The event loop prepares a frame in every iteration; the worker runs.    *)
(* The first conjunct is WF_vars(Frame) with ENABLED written out, which    *)
(* TLC evaluates much faster.                                              *)
(***************************************************************************)
Fairness ==
  /\ []<>(~FrameDue) \/ []<><<Frame>>_vars
  /\ WF_vars(Take) /\ WF_vars(Answer)

Spec == SafeSpec /\ Fairness

-----------------------------------------------------------------------------
(* Properties *)

(***************************************************************************)
(* The cursor is on the selected file, through snapshots that remove it,   *)
(* move it to the other area or empty the list, and through the selections *)
(* of completed commands.  (navigation.rs, repository.rs: selected and     *)
(* cursor are two fields.)                                                 *)
(***************************************************************************)
SelectionListed ==
  LET keys == FileKeys(model.snapshot)
  IN  IF keys = << >> THEN model.selected = None
      ELSE model.cursor \in DOMAIN keys /\ model.selected = keys[model.cursor]

(***************************************************************************)
(* No line is marked colored that the shown document does not have: colors *)
(* of one document are not carried to another, or to the refreshed one.    *)
(* (prepare/mod.rs: install_cache merges the windows of one document.)     *)
(***************************************************************************)
ColorsOfDocument ==
  LET All(layout) == WindowCover(view.shown, layout, 0 .. Len(layout.rows) - 1)
  IN  IF view.shown = None THEN view.cover = NoCover
      ELSE Covers(All(Layouts[view.shown]), view.cover)

(***************************************************************************)
(* The pane never goes to a document that is not the one asked for at that *)
(* moment, however late and in whatever order the worker answers.          *)
(* (ADR 0024; prepare/mod.rs: accept_prepared_outcome.)                    *)
(***************************************************************************)
OnlyRequested ==
  [][view'.shown # view.shown =>
       view'.shown \in {None, DiffKey(model.snapshot, model.selected, model.mode)}]_vars

(***************************************************************************)
(* Another file's document opens with its first change in view, in the     *)
(* frame that says it is ready.  (ADR 0024; prepare/mod.rs:                *)
(* document_viewport_transition.)                                          *)
(***************************************************************************)
OpensAtChange ==
  [][LET change == FirstChange(Layouts[view'.shown].regions)
     IN  /\ view'.shown \notin {None, view.shown}
         /\ DisplayedKey(view) # None
         /\ DisplayedKey(view).selection # view'.shown.selection
         /\ change # None /\ ~Preparing(view')
         => model'.scroll <= change /\ change < model'.scroll + view'.height]_vars

(***************************************************************************)
(* A refreshed document of the same file keeps the row that was on top on  *)
(* top, if the file still has it, or is at its end.  The document may have *)
(* been asked for at another scroll position.  (prepare/anchor.rs.)        *)
(***************************************************************************)
Refreshed ==
  /\ view.shown # None /\ view'.shown \notin {None, view.shown}
  /\ view.shown.selection = view'.shown.selection
  /\ view.shown.mode = view'.shown.mode

TopRowKept ==
  [][Refreshed =>
       LET before == Layouts[view.shown].rows
           after == Layouts[view'.shown].rows
           content == before[model.scroll + 1].content
       IN  model.scroll < Len(before) /\ (\E r \in DOMAIN after : after[r].content = content) =>
             \/ model'.scroll = model'.maximum
             \/ after[model'.scroll + 1].content = content]_vars

Failing == []<>(view.failed # None)

(***************************************************************************)
(* When input and snapshots stop, the pane comes to show the selected file *)
(* in the selected view, unless the patch cannot be read.  (prepare/mod.rs *)
(* drops answers, joins requests and remembers what it asked for.)         *)
(***************************************************************************)
ShowsSelection ==
  Failing \/ <>[](view.shown = DiffKey(model.snapshot, model.selected, model.mode))

(***************************************************************************)
(* ... every scroll is committed, and the rows in view are colored.        *)
(***************************************************************************)
ScrollSettles ==
  \/ Failing
  \/ <>[](view.shown # None => view.target = None /\ SyntaxReady(view, model.scroll))
=============================================================================
