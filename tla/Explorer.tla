------------------------------ MODULE Explorer ------------------------------
(***************************************************************************)
(* The Explorer: ExplorerActivity on the UI thread and ExplorerThread, over *)
(* a disk that changes under both.                                          *)
(*                                                                          *)
(* Ids count up in the code and are only ever compared for equality: a new  *)
(* one here is the least number that nobody holds any more.                 *)
(*                                                                          *)
(* A file holds one of a few contents, of which only the number of lines    *)
(* and whether they are highlighted matter.  Syntax coverage is a set of    *)
(* lines: its windows merge when they touch, so a range is covered by one   *)
(* window exactly when each of its lines is covered.  The eight-window      *)
(* bound is not reached by files this short.                                *)
(*                                                                          *)
(* An iteration of the event loop notices worktree events, accepts every    *)
(* outcome, submits every queued request, handles input and prepares a      *)
(* frame: phase says which of these comes next.  The Explorer is the active *)
(* activity throughout, and no modal is open.                               *)
(***************************************************************************)
EXTENDS Integers, Sequences, FiniteSets, SequencesExt, Retaining

CONSTANTS
  Files,        \* regular files of the worktree
  Folder,       \* those inside its one directory
  Dir,          \* the row of that directory
  Contents,     \* what a file may hold
  Length,       \* the number of lines of a content
  Plain,        \* contents without highlighting: binary, or too long
  Absent,       \* what disk holds of a file that does not exist
  None,
  Starts,       \* disks to start from
  Rows,         \* viewport_rows of the viewer pane
  FullRows,     \* and of the full screen
  MaxChanges, MaxInputs, MaxFailures

\* The styles of a line, and a viewer's text with those that cover it.
Styles == [of : Contents, line : Nat]
Viewers == [doc : Nat, path : Files, content : Contents, covered : SUBSET Styles]

ASSUME ExplorerAssumption ==
  /\ Folder \subseteq Files /\ Plain \subseteq Contents
  /\ Length \in [Contents -> Nat]
  /\ Absent \notin Contents /\ Dir \notin Files
  /\ None \notin Files \cup {Dir} /\ None \notin Nat \cup (Nat \X Nat) \cup Viewers
  /\ Starts \subseteq [Files -> Contents \cup {Absent}]
  /\ Rows \in Nat \ {0} /\ FullRows \in Nat \ {0}
  /\ MaxChanges \in Nat /\ MaxInputs \in Nat /\ MaxFailures \in Nat

VARIABLES
  disk,         \* Files -> what they hold
  noticed,      \* no worktree change is still on its way to the event loop
  explorer,     \* the fields of ExplorerActivity, its model and its picker
  fullScreen,   \* Workbench.full_screen
  fullPending,  \* Workbench.full_screen_pending
  phase,
  requests,     \* the request channel
  newestLoad,   \* ExplorerWorker.latest_load, shared with the worker
  newestWindow, \* ExplorerWorker.latest_window
  job,          \* the request the worker is preparing
  outcomes,     \* the outcome channel
  \* History: an invalidation the viewer was not reread for, because no file
  \* was selected or because a load that followed failed.
  missed,
  changes, inputs, failures

workerVars == <<requests, newestLoad, newestWindow, job, outcomes>>
screenVars == <<fullScreen, fullPending>>
vars == <<disk, noticed, explorer, screenVars, phase, workerVars, missed, changes, inputs,
          failures>>

NoJob == [kind |-> "None", id |-> 0]

(***************************************************************************)
(* Scroll bounds and syntax windows.                                        *)
(***************************************************************************)
MaximumScroll(lines, rows) == IF lines > rows THEN lines - rows ELSE 0

Prefetch(committed, target, rows) ==
  LET distance == Max({committed, target}) - Min({committed, target})
  IN IF distance >= rows THEN 13 ELSE IF distance > 0 THEN 7 ELSE 3

\* The lines, numbered from 1, of the window around target.
Window(target, lines, rows, viewports) ==
  LET size   == rows * viewports
      before == rows * (viewports \div 2)
      start  == Min({MaximumScroll(target, before), MaximumScroll(lines, size)})
  IN (start + 1)..Min({start + size, lines})

\* What prepare_syntax_window covers of a content.
Highlighted(content, ask) ==
  {[of |-> content, line |-> l] : l \in Window(ask.first, Length[content], ask.rows, ask.viewports)}

\* prepare_viewer.
Prepared(id, path, content, ask) ==
  [doc |-> id, path |-> path, content |-> content,
   covered |-> IF content \in Plain THEN {} ELSE Highlighted(content, ask)]

(***************************************************************************)
(* The Explorer's own state, e, and what its methods make of it.            *)
(***************************************************************************)
Displayed(e) == IF e.viewer = None THEN None ELSE e.viewer.path
SelectedFile(e) == IF e.selected \in Files THEN e.selected ELSE None
Lines(e) == Length[e.viewer.content]

\* viewer_syntax_ready_at: past the last line, the last line itself is needed.
SyntaxReadyAt(e, target) ==
  \/ e.viewer = None
  \/ e.viewer.content \in Plain
  \/ LET last   == Min({target + e.viewport_rows, Lines(e)})
         needed == IF target < last THEN (target + 1)..last ELSE {last}
     IN needed \subseteq {s.line : s \in e.viewer.covered}

SyntaxReady(e) == SyntaxReadyAt(e, e.viewer_scroll)

Ids(queue) == {queue[i].id : i \in DOMAIN queue}
WindowDocs(queue) ==
  {queue[i].doc : i \in {j \in DOMAIN queue : queue[j].kind = "HighlightWindow"}}

\* next_id.
NextId(e) ==
  LET held == Ids(e.queued) \cup Ids(requests) \cup Ids(outcomes)
                \cup {job.id, e.latest_paths, e.latest_load, newestLoad, newestWindow}
                \cup (IF e.viewer = None THEN {} ELSE {e.viewer.doc})
                \cup (IF e.pending_window = None THEN {} ELSE Range(e.pending_window))
                \cup WindowDocs(e.queued) \cup WindowDocs(requests) \cup WindowDocs(outcomes)
                \cup WindowDocs(<<job>>)
  IN Min(1..(Cardinality(held) + 1) \ held)

Without(queue, kinds) ==
  Retained(queue, {i \in DOMAIN queue : queue[i].kind \notin kinds})

RequestPaths(e) ==
  LET id == NextId(e)
  IN [e EXCEPT !.latest_paths = id, !.paths_pending = TRUE,
               !.queued = Append(Without(@, {"Paths"}), [kind |-> "Paths", id |-> id])]

RequestFileLoad(e, path, first) ==
  LET id        == NextId(e)
      committed == IF Displayed(e) = path THEN e.viewer_scroll ELSE first
      ask       == [first |-> first, rows |-> e.viewport_rows,
                    viewports |-> Prefetch(committed, first, e.viewport_rows)]
  IN IF path \notin e.paths THEN e
     ELSE [e EXCEPT !.latest_load = id, !.pending_path = path,
                    !.pending_window = None,
                    !.queued = Append(Without(@, {"LoadFile", "HighlightWindow"}),
                                 [kind |-> "LoadFile", id |-> id, path |-> path, ask |-> ask])]

RequestSyntaxWindow(e, first) ==
  LET id  == NextId(e)
      ask == [first |-> first, rows |-> e.viewport_rows,
              viewports |-> Prefetch(e.viewer_scroll, first, e.viewport_rows)]
  IN IF e.viewer = None THEN e
     ELSE [e EXCEPT !.pending_window = <<id, e.viewer.doc>>,
                    !.queued = Append(Without(@, {"HighlightWindow"}),
                                 [kind |-> "HighlightWindow", id |-> id, doc |-> e.viewer.doc,
                                  content |-> e.viewer.content, ask |-> ask])]

\* Mutant: a load that is already pending is taken for a reread.
ReloadOnce(e) ==
  LET scanned == RequestPaths([e EXCEPT !.requested = None])
  IN IF SelectedFile(e) = None \/ e.pending_path = SelectedFile(e) THEN scanned
     ELSE RequestFileLoad(scanned, SelectedFile(e), e.viewer_scroll)

\* filesystem_changed, and repository_changed when a status changed.
Reload(e) ==
  LET scanned == RequestPaths([e EXCEPT !.requested = None])
  IN IF SelectedFile(e) = None THEN scanned
     ELSE RequestFileLoad(scanned, SelectedFile(e), e.viewer_scroll)

SelectionChanged(e) ==
  LET kept == [e EXCEPT !.requested = None]
      file == SelectedFile(e)
  IN IF file = None THEN [kept EXCEPT !.pending_path = None, !.pending_window = None]
     ELSE IF Displayed(e) # file /\ e.pending_path # file THEN RequestFileLoad(kept, file, 0)
     ELSE kept

\* The rows of the file picker: its document is the tree of the last frame.
Visible(e) ==
  (e.rows \ Folder) \cup
  IF e.rows \cap Folder = {} THEN {}
  ELSE {Dir} \cup IF e.expanded THEN e.rows \cap Folder ELSE {}

\* Every handler compares the picker's selection before and after.
Picked(before, after) ==
  IF after.selected # before.selected THEN SelectionChanged(after) ELSE after

\* select_and_reveal.
Reveal(e, path) ==
  LET shown == [e EXCEPT !.expanded = @ \/ path \in Folder]
  IN IF path \in Visible(shown) THEN [shown EXCEPT !.selected = path] ELSE shown

\* request_viewer_scroll: lines, pages and the scrollbar all name a position.
RequestScroll(e, position) ==
  IF e.viewer = None THEN e
  ELSE LET target == Min({position, MaximumScroll(Lines(e), e.viewport_rows)})
       IN IF SyntaxReadyAt(e, target)
          THEN [e EXCEPT !.viewer_scroll = target, !.requested = None]
          ELSE RequestSyntaxWindow([e EXCEPT !.requested = target], target)

\* Mutant: a pending window is left to the request that is under way.
PrepareScrollOnce(e) ==
  IF e.requested # None /\ e.viewer # None /\ SyntaxReadyAt(e, e.requested)
  THEN [e EXCEPT !.viewer_scroll = e.requested, !.requested = None] ELSE e

PrepareScroll(e) ==
  IF e.requested = None THEN e
  ELSE IF e.viewer = None THEN [e EXCEPT !.requested = None]
  ELSE LET target == Min({e.requested, MaximumScroll(Lines(e), e.viewport_rows)})
           asking == [e EXCEPT !.requested = target]
       IN IF SyntaxReadyAt(e, target)
          THEN [e EXCEPT !.viewer_scroll = target, !.requested = None]
          ELSE IF e.pending_window = None THEN RequestSyntaxWindow(asking, target)
          ELSE asking

\* picker.prepare: the tree of this frame; a selection that is not visible any
\* more falls to the row at its old index.
PickerPrepared(e, fallback) ==
  LET tree == [e EXCEPT !.rows = e.paths, !.expanded = @ /\ e.paths \cap Folder # {}]
  IN IF e.selected \in Visible(tree) THEN tree ELSE [tree EXCEPT !.selected = fallback]

\* The rows picker.prepare may fall back to: which one is first depends on names.
Fallbacks(e) ==
  LET rows == Visible([e EXCEPT !.rows = e.paths])
  IN IF rows = {} THEN {None} ELSE rows

\* Both kinds of frame load the selected file when it is not the one displayed.
TextMissing(e) == SelectedFile(e) # Displayed(e) /\ SelectedFile(e) # e.pending_path

MissingLoaded(e) ==
  IF TextMissing(e) /\ SelectedFile(e) # None THEN RequestFileLoad(e, SelectedFile(e), 0) ELSE e

\* prepare_frame.
PanesPrepared(e, fallback) ==
  LET scrolled == PrepareScroll([e EXCEPT !.viewport_rows = Rows])
  IN MissingLoaded(Picked(scrolled, PickerPrepared(scrolled, fallback)))

\* prepare_full_screen, for a viewer that is there.
FullScreenPrepared(e) ==
  LET clamped == [e EXCEPT !.viewport_rows = FullRows,
                           !.viewer_scroll = Min({@, MaximumScroll(Lines(e), FullRows)})]
      scrolled == PrepareScroll(clamped)
  IN IF TextMissing(scrolled) THEN MissingLoaded(scrolled)
     ELSE IF ~SyntaxReady(scrolled) /\ scrolled.pending_window = None
     THEN RequestSyntaxWindow(scrolled, scrolled.viewer_scroll)
     ELSE scrolled

(***************************************************************************)
(* accept.                                                                  *)
(***************************************************************************)
AcceptPaths(e, outcome) ==
  IF outcome.id # e.latest_paths THEN e
  ELSE [e EXCEPT !.paths_pending = FALSE,
                 !.paths = IF outcome.result = None THEN @ ELSE outcome.result]

\* The file a pending quick open asked for is selected by whichever viewer comes.
AcceptViewer(e, viewer) ==
  LET placed == IF Displayed(e) = viewer.path THEN e
                ELSE [e EXCEPT !.viewer_scroll = 0, !.requested = None]
      shown  == [placed EXCEPT !.pending_window = None, !.viewer = viewer,
                               !.pending_quick_open = None]
  IN IF e.pending_quick_open = viewer.path /\ viewer.path \notin e.paths
     THEN RequestPaths([e EXCEPT !.pending_quick_open = None])
     ELSE IF e.pending_quick_open = None THEN shown
     ELSE Reveal(shown, e.pending_quick_open)

AcceptLoadError(e) ==
  LET cleared == [e EXCEPT !.requested = None, !.pending_quick_open = None]
  IN IF e.pending_quick_open = None THEN cleared ELSE RequestPaths(cleared)

AcceptFile(e, outcome) ==
  LET taken == [e EXCEPT !.pending_path = None]
  IN IF outcome.id # e.latest_load THEN e
     ELSE IF outcome.result = None THEN AcceptLoadError(taken)
     ELSE AcceptViewer(taken, outcome.result)

AcceptWindow(e, outcome) ==
  LET cleared == IF e.pending_window = <<outcome.id, outcome.doc>>
                 THEN [e EXCEPT !.pending_window = None] ELSE e
  IN IF e.viewer # None /\ e.viewer.doc = outcome.doc
     THEN [cleared EXCEPT !.viewer.covered = @ \cup outcome.covered] ELSE cleared

Accepted(e, outcome) ==
  CASE outcome.kind = "Paths" -> AcceptPaths(e, outcome)
    [] outcome.kind = "LoadFile" -> AcceptFile(e, outcome)
    [] outcome.kind = "HighlightWindow" -> AcceptWindow(e, outcome)

(***************************************************************************)
(* The event loop.                                                          *)
(***************************************************************************)
\* new, its first request submitted, and the Explorer opened.
Init ==
  /\ disk \in Starts /\ noticed = TRUE
  /\ LET empty == [paths |-> {}, rows |-> {}, expanded |-> FALSE, selected |-> None,
                   viewer |-> None, viewer_scroll |-> 0, requested |-> None,
                   viewport_rows |-> 1, pending_path |-> None, pending_window |-> None,
                   pending_quick_open |-> None, paths_pending |-> TRUE,
                   latest_paths |-> 1, latest_load |-> 0, queued |-> <<>>]
     IN explorer = empty
  /\ fullScreen = FALSE /\ fullPending = FALSE
  /\ phase = "input"
  /\ requests = <<[kind |-> "Paths", id |-> 1]>>
  /\ newestLoad = 0 /\ newestWindow = 0 /\ job = NoJob /\ outcomes = <<>>
  /\ missed = FALSE
  /\ changes = 0 /\ inputs = 0 /\ failures = 0

\* Someone edits, creates or deletes a file.
Change ==
  /\ changes < MaxChanges
  /\ \E f \in Files, c \in Contents \cup {Absent} :
       c # disk[f] /\ disk' = [disk EXCEPT ![f] = c]
  /\ noticed' = FALSE /\ changes' = changes + 1
  /\ UNCHANGED <<explorer, screenVars, phase, workerVars, missed, inputs, failures>>

\* A load that is requested now reads what is on disk after this.
Rereads(skipped) ==
  missed' = (explorer'.latest_load = explorer.latest_load /\ (missed \/ skipped))

\* drain_repository_events, when the change has reached the loop.
Notice ==
  /\ phase = "events" /\ ~noticed
  /\ phase' = "drain" /\ noticed' = TRUE
  /\ explorer' = Reload(explorer)
  /\ Rereads(SelectedFile(explorer) \notin explorer.paths)
  /\ UNCHANGED <<disk, screenVars, workerVars, changes, inputs, failures>>

\* The first loop of drain.
DrainOutcomes ==
  /\ phase \in {"events", "drain"} /\ outcomes # <<>> /\ phase' = "drain"
  /\ explorer' = Accepted(explorer, Head(outcomes))
  /\ outcomes' = Tail(outcomes)
  /\ LET o == Head(outcomes)
     IN Rereads(o.kind = "LoadFile" /\ o.id = explorer.latest_load /\ o.result = None)
  /\ UNCHANGED <<disk, noticed, screenVars, requests, newestLoad, newestWindow, job, changes,
                 inputs, failures>>

\* The newest id of a kind among the requests, or what it was.
NewestOf(kind, old) ==
  LET q   == explorer.queued
      ofIt == {i \in DOMAIN q : q[i].kind = kind}
  IN IF ofIt = {} THEN old ELSE q[Max(ofIt)].id

\* Its second loop: submit.
Submit ==
  /\ phase \in {"events", "drain"} /\ outcomes = <<>> /\ phase' = "input"
  /\ requests' = requests \o explorer.queued
  /\ newestLoad' = NewestOf("LoadFile", newestLoad)
  /\ newestWindow' = NewestOf("HighlightWindow",
                            IF "LoadFile" \in {r.kind : r \in ToSet(explorer.queued)}
                            THEN 0 ELSE newestWindow)
  /\ explorer' = [explorer EXCEPT !.queued = <<>>]
  /\ UNCHANGED <<disk, noticed, screenVars, job, outcomes, missed, changes, inputs, failures>>

(***************************************************************************)
(* Input.  A full screen takes only scrolling and its toggle.               *)
(***************************************************************************)
Input(after) ==
  /\ phase = "input" /\ inputs < MaxInputs
  /\ explorer' = after /\ inputs' = inputs + 1
  /\ Rereads(FALSE)
  /\ UNCHANGED <<disk, noticed, phase, workerVars, changes, failures>>

Select ==
  \E row \in Visible(explorer) :
    /\ ~fullScreen /\ row # explorer.selected
    /\ Input(Picked(explorer, [explorer EXCEPT !.selected = row]))
    /\ UNCHANGED screenVars

\* A click on the directory, or Enter when it is selected.
Toggle ==
  /\ ~fullScreen /\ Dir \in Visible(explorer)
  /\ Input(Picked(explorer, [explorer EXCEPT !.selected = Dir, !.expanded = ~@]))
  /\ UNCHANGED screenVars

\* execute_command; a selection that collapses with its directory moves to it.
CollapseAll ==
  /\ ~fullScreen
  /\ Input(SelectionChanged([explorer EXCEPT !.expanded = FALSE,
                             !.selected = IF @ \in Folder THEN Dir ELSE @]))
  /\ UNCHANGED screenVars

ExpandAll ==
  /\ ~fullScreen
  /\ Input(SelectionChanged([explorer EXCEPT !.expanded = explorer.rows \cap Folder # {}]))
  /\ UNCHANGED screenVars

Scroll ==
  /\ explorer.viewer # None
  /\ \E position \in 0..MaximumScroll(Lines(explorer), explorer.viewport_rows) :
       Input(RequestScroll(explorer, position))
  /\ UNCHANGED screenVars

QuickOpen ==
  \E f \in Files :
    /\ ~fullScreen
    /\ Input(IF f \notin explorer.paths THEN RequestPaths(explorer)
             ELSE RequestFileLoad([explorer EXCEPT !.pending_quick_open = f], f, 0))
    /\ UNCHANGED screenVars

\* request_full_screen by the key or the corner of the viewer, and
\* handle_full_screen_event for an open one.
ToggleFullScreen ==
  /\ fullScreen \/ explorer.viewer # None
  /\ fullScreen' = FALSE
  /\ fullPending' \in IF fullScreen THEN {FALSE} ELSE {~fullPending, TRUE}
  /\ Input(explorer)

PreparePanes ==
  /\ phase = "input" /\ phase' = "events"
  /\ ~(fullScreen \/ fullPending) \/ explorer.viewer = None
  /\ fullScreen' = FALSE /\ fullPending' = FALSE
  /\ \E row \in Fallbacks(explorer) : explorer' = PanesPrepared(explorer, row)
  /\ Rereads(FALSE)
  /\ UNCHANGED <<disk, noticed, workerVars, changes, inputs, failures>>

\* A pending full screen opens when its text and its syntax are there.
PrepareFullScreen ==
  /\ phase = "input" /\ phase' = "events"
  /\ fullScreen \/ fullPending
  /\ explorer.viewer # None
  /\ explorer' = FullScreenPrepared(explorer)
  /\ LET opens == /\ fullPending /\ SyntaxReady(explorer')
                  /\ SelectedFile(explorer') = Displayed(explorer')
     IN /\ fullScreen' = (fullScreen \/ opens)
        /\ fullPending' = (fullPending /\ ~opens)
  /\ Rereads(FALSE)
  /\ UNCHANGED <<disk, noticed, workerVars, changes, inputs, failures>>

(***************************************************************************)
(* ExplorerThread: one request at a time, stale ones dropped at either end. *)
(***************************************************************************)
Stale(request) ==
  \/ request.kind = "LoadFile" /\ request.id # newestLoad
  \/ request.kind = "HighlightWindow" /\ request.id # newestWindow

Recv ==
  /\ job = NoJob /\ requests # <<>>
  /\ requests' = Tail(requests)
  /\ job' = IF Stale(Head(requests)) THEN NoJob ELSE Head(requests)
  /\ UNCHANGED <<disk, noticed, explorer, screenVars, phase, newestLoad, newestWindow,
                 outcomes, missed, changes, inputs, failures>>

Present == {f \in Files : disk[f] # Absent}

\* prepare_outcome of the job; "fails" is Git or the disk failing.
Outcome(fails) ==
  CASE job.kind = "Paths" ->
         [kind |-> "Paths", id |-> job.id, result |-> IF fails THEN None ELSE Present]
    [] job.kind = "LoadFile" ->
         [kind |-> "LoadFile", id |-> job.id,
          result |-> IF fails \/ disk[job.path] = Absent THEN None
                     ELSE Prepared(job.id, job.path, disk[job.path], job.ask)]
    [] job.kind = "HighlightWindow" ->
         [kind |-> "HighlightWindow", id |-> job.id, doc |-> job.doc,
          covered |-> Highlighted(job.content, job.ask)]

SendOutcome ==
  /\ job # NoJob
  /\ \E fails \in {FALSE} \cup (IF failures < MaxFailures /\ job.kind # "HighlightWindow"
                               THEN {TRUE} ELSE {}) :
       /\ failures' = failures + (IF fails THEN 1 ELSE 0)
       /\ outcomes' = IF job.kind = "LoadFile" /\ Stale(job) THEN outcomes
                      ELSE Append(outcomes, Outcome(fails))
  /\ job' = NoJob
  /\ UNCHANGED <<disk, noticed, explorer, screenVars, phase, requests, newestLoad,
                 newestWindow, missed, changes, inputs>>

User == Select \/ Toggle \/ CollapseAll \/ ExpandAll \/ Scroll \/ QuickOpen \/ ToggleFullScreen
EventLoop == Notice \/ DrainOutcomes \/ Submit \/ PreparePanes \/ PrepareFullScreen
Worker == Recv \/ SendOutcome
Next == Change \/ EventLoop \/ User \/ Worker

SafeSpec == Init /\ [][Next]_vars

\* The loop goes round and the worker works; no watcher need deliver and no user
\* act.
Spec == SafeSpec /\ []<>(phase = "events") /\ []<>(phase = "input") /\ WF_vars(Worker)

(***************************************************************************)
(* Properties.                                                              *)
(***************************************************************************)
\* The fields have their types, and no more than one request of a kind waits to
\* be submitted.
TypeOK ==
  /\ disk \in [Files -> Contents \cup {Absent}]
  /\ {noticed, fullScreen, fullPending, missed} \subseteq BOOLEAN
  /\ explorer.paths \subseteq Files /\ explorer.rows \subseteq Files
  /\ explorer.selected \in Visible(explorer) \cup {None}
  /\ explorer.viewer = None \/ explorer.viewer.path \in Files
  /\ explorer.pending_path \in Files \cup {None}
  /\ phase \in {"events", "drain", "input"}
  /\ \A i, j \in DOMAIN explorer.queued : explorer.queued[i].kind = explorer.queued[j].kind => i = j

\* Everything still under way, wherever it is.
UnderWay ==
  ToSet(explorer.queued) \cup ToSet(requests) \cup ToSet(outcomes)
    \cup (IF job = NoJob THEN {} ELSE {job})

Awaited(kind, id) == \E r \in UnderWay : r.kind = kind /\ r.id = id

\* Whatever the Explorer waits for is still coming and will not be taken for
\* stale at any of the three places that compare ids; a lost answer would leave
\* the loop polling (is_preparing) and the viewer on its skeleton.
AnswersComing ==
  /\ explorer.paths_pending => Awaited("Paths", explorer.latest_paths)
  /\ explorer.pending_path # None =>
       /\ Awaited("LoadFile", explorer.latest_load)
       /\ newestLoad = explorer.latest_load \/ explorer.latest_load \in Ids(explorer.queued)
  /\ explorer.pending_window # None =>
       LET id == explorer.pending_window[1]
       IN /\ Awaited("HighlightWindow", id)
          /\ newestWindow = id \/ id \in Ids(explorer.queued)
          /\ explorer.viewer # None /\ explorer.viewer.doc = explorer.pending_window[2]

\* A frame is prepared and nothing is on its way (is_preparing forgets a load
\* whose file is deselected, so it is not asked).
Settled == noticed /\ phase = "events" /\ UnderWay = {}

\* When nothing is on its way the selected file is shown as it is on disk, unless
\* an invalidation came while no file was selected, or the load after it failed
\* (ADR 0080: "A worktree event also rereads the selected file").
ViewerIsCurrent ==
  Settled /\ Displayed(explorer) # None /\ SelectedFile(explorer) = Displayed(explorer) =>
    missed \/ explorer.viewer.content = disk[Displayed(explorer)]

\* The styles of a viewer are those of the text it shows, through reloads of the
\* same path, other files and windows that come late.
SyntaxMatches ==
  explorer.viewer # None => \A s \in explorer.viewer.covered : s.of = explorer.viewer.content

\* What the Explorer waits for is coming, with nothing on its way the selected
\* file is shown as it is on disk, and styles belong to the text they are on.
\* (explorer/mod.rs: accept; worker.rs: the three comparisons of ids.)
ViewerFollowsDisk == TypeOK /\ AnswersComing /\ ViewerIsCurrent /\ SyntaxMatches

\* An empty text is highlighted without a line, so that its syntax is never ready
\* and its window is asked for in every frame. (mod.rs: viewer_syntax_ready_at.)
EmptyText(e) == e.viewer # None /\ Lines(e) = 0 /\ e.viewer.content \notin Plain

\* A scroll that waits for its syntax is committed or given up, whatever file
\* that is not an empty text, reload, selection or viewport comes in between.
\* (ADR 0086; explorer/scroll.rs: prepare_viewer_scroll.)
ScrollCommits ==
  explorer.requested # None ~> explorer.requested = None \/ EmptyText(explorer)
=============================================================================
