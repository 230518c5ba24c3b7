------------------------------ MODULE History ------------------------------
(***************************************************************************)
(* The History activity: the commits of the checkout, the files of the      *)
(* selected commit and the review of one of them.                           *)
(*                                                                          *)
(* Each pane is loaded by a query of its own.  What a selection needs is     *)
(* gathered in the pending half of the activity while the panes go on        *)
(* showing the committed half; the frame in which the reviewer displays the  *)
(* pending document commits all of it.  HEAD moves under the queries and the *)
(* user selects commits, files and modes under them too.  How the reviewer   *)
(* prepares a document is in DiffView: here it may or may not be ready in a  *)
(* frame.  What a commit contains is a function of its name, so lists of     *)
(* files, hunks and patches are represented by the commit they are of.       *)
(***************************************************************************)
EXTENDS Integers, Sequences, FiniteSets, SequencesExt, Retaining

CONSTANTS
  Commits,
  Log,         \* [HEAD commit -> the commits git log lists], Unborn included
  FilesOf,     \* [commit -> its changed files, in Git's order]
  StartHead,
  MaxMoves,    \* moves of HEAD by other processes and by commands
  MaxInputs,   \* steps of the user
  FileFails,   \* whether the full text of a file can be unreadable
  MovesBack    \* whether HEAD may return to a commit it was at before

None == "None"
Unborn == "Unborn"
Modes == {"Inline", "Hunk"}    \* side by side loads and lays out as inline does
Kinds == {"History", "Patch", "File"}

ASSUME HistoryAssumption ==
  /\ {None, Unborn} \cap Commits = {}
  /\ Log \in [Commits \cup {Unborn} -> Seq(Commits)] /\ StartHead \in DOMAIN Log
  /\ \A head \in Commits : Log[head] # <<>> /\ Log[head][1] = head
  /\ Log[Unborn] = <<>>
  /\ \A c \in Commits : /\ IsInjective(FilesOf[c])
                        /\ FilesOf[c] \in Seq(ToSet(FilesOf[c]) \ {None})
  /\ {MaxMoves, MaxInputs} \subseteq Nat

VARIABLES
  activity,   \* the fields of HistoryActivity
  displayed,  \* the document and mode the reviewer displays
  rows,       \* the pickers as the last frame prepared them
  chosen,     \* selected_review_mode of the workbench
  told,       \* whether an error was shown since HEAD moved
  head, seen, \* HEAD; the commits it was at
  requests, job, events, sent,
  inputs

repository == <<head, seen>>
worker == <<requests, job, events, sent>>
panes == <<displayed, rows>>
vars == <<activity, panes, chosen, told, repository, worker, inputs>>

NoSelection == [commit |-> None, file |-> None]
Complete(c) == [commit |-> c, file |-> None]
FileOf(c, f) == [commit |-> c, file |-> f]
NoDocument == [selection |-> NoSelection, patch |-> NoSelection, hunks |-> None]
NothingPending ==
  [commits |-> <<>>, files |-> None, hunks |-> None, document |-> NoDocument,
   selection |-> NoSelection, mode |-> None]
OrElse(x, none, y) == IF x # none THEN x ELSE y

-----------------------------------------------------------------------------
(* Requests.                                                                *)

Without(queue, kinds) ==
  Retained(queue, {i \in DOMAIN queue : queue[i].kind \notin kinds})

\* A request of a kind replaces those in the queue it makes obsolete.
Request(a, kind, obsolete, selection) ==
  LET id == a.next + 1 IN
  [a EXCEPT !.next = id, !.latest[kind] = id,
            !.waiting = (@ \ obsolete) \cup {kind},
            !.queued = Append(Without(@, obsolete),
                              [kind |-> kind, id |-> id, selection |-> selection])]

RequestHistory(a) == Request(a, "History", {"History"}, NoSelection)

\* Mutant: what was loaded for the selection before stays pending.
RequestPatchOnly(a, c) ==
  [Request(a, "Patch", {"Patch", "File"}, Complete(c)) EXCEPT !.pending.selection = Complete(c)]

RequestPatch(a, c) ==
  [Request(a, "Patch", {"Patch", "File"}, Complete(c)) EXCEPT
     !.pending = [NothingPending EXCEPT !.commits = a.pending.commits,
                                        !.selection = Complete(c), !.mode = "Hunk"]]

RequestFile(a, selection) ==
  [Request(a, "File", {"File"}, selection) EXCEPT
     !.pending.selection = selection, !.pending.document = NoDocument]

Supersede(a, selection) ==
  IF a.pending.selection \in {NoSelection, selection} THEN a
  ELSE LET other == a.pending.selection.commit # selection.commit
           kinds == IF other THEN {"Patch", "File"} ELSE {"File"} IN
    [a EXCEPT !.waiting = @ \ kinds, !.queued = Without(@, kinds),
              !.pending = IF other THEN [NothingPending EXCEPT !.selection = a.pending.selection] ELSE @]

-----------------------------------------------------------------------------
(* The handlers of HistoryActivity.                                         *)

New ==
  RequestHistory(
    [head |-> StartHead, commits |-> <<>>, files |-> None, hunks |-> None, document |-> NoDocument,
     selection |-> NoSelection, mode |-> "Hunk", cached |-> {}, pending |-> NothingPending,
     waiting |-> {}, queued |-> <<>>, latest |-> [k \in Kinds |-> 0], next |-> 0])

\* Mutant: the requests of the old checkout go on.
RepositoryChangedKeeps(a, h) == IF h = a.head THEN a ELSE RequestHistory([a EXCEPT !.head = h])

RepositoryChanged(a, h) ==
  IF h = a.head THEN a
  ELSE RequestHistory([a EXCEPT !.head = h, !.pending = NothingPending,
                                !.waiting = @ \ {"Patch", "File"}])

SelectFile(a, c, f, mode) ==
  LET selection == FileOf(c, f)
      kept      == Supersede(a, selection)
      listed    == OrElse(kept.pending.files, None, kept.files)
      b         == [kept EXCEPT !.pending.mode = mode]
      hunks     == OrElse(b.pending.hunks, None, b.hunks) IN
  IF listed = None \/ f \notin ToSet(FilesOf[listed]) THEN kept
  ELSE IF mode # "Hunk" /\ selection \notin b.cached THEN RequestFile(b, selection)
  ELSE [b EXCEPT !.pending.selection = selection,
                 !.pending.document =
                   [selection |-> selection, hunks |-> hunks,
                    patch |-> IF selection \in b.cached THEN selection ELSE NoSelection]]

ReviewMode(a) == OrElse(a.pending.mode, None, a.mode)

SetReviewMode(a, mode) ==
  LET selection == OrElse(a.pending.selection, NoSelection, a.selection) IN
  CASE ReviewMode(a) = mode -> a
    [] ReviewMode(a) # mode /\ selection.file = None -> [a EXCEPT !.mode = mode]
    [] OTHER -> SelectFile(a, selection.commit, selection.file, mode)

Answers(a, kind, e) == e.id = a.latest[kind]

\* The list of another checkout is dropped: its snapshot asks again.
AcceptHistory(a, e) ==
  LET b == [a EXCEPT !.waiting = @ \ {"History"}] IN
  CASE ~Answers(a, "History", e) \/ e.head # a.head -> a
    [] Answers(a, "History", e) /\ e.head = a.head /\ e.commits = <<>> ->
         [b EXCEPT !.commits = <<>>, !.files = None, !.hunks = None, !.document = NoDocument,
                   !.selection = NoSelection, !.cached = {},
                   !.pending = [NothingPending EXCEPT !.mode = b.pending.mode]]
    [] OTHER -> IF a.selection.commit \in ToSet(e.commits)
                  THEN [b EXCEPT !.commits = e.commits]
                  ELSE RequestPatch([b EXCEPT !.pending.commits = e.commits], e.commits[1])

Summarised(a, c) ==
  c \in ToSet(IF a.pending.commits # <<>> THEN a.pending.commits ELSE a.commits)

\* The first file, in the aggregate of all of them, or the empty commit.
AcceptPatch(a, e) ==
  LET c         == e.selection.commit
      b         == [a EXCEPT !.waiting = @ \ {"Patch"}]
      selection == IF FilesOf[c] = <<>> THEN Complete(c) ELSE FileOf(c, FilesOf[c][1]) IN
  CASE ~Answers(a, "Patch", e) -> a
    [] Answers(a, "Patch", e) /\ ~(a.pending.selection.commit = c /\ Summarised(a, c)) -> b
    [] OTHER ->
         [b EXCEPT !.pending.document = [selection |-> selection, patch |-> NoSelection, hunks |-> c],
                   !.pending.selection = selection, !.pending.hunks = c,
                   !.pending.mode = "Hunk", !.pending.files = c]

AcceptFile(a, e) ==
  LET b     == [a EXCEPT !.waiting = @ \ {"File"}]
      files == OrElse(a.pending.files, None, a.files)
      hunks == OrElse(a.pending.hunks, None, a.hunks) IN
  CASE ~Answers(a, "File", e) -> a
    [] Answers(a, "File", e) /\ ~(/\ a.pending.selection = e.selection
                                  /\ files # None /\ e.selection.file \in ToSet(FilesOf[files])) -> b
    [] OTHER -> [b EXCEPT !.cached = @ \cup {e.selection},
                          !.pending.document = [selection |-> e.selection, patch |-> e.selection,
                                                hunks |-> hunks]]

Waited(a, kind) == [a EXCEPT !.waiting = @ \ {kind}]

\* history_failed, patch_failed, file_failed: the activity, and whether an error
\* is shown for it.
Failed(a, e) ==
  CASE ~Answers(a, e.kind, e) -> [activity |-> a, told |-> FALSE]
    [] Answers(a, e.kind, e) /\ e.kind = "History" -> [activity |-> Waited(a, "History"), told |-> TRUE]
    [] Answers(a, e.kind, e) /\ e.kind = "Patch" ->
         IF a.pending.selection.commit = e.selection.commit
           THEN [activity |-> [Waited(a, "Patch") EXCEPT !.pending = NothingPending], told |-> TRUE]
           ELSE [activity |-> Waited(a, "Patch"), told |-> FALSE]
    [] OTHER ->
         IF a.pending.selection = e.selection
           THEN [activity |-> [Waited(a, "File") EXCEPT
                                 !.pending.selection = NoSelection,
                                 !.pending.document = NoDocument, !.pending.mode = None],
                 told |-> TRUE]
           ELSE [activity |-> Waited(a, "File"), told |-> FALSE]

\* promote_ready_selection
Promote(a, d) ==
  LET p == a.pending IN
  IF \/ p.selection = NoSelection \/ d.document.selection # p.selection
     \/ p.mode \notin {None, d.mode}
    THEN a
    ELSE [a EXCEPT !.selection = p.selection, !.document = p.document,
                   !.mode = OrElse(p.mode, None, @),
                   !.commits = OrElse(p.commits, <<>>, @),
                   !.files = OrElse(p.files, None, @), !.hunks = OrElse(p.hunks, None, @),
                   !.cached = IF a.selection.commit = p.selection.commit THEN @ ELSE {},
                   !.pending = NothingPending]

-----------------------------------------------------------------------------
(* The user and the frames.                                                 *)

Acts ==
  /\ inputs < MaxInputs
  /\ inputs' = inputs + 1
  /\ UNCHANGED <<panes, told, repository, worker>>

\* handle_commit_outcome
SelectCommit ==
  /\ Acts
  /\ \E c \in ToSet(rows.commits) \ {activity.selection.commit} :
       activity' = RequestPatch(activity, c)
  /\ UNCHANGED chosen

\* handle_file_outcome: not while another commit is on its way.
PickFile ==
  /\ Acts
  /\ rows.files # None /\ activity.selection # NoSelection
  /\ "Patch" \notin activity.waiting
  /\ activity.pending.selection.commit \in {None, activity.selection.commit}
  /\ \E f \in ToSet(FilesOf[rows.files]) :
       activity' = SelectFile(activity, activity.selection.commit, f, activity.mode)
  /\ UNCHANGED chosen

\* r, in this activity: the workbench remembers a mode that changed.
ToggleReviewMode ==
  /\ Acts
  /\ \E mode \in Modes \ {ReviewMode(activity)} :
       /\ activity' = SetReviewMode(activity, mode)
       /\ chosen' = OrElse(ReviewMode(activity'), ReviewMode(activity), chosen)

\* r in the Diff activity; coming back here applies the remembered mode.
SetModeElsewhere ==
  /\ Acts
  /\ \E mode \in Modes : chosen' = mode /\ activity' = SetReviewMode(activity, mode)

\* prepare_frame: the reviewer displays what is requested, now or in a later frame.
Frame ==
  LET p == activity.pending
      requested == OrElse(p.document, NoDocument, activity.document)
      mode == IF p.document # NoDocument THEN ReviewMode(activity) ELSE activity.mode IN
  /\ displayed' \in {[document |-> requested, mode |-> mode]}
                    \cup (IF requested = NoDocument THEN {} ELSE {displayed})
  /\ activity' = Promote(activity, displayed')
  /\ rows' = [commits |-> activity'.commits, files |-> activity'.files]
  /\ UNCHANGED <<chosen, told, repository, worker, inputs>>

-----------------------------------------------------------------------------
(* The repository, the worker and the event loop.                           *)

Moves ==
  /\ Len(seen) <= MaxMoves
  /\ \E h \in DOMAIN Log \ {head} :
       /\ MovesBack \/ h \notin ToSet(seen)
       /\ head' = h /\ seen' = Append(seen, h)
  /\ UNCHANGED <<activity, panes, chosen, told, worker, inputs>>

Dispatch ==
  /\ activity.queued # <<>>
  /\ requests' = requests \o activity.queued
  /\ activity' = [activity EXCEPT !.queued = <<>>]
  /\ UNCHANGED <<panes, chosen, told, repository, job, events, sent, inputs>>

NoJob == [kind |-> None, id |-> 0, head |-> Unborn]

\* A snapshot, or the answer to a query and whether it succeeded.
NoEvent == [kind |-> None, id |-> 0, selection |-> NoSelection, head |-> Unborn,
            commits |-> <<>>, ok |-> TRUE]

Refresh ==
  /\ job = NoJob /\ head # sent
  /\ sent' = head
  /\ events' = Append(events, [NoEvent EXCEPT !.kind = "Snapshot", !.head = head])
  /\ UNCHANGED <<activity, panes, chosen, told, repository, requests, job, inputs>>

\* git rev-parse HEAD, then git log.
ReadHead ==
  /\ job = NoJob /\ requests # <<>> /\ Head(requests).kind = "History"
  /\ requests' = Tail(requests)
  /\ job' = [kind |-> "History", id |-> Head(requests).id, head |-> head]
  /\ UNCHANGED <<activity, panes, chosen, told, repository, events, sent, inputs>>
ReadLog ==
  /\ job # NoJob
  /\ job' = NoJob
  /\ events' = Append(events,
       [NoEvent EXCEPT !.kind = job.kind, !.id = job.id, !.head = job.head,
                       !.commits = IF job.head = Unborn THEN <<>> ELSE Log[head],
                       !.ok = job.head = Unborn \/ head # Unborn])
  /\ UNCHANGED <<activity, panes, chosen, told, repository, requests, sent, inputs>>

Serve ==
  /\ job = NoJob /\ requests # <<>> /\ Head(requests).kind # "History"
  /\ requests' = Tail(requests)
  /\ \E ok \in BOOLEAN :
       /\ Head(requests).kind = "File" /\ ~FileFails => ok
       /\ events' = Append(events,
            [NoEvent EXCEPT !.kind = Head(requests).kind, !.id = Head(requests).id,
                            !.selection = Head(requests).selection, !.ok = ok])
  /\ UNCHANGED <<activity, panes, chosen, told, repository, job, sent, inputs>>

Drain ==
  /\ events # <<>>
  /\ events' = Tail(events)
  /\ UNCHANGED <<panes, chosen, repository, requests, job, sent, inputs>>

SnapshotArrives ==
  /\ Drain /\ Head(events).kind = "Snapshot"
  /\ activity' = RepositoryChanged(activity, Head(events).head)
  /\ told' = FALSE
Loaded(kind) == Drain /\ UNCHANGED told /\ Head(events).kind = kind /\ Head(events).ok
HistoryLoaded == Loaded("History") /\ activity' = AcceptHistory(activity, Head(events))

\* commit_patch_loaded: the remembered mode applies to the new commit.
PatchLoaded ==
  /\ Loaded("Patch")
  /\ LET a == AcceptPatch(activity, Head(events))
         accepted == a.pending.document # activity.pending.document IN
     activity' = IF accepted /\ chosen # None THEN SetReviewMode(a, chosen) ELSE a
FileLoaded == Loaded("File") /\ activity' = AcceptFile(activity, Head(events))
LoadFailed ==
  /\ Drain /\ Head(events).kind \in Kinds /\ ~Head(events).ok
  /\ LET failure == Failed(activity, Head(events)) IN
     activity' = failure.activity /\ told' = (told \/ failure.told)

Init ==
  /\ head = StartHead /\ seen = <<StartHead>> /\ sent = StartHead
  /\ activity = New
  /\ displayed = [document |-> NoDocument, mode |-> None]
  /\ rows = [commits |-> <<>>, files |-> None]
  /\ chosen = None /\ told = FALSE
  /\ requests = <<>> /\ job = NoJob /\ events = <<>> /\ inputs = 0

Next ==
  \/ SelectCommit \/ PickFile \/ ToggleReviewMode \/ SetModeElsewhere \/ Frame
  \/ Moves \/ Dispatch \/ Refresh \/ ReadHead \/ ReadLog \/ Serve
  \/ SnapshotArrives \/ HistoryLoaded \/ PatchLoaded \/ FileLoaded \/ LoadFailed

Spec == Init /\ [][Next]_vars

-----------------------------------------------------------------------------
(* Types.                                                                   *)

Heads == Commits \cup {Unborn}
OfCommit == Commits \cup {None}   \* of files or hunks, by the commit they are of
FileNames == UNION {ToSet(FilesOf[c]) : c \in Commits}
Selections == {NoSelection} \cup [commit : Commits, file : FileNames \cup {None}]
Reviews == [selection : Selections, patch : Selections, hunks : OfCommit]
Pendings ==
  [commits : Seq(Commits), files : OfCommit, hunks : OfCommit, document : Reviews,
   selection : Selections, mode : Modes \cup {None}]
Queries == [kind : Kinds, id : Nat, selection : Selections]
Activities ==
  [head : Heads, commits : Seq(Commits), files : OfCommit, hunks : OfCommit,
   document : Reviews, selection : Selections, mode : Modes,
   cached : SUBSET Selections, pending : Pendings, waiting : SUBSET Kinds,
   queued : Seq(Queries), latest : [Kinds -> Nat], next : Nat]
Jobs == {NoJob} \cup [kind : {"History"}, id : Nat, head : Heads]
Events ==
  [kind : Kinds \cup {"Snapshot"}, id : Nat, selection : Selections, head : Heads,
   commits : Seq(Commits), ok : BOOLEAN]

TypeOK ==
  /\ activity \in Activities
  /\ displayed \in [document : Reviews, mode : Modes \cup {None}]
  /\ rows \in [commits : Seq(Commits), files : OfCommit]
  /\ chosen \in Modes \cup {None} /\ told \in BOOLEAN
  /\ head \in Heads /\ seen \in Seq(Heads) /\ sent \in Heads
  /\ requests \in Seq(Queries) /\ job \in Jobs /\ events \in Seq(Events)
  /\ inputs \in Nat

-----------------------------------------------------------------------------
(* Properties.                                                              *)

\* The files, the hunks and the patch of the committed half belong to the
\* selected commit and file, whichever answers were superseded, failed or came
\* for another checkout.
OneCommit ==
  LET s == activity.selection d == activity.document IN
  /\ {activity.files, activity.hunks} \subseteq {None, s.commit}
  /\ d # NoDocument => d.selection = s /\ d.hunks = s.commit /\ d.patch \in {NoSelection, s}

\* The pane shows what the pickers select: no frame shows the document of one
\* selection next to the lists of another.
ReviewMatchesPickers ==
  displayed.document # NoDocument /\ activity.selection # NoSelection =>
    displayed.document.selection = activity.selection

\* Files, hunks, patch and pickers on screen belong to one selection, whichever
\* answers were superseded. (history/mod.rs: accept_patch, accept_file.)
OneSelectionShown == TypeOK /\ OneCommit /\ ReviewMatchesPickers

Coming(kind) ==
  \E r \in ToSet(activity.queued) \cup ToSet(requests) \cup {job} \cup ToSet(events) :
    r.kind = kind /\ r.id = activity.latest[kind]

\* What the activity waits for is coming: an answer to its latest request of the
\* kind or, for a list that came for another checkout, the snapshot of that one.
\* A pending selection has its document or waits for it, except for a commit that
\* the newest list no longer has, which accept_patch drops without a word.
NothingStranded ==
  /\ \A kind \in activity.waiting :
       Coming(kind) \/ (kind = "History" /\ (head # sent \/ \E e \in ToSet(events) : e.kind = "Snapshot"))
  /\ LET p == activity.pending IN
     p.selection # NoSelection =>
       \/ p.document # NoDocument \/ activity.waiting \cap {"Patch", "File"} # {}
       \/ ~Summarised(activity, p.selection.commit)

\* With nothing on its way and nothing pending the list is the log of the
\* checkout and the selected commit is in it, or the user was told why not.
ListIsCurrent ==
  (/\ requests = <<>> /\ job = NoJob /\ events = <<>> /\ sent = head
   /\ activity.queued = <<>> /\ activity.pending = NothingPending) =>
    \/ told
    \/ /\ activity.commits = Log[head]
       /\ head # Unborn => activity.selection.commit \in ToSet(Log[head])

\* What History waits for is coming, and once nothing is, its list is the log of
\* the checkout, or the user was told. (history/requests.rs; history/mod.rs:
\* accept_history.)
HistoryArrives == NothingStranded /\ ListIsCurrent
=============================================================================
