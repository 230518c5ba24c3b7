# Diffo, specified

TLA+ specifications of [Diffo](../src/README.md), a terminal UI for Git: its
repository worker, the workbench with its queue of commands, the activities
(Diff, Explorer, History) with their workers, the branch pickers, the Git
operations behind them, and the tasks outside the worker (AI commits, updates,
the askpass bridge). The modules are checked with TLC on small instances; the
safety of the repository service, the workbench, Sync, the branch pickers and the
Git commands they enter, the History activity, the AI commit, the updater and the
askpass bridge is proved with TLAPS for every instance.

## The system

| Part | State it keeps | Operations | What is hard |
|---|---|---|---|
| Watcher (`diffo-repository-service/src/watcher.rs`) | two atomics shared with the worker | the notify callback | store, swap and send are three steps of another thread |
| Repository worker (`worker.rs`, `worker/`) | request channel, generation, the running request | refresh, execute, seven queries, watch failure, shutdown, the 100 ms debounce | the debounce absorbs requests; a command absorbs a refresh |
| Prompt broker (`service.rs`) | the registered operation, the open prompt, the next prompt id | prompt, answer, cancel, discard, finish | answer, cancel, quit and the helper's death race |
| Git execution (`diffo-git/src/operation.rs`, `operation/`) | the child process, the remote-tracking refs | every repository action; Sync fetches, plans, rebases and pushes | cancellation between and during steps; a ref that moves between check and use |
| Askpass bridge (`diffo-git/src/askpass.rs`) | a server and a handler thread, the prompt serial, helper processes | read, parse, answer, disconnect | helpers that die; ids drawn before the prompt is known |
| Event loop (`diffo/src/main.rs`) | the shared task channels | drain, input batch, dispatch, quit | one batch of input between two drains |
| Workbench (`diffo-app/src/workbench/`) | command queue, active command, modal, pending errors, prompt | keys, clicks, palette, acknowledgements | results that arrive after a cancellation or over a modal |
| Diff model (`diffo-app/src/diff/model/`) | snapshot, selection, pending operation and file action, AI lock | messages of the workbench | marks set at a key press and cleared by a result |
| Diff pane (`diffo-app/src/diff/`, `diffo-diff`) | the shown document, its viewport, its colors, a cache, one worker | select, scroll, jump, toggle, refresh | a document prepared for something no longer selected; rows that move under the viewport |
| Explorer (`diffo-app/src/explorer/`) | tree, viewer, three request ids | select, scroll, full screen, reload | a disk that changes under loads and windows |
| History (`diffo-app/src/history/`) | a committed and a pending half, three queries | select, toggle, refresh | answers of superseded queries; HEAD moving under the list |
| Pickers (`checkout_picker.rs`, `create_branch.rs`, `delete_branch.rs`, `merge.rs`, `sync_remote.rs`, `diffo-ui/src/search_picker.rs`, `file_picker.rs`) | items, filter, selection, offset | load, filter, move, pick | a choice bound to refs that move before Git runs |
| AI commit (`diffo/src/codex_tasks.rs`, `ai_commit.rs`, `single_command.rs`) | a child process, the request it was bound to | start, poll, kill, commit | a message that arrives late, or for changes that are no longer staged |
| Update (`diffo/src/update_tasks.rs`, `diffo-update`) | a child process; the installed executable | download, verify, replace | cancellation; replacement must be atomic |
| Git reading (`diffo-git/src/snapshot.rs`, `status.rs`, `branches.rs`, `history.rs`, `explorer.rs`) | none | build a snapshot from several Git reads | reads of different moments |
| Presentation (`diffo-ui`, `diffo-app/src/diff/view`, rendering) | scroll, focus, geometry | draw | pure |

What makes each part correct:

* Watcher and worker: every change of the disk reaches the screen, whatever
  absorbs its refresh; updates arrive in generation order and the screen never
  goes back; queries and commands are answered once.
* Broker and askpass: a prompt is always answerable by somebody, belongs to the
  active command, and ends with it.
* Git execution: nothing is published but what was planned and confirmed, no
  local work is lost, a failed or cancelled command aborts the operation it began.
* Workbench: one command runs at a time; what was entered to follow a command
  does not survive its failure; marks belong to a command in the queue; failures
  are told and stay until acknowledged; the queue always moves.
* Diff, Explorer and History: what is shown belongs to what is selected and
  comes to be shown; the viewport opens at a change and stays on its row.
* Pickers: Git does what was picked, at the commit it was picked at.
* AI commit and update: a result that arrives after the cancellation changes
  nothing; what is committed is what Codex read; the installed executable is one
  whole release.
* Git reading: a snapshot of a quiet repository is Git's state, writes of others
  neither fail a snapshot nor mix the files of two heads, and a command that
  fails leaves no partial result.

The event loop is the only client of the worker: it sends requests and drains
events, all on one thread. A worker, the watcher callback, the askpass listener,
Codex and the updater are threads or processes of their own. Generations number
the updates of the worker, query ids its query results, prompt ids the prompts
of one command, and command ids the commands of the workbench.

## Modules

| Module | Models |
|---|---|
| `CommandLane` | Abstract: what the service promises the workbench. One command at a time; a command is over only when a snapshot with all of its work is on screen, or the user was told there is none; the screen never goes back. |
| `RepositoryService` | The watcher callback, the worker, the prompt broker and the part of the event loop and the workbench that talks to them. |
| `RepositoryServiceInv`, `RepositoryServiceProofs` | The inductive invariants of `RepositoryService` and the proofs. |
| `Workbench`, `WorkbenchProofs` | The command queue, the one modal with its error queue, the prompt, and the marks of the diff model, over an abstract runner; its inductive invariant and proofs. |
| `Sync`, `SyncProofs` | `apply_sync`, one step per Git command, between a remote that others push to and a repository that other terminals use; its inductive invariant and proofs. |
| `Explorer` | The file tree and viewer, the worker that reads files and highlights windows of them, and the full screen, over a disk that changes. |
| `DiffText` | Parsing a patch, its three projections, change regions, jumps, anchors and the lines to color: operators and recursive functions, no state. |
| `DiffView` | The Diff activity over `DiffText`: selection, staging, modes, scrolls, the frame that commits a document with its viewport, the worker, its one-slot channel and the cache. |
| `SearchPicker` | The searchable list every picker uses: operators on a picker record. |
| `Branches`, `BranchesProofs` | Checkout, create, delete, merge and the choice of a remote, from the palette over `SearchPicker` and the queries to the verified Git command, while others move refs; its inductive invariant and proofs. |
| `History`, `HistoryProofs` | The three queries of the History activity, its pending and committed half, the log read by two Git processes; its inductive invariant and proofs. |
| `Retaining`, `RetainingProofs` | `Vec::retain` as a recursive function, for the queues of requests, the rows a filter leaves and the changes a rebase replays, and what it keeps. |
| `FilePicker` | The list of files of the panes, flat or a tree, with every event, its scrollbar and the action drawn in a row. |
| `AiCommit` | Binding, running and cancelling Codex, and the guarded commit after it. |
| `PromptContext` | What Codex is told of the staged files, in a bounded number of bytes: operators. |
| `Update` | `diffo update` processes that download, verify, flush and rename, with kills, failures and power failures, and the task that runs one. |
| `Askpass` | The helper processes, the server and handler threads of the bridge, the broker and the user. |
| `TaskProofs` | The inductive invariants of `Explorer`, `AiCommit`, `Update` and `Askpass`, what runs outside the repository worker, and the proofs. |
| `GitReading`, `GitReadingProofs` | A snapshot, the Explorer's file and its paths, every Git command and file access a step, while others write; its inductive invariant and proofs. |
| `MC...` | What TLC instantiates, and the properties that the modules state in parts. |

`Sync`, `Branches` and `AiCommit` are what one `CommandEnds` of
`RepositoryService` abstracts, for commands of their kinds; `RepositoryService`
is what the runner of `Workbench` abstracts; `Askpass` is what its prompts
abstract; `GitReading` is what its collections abstract. Each module keeps only
the outcome of the one below.

### RepositoryService

A snapshot is abstracted to the *version* of the disk it shows. A collection is
several Git reads, so it may show any version between the one it started from
(`base`) and the one it ended at. The callback is three steps (`WatcherNotice`,
`WatcherSwap`, `WatcherSend`), and so is the worker's side of the flags
(`RecvRefresh`, `ClearPending`, `TakeWorktree`). `pc` is where `worker_loop` is;
a request received inside a debounce is remembered in `job`. The final snapshot,
`finish_operation` and the terminal event are the steps `CommandEnds` and
`SendTerminal`, in that order, because other threads run in between.
`cancelled` are the commands whose `CancellationHandle` is cancelled, by a click,
by a dismissed prompt, by the helper's death or by quitting.

The two halves of the workbench that matter here are in it: what
`accept_repository_update` does with an update, and when it opens or refuses a
prompt. `UnmergedDeletes` names the commands that are deletions of a branch Git
finds not fully merged, whose failure takes another path.

### Workbench

One iteration of the event loop drains what arrived, handles one batch of input,
then takes commands off the queue; `phase` remembers that input was handled, so
that nothing is drained between a batch of input and the queue. A runner is the
record of the active command's thread: what it runs, whether it asks for a
prompt, and its result. The snapshot is reduced to what preparing an intent
looks at: nothing changed, something unstaged, something staged. Kinds of action
that are queued, prepared and completed alike share one representative: `Delete`
stands for all of the palette's actions, `Stage` for the file actions.

`BatchedClicks` allows a click on a row of the queue panel in the same batch of
input that entered the command, that is, before the row was drawn. The runs
leave it out: with it `NeverRefusedWhileIdle` fails, because
`cancel_clicked_command` leaves the `pending_operation` of the key press behind.

### Sync

A history is the sequence of its changes from the root, so two branches share
the commits of their common prefix, a fast-forward is an extension, and a rebase
(`Rebased`) replays the changes the target lacks, without merge commits. `pc` is
where `apply_sync` is. A Git child that talks to the remote or rewrites the
branch is a begin and an end: a push is accepted by the remote (`PushLands`),
then recorded in the remote-tracking ref and the configuration (`PushRecords`),
then noticed (`PushExits`), and may fail or be killed before each. `target`,
`plan` and `asked` are what the code's `SyncTarget`, `SyncPlan` and
`confirm_protected_push` remember while the refs they were read from may move.
`busy` is the operation in progress; a rebase that Git fails to abort, which
`abort_rebase` does not notice, stays as `"unaborted"` with what it made of the
files.

Other terminals commit, edit, merge, change the upstream (`Windows`) and switch
branches (`Switches`) only at the program points these constants name: between
Syncs, during the fetch and while the user is asked, which last seconds or
minutes. The points between two consecutive local Git commands are left out:
no code could close them without a lock Git does not offer; the hazards in
`PROJECT.json` name what can happen there. Others push to the remote at any point.

### Explorer

`explorer` is the record of `ExplorerActivity`, its model and its picker; the
functions over it (`RequestFileLoad`, `SelectionChanged`, `PrepareScroll`, ...)
are its methods, and an action applies the ones its handler calls. An iteration
of the event loop is `Notice` (when the watcher delivered), `DrainOutcomes` for every
outcome that is there, `Submit`, any number of inputs, and `PreparePanes` or
`PrepareFullScreen`. The worker takes a request (`Recv`) and answers it (`SendOutcome`);
the disk is read at the answer, and the two atomics that `submit` sets decide
which requests and which answers it drops.

Ids only ever get compared, so a new one is the least that nobody holds
(`NextId`): the state space stays finite without a bound on the number of
requests. A viewer carries for each highlighted line the content it was
highlighted from, which the code has no trace of: `SyntaxMatches` is about it.
A content may be an empty text, of which nothing is ever highlighted (`EmptyText`).
`missed` remembers that an invalidation did not lead to a reread.

The Explorer is on the screen throughout and no modal is open; the Quick Open
modal is reduced to its choice.

### DiffText and DiffView

A patch is a sequence of lines, a line its first character and a member of a set
of texts. `Parse`, `InlineRows`, `SideBySideRows`, `AggregateHunkRows` and the
functions over their rows are the code's, step by step, so that the numbers and
clamps in them can be wrong. The parser aligns the lines of a change with a
library's Myers diff: `Matchings` are the longest common subsequences it may keep,
`Aligned` the pairs that follow from one. The texts keep no carriage return, so
lines of one change may be equal. `MCDiffText` holds the reference: an edit script
from which both the patch (as Git prints it) and the two files follow.

`model` is `diff::Model` with its `ReviewState`, `view` is `diff::Renderer`. A
frame is one action, as it is one call: `Prepared` is `prepare_buffer`
(`Requesting`, `PrepareBuffer`, `ApplyPreparation` are its parts in the order of
the code) followed by `apply_preparation`. `Drained` installs what the worker
answered; the worker may be blocked at its send with a second answer, which the
same drain then gets (`Both`). What a key lays out to is a function (`Layouts`),
so that the states only hold keys and cover sets.

### Branches and SearchPicker

A picker is opened with a query, filled by its answer, rebuilt by snapshots
(`Reconcile`), and picked from: the rows its filter leaves are its `matches`, as
in the code, recomputed where the items or the filter change. The choice is entered into the queue, and when
the worker takes it, it is verified against the refs as they are then. `Foreign`
moves refs, branches and operations under all of it, and with `RacesGit` also
between the verification and Git itself. `confirmed` and `answered` are history.

### History and FilePicker

`activity` is `HistoryActivity`: its `selection` and `document` are the committed
half, `pending_*` the other. Queries, answers and supersession are the code's,
with ids. The reviewer, which is `DiffView`'s, displays a document in a frame of
its choosing; what a commit contains is named by the commit. `StartHead` moves on
through amended, rewound, orphan and newer commits.

`FilePicker` is explored next to it (`lane`), not inside: the owners read only
the selection from it. Its rows, area and folds change between two events, as in
the code, where `prepare` runs once per frame.

### AiCommit, PromptContext, Update, Askpass

They run outside the worker and share no state, so `MCTasks` explores each in a
`lane` of its own. In `AiCommit` a message is the state of the repository it was
written for, so `CommitsWhatWasRead` compares it with what was committed. `codex`
is where the thread is and `child` what became of Codex: the thread blocks while
it writes the context (`WriteContext`) and while it joins the readers of the output
(`JoinOutput`), which end when the last holder of the pipes does (`PipesClose`). The
worker's comparison is several Git processes, the first of which reads HEAD
(`ReadGuardHead`) and a later one the staged files (`CheckGuard`). In
`Update` a file is a sequence of chunks, each marked with its release; a power
failure leaves any part of what was not flushed and may undo the rename. In
`Askpass` a helper is a process Git starts, with its own end; the server accepts
from a backlog and numbers what it accepts before it has read it. A helper that
sent its question and died is `gone`: the question is in its socket, and is read,
shown, and then cancelled with the command when the end is noticed.

### GitReading

A file has three sides (head, index, worktree); `git status`, `git diff`,
`git log`, `git check-ignore` and file reads are functions of the repository at
the step that runs them. A read collects `seen`, the states since it began:
`QuietReadsExact` is about reads with one, `ChurnReadsSound` about all. A list
that the code keeps sorted is the set of its keys in `Ascending` order. Contents
are text, `Binary`, or `Latin`, which Git takes for text and `String::from_utf8`
refuses: a diff that shows a line of it (`NotUtf8`) fails the file, the snapshot
and the Explorer's read. Any command may also break down (`Outages`, marked in
`outage`): the snapshot's workers and its metadata thread then finish what they
have, and the read fails. `git rev-parse` and `git ls-files` break down only where
they cannot be started, because their failure is an answer to the code.

## Runs

Passing:

| Run | Shows | Bounds |
|---|---|---|
| `service_refresh` | no refresh, worktree invalidation or query is lost; generations increase; the screen never goes back | 2 changes, 1 command, 1 query, 1 watch error: the second change can fall into any window of the first one's refresh, of the command or of the query |
| `service_commands` | the broker is free when the workbench is; prompts are always answerable; `CommandLane` is implemented; cancelled commands end, quitting joins the worker, changes and commands reach the screen | 2 commands, 1 change, 1 prompt each: the second command shows what the first left behind |
| `workbench` | one runner; nothing of a command is left over; the waiting commands follow the outcome; failures are told and errors kept; the queue moves and errors come up | 3 commands: one active, one dependent and one entered after a cancellation; 1 prompt each |
| `sync_safe` | no commit or edit is lost, only a rebase that Git fails to abort is left, only the plan is published, the upstream follows a successful plan, a cancelled Sync ends | 2 Syncs from every combination of local and remote history (equal, ahead, behind, diverged, with a merge commit, unrelated, missing), upstream and remotes, on a protected and an unprotected branch; 1 change by others, at any allowed point; aborts may fail, and the second Sync finds what the first left |
| `explorer_views` | no answer is lost or awaited in vain, the selected file ends up as it is on disk unless an invalidation was missed, styles belong to their text, scrolls are committed but for empty texts | 2 files, one in a directory; a long text, a short one, an empty one and a binary file; 1 change, 1 failing read, 2 inputs. The long text has five lines and the panes one row, so that the first window does not cover it |
| `diff_view` | the projections have every line once and are patches again, jumps and colors aim right; the pane shows what is asked for, opens at a change, keeps its row, and settles | every edit script of 4 lines over 2 texts, one a conflict marker, with hidden context and missing newlines; 2 files, 5 snapshots of which 1 arrives, 3 inputs, a cache of one: a late answer can find its file left, come back to, refreshed or gone |
| `branches` | open pickers are answered, snapshots keep the choice, Git does what was picked and confirmed | 5 refs (2 diverged branches, a free name, a remote branch, a tag), 2 queries, 2 commands, 1 step of others |
| `history` | one selection is shown, what History waits for comes, its list is the log; the file list keeps its selection visible | 4 commits, 2 moves of HEAD, 2 inputs: the second supersedes the first at any point; 2 trees, a list and nothing, 3 heights, 2 widths |
| `tasks` | AI commits commit what was read, and a cancelled one ends unless Codex or its descendants hold the thread; the executable is whole and not downgraded; the context fits and is shared; answers reach their helper, every helper is served or waits for the user, and bridges end | 2 updating processes, 3 releases, 2 chunks, 1 power failure; 4 staged files of 4 diffs and 2 headers; 2 helpers; 2 commits and 2 stagings |
| `git_reading` | reads of a quiet repository are exact or fail for a named reason; writes fail no read they do not disturb and do not mix heads; a failed command leaves no partial result | 2 paths in every state that pairs (a move, a conflict, untracked, ignored, not UTF-8 on one side or moved), 2 workers, 2 writes or failures |

Disagreements between the code and its documents that a run shows (TLC refutes
the document's sentence):

| Run | What happens |
|---|---|
| `sync_switched` | The branch is read before the fetch, `HEAD` is pushed after it: a switch in another terminal during the fetch pushes the other branch's commits to the first branch's target, against the guarantees of `sync.md`. Only protected branches are checked again. |
| `snapshot_without_upstream` | The snapshot reads the log against the configured upstream also when its remote-tracking ref was pruned: every refresh of that branch fails, against `sync.md`. |

Properties that a module states in parts are joined, in the module or its `MC`
module, by what they are about; the module's type invariant is a part of one of them. Several lanes in one run (`MCDiffView`,
`MCHistory`, `MCTasks`) never interact: the state of the others stays initial.

### Exceptions in the properties

Where the code does something else than its documents promise, or promises less
than the property's name, the property names the exception instead of leaving it
out:

* `RefreshNotLost` and `ImplementsLane` hold for `UnmergedDeletes = {}` only:
  `handle_delete_branch_failure` (`repository_update.rs:105`) takes a generation
  and returns before the failure's snapshot is installed, against ADR 0068.
* `QueueFollowsOutcome` says that commands entered after a cancellation stay when
  the cancelled command completed or ended as cancelled, and always after an AI
  commit. One that reports a failure, because Git or the final snapshot failed,
  clears them (`command_queue.rs:240`), and so does every cancelled update
  (`update_tasks.rs:56`), against ADR 0110.
* `NoRebaseLeft` leaves a rebase whose abort failed (`operation.rs:363`): then the
  Sync has failed or was cancelled, and no later one starts over it.
* `WorkAndUpstreamKept` lets a Sync that ends as cancelled leave the upstream set,
  where its push had recorded it (`operation.rs:500`), against section 8 of
  `sync.md`, which leaves it as it was.
* `ScrollCommits` excepts an empty text, whose syntax is never ready
  (`explorer/mod.rs:673`). Nor does its full screen open, against ADR 0065.
* `CancelWorks` excepts a thread that is left waiting for Codex to take its input
  (`codex_tasks.rs:207`) or for its descendants to close its output (`:223`):
  neither wait looks at the cancellation.
* `FailuresKept` excepts the confirmation of an unmerged deletion, which replaces
  an unacknowledged error (`delete_branch.rs:142`, against ADR 0084).
* `WorkAndUpstreamKept` compares with the remote-tracking ref: the fetch does not
  prune, so a Sync may agree with a branch the remote has deleted
  (`operation.rs:130`, against section 4 of `sync.md`).
* `ViewerFollowsDisk` excepts invalidations that came while no file was selected
  (`explorer/mod.rs:547`, against ADR 0080).
* `ViewSettles` does not say that the pane stops preparing: a late answer to a
  scroll of a file that was left and selected again installs the document without
  its selection (`diff/mod.rs:270`, against ADR 0117). `Failing` excepts patches
  that cannot be read, which are prepared again in every frame.
* An open picker is not rebuilt by a command that completes
  (`repository_update.rs:98`, ADR 0079), so `GitDoesWhatWasConfirmed` is about
  what was picked, not about what the snapshot says by then.
* `OneSelectionShown` holds for `FileFails = FALSE`: a failing text leaves the
  files of the pending half (`history/mod.rs:340`). `HistoryArrives` excepts the
  selection of a commit a rewrite removed, and holds for `MovesBack = FALSE`.
* `NoDowngrade` excepts a process that another one overtook between its manifest
  and its rename (ADR 0070). `CommitSound` holds for `RacesGit = FALSE`: Git offers
  no lock between the comparison and `git commit`.
* `AskpassAnswers` excepts a connection that got a prompt id and was never read;
  `HelpersServed` leaves a prompt that is on screen to the user: a helper may wait
  for ever only behind another helper's question that is never answered.
* `QuietReadsExact` names the repositories whose snapshot fails: a pruned
  upstream, a conflicted file the user deleted, a moved binary file deleted, a
  diff that is not UTF-8. The Explorer cannot open a changed file of that kind
  either (`explorer.rs:155`), against ADR 0035, which has it show a message.

### Fairness

`RepositoryService!Fairness`: the worker and watcher threads are scheduled, the
event loop drains in every iteration, and `run_cancellable` polls the handle
and kills a cancelled Git child. Nothing is assumed of a Git child that is not
cancelled nor of the user: the two properties that need them carry that
assumption in their statement (`Patience => ...`). `Workbench!Fairness`: the
loop drains and takes a command every iteration, runners end, the user answers
prompts and dismisses errors. `Sync!Fairness`: Sync's own steps run, and
`run_cancellable` (SIGTERM, then SIGKILL after 200 ms) and the broker end the
child or the prompt of a cancelled Sync; a Git child of a Sync nobody cancels may
hang forever. `Explorer!Spec`: the event loop goes round, said by the phases it
comes back to, and the worker thread works; neither the watcher nor the user need
do anything. `DiffView!Fairness`: frames are drawn while one would change
something, which is what `FrameDue` says (weak fairness of `Frame`, written
without `ENABLED`), and the worker takes and answers. `AiCommit!CommitFairness`:
the threads and the event loop run, and the search for the executable, which asks
a login shell, ends; Codex need not read its input, exit or let go of its pipes,
and nobody need press a key. `MCTasks!AskpassFairness`: the bridge's threads and the helpers run; the user
may leave a prompt open and Git need not end. `Branches`, `History`, `Update` and
`GitReading` have safety properties only, among them that what is awaited is on
its way.

### Mutants

A definition introduced by a comment `Mutant:` is not part of any specification.
It is a plausible bug in the definition after it, kept to show that the property
it is listed with in `PROJECT.json` can fail.

## Proofs

`RepositoryServiceProofs` proves for every value of the constants:

* `TypeCorrect`: `Spec => []TypeOK`.
* `ExecuteAccepted`: `Spec => []ExecuteNeverRefused`.
* `GenerationsAlwaysIncrease`: `Spec => []GenerationsIncrease`.
* `ScreenNeverGoesBack`: `Spec => SeenNeverGoesBack`.
* `LaneImplemented`: without unmerged deletions, `Spec => ImplementsLane`.
* `RefreshesArrive`: without changes in the start-up window and unmerged
  deletions, `Spec => []RefreshNotLost`.
* `ChangesAndQueriesArrive`: without changes in the start-up window, `Spec =>
  []ChangesAndQueriesKept`.
* `PromptsCanBeAnswered`: `Spec => []PromptsAnswerable`.

The argument: `IInv` (in `RepositoryServiceInv`) ties the active command to the
place it is in, which is exactly one of the request channel, the worker and the
event channel; numbers the updates in flight between `uiGeneration` and
`generation`; and orders the versions they show. From it follow the first four
and the lane. `RefreshInv` adds where the newest change is on its way: with
notify, at the callback, covered by a request, by the collection that is running
or by an update that has not been installed. The refinement is proved action by
action: each step is a step of the lane or leaves its variables alone.

`WorktreeInv` and `LoadInv` do the same for the two other things a debounce
could swallow. A change to a file of the worktree is owed an invalidation until
the Explorer saw it, and the invalidation is with the flag, with a request or
with the worker that took the flag: the flag alone is not enough, because a set
flag whose request is already queued sends no second one. A query is in the
request channel, in the worker's hand or answered. `PromptInv` says that a prompt
on its way is one of a command, which dies with its prompt. These proofs are
about single elements of the two channels; `SentStays` and `AskedStays` say once
for all steps that an element stays or was the head that is handled.

`WorkbenchProofs` proves for any number of commands and prompts:

* `OneRunnerServes`: `Spec => []RunnerServesActive`.
* `DependentsFollow`: `Spec => QueueFollowsOutcome`.
* `CommandsLeaveNothing`: without `BatchedClicks`, `Spec => []NothingLeftOver`.
* `FailuresAreKept`: without `BatchedClicks`, `Spec => FailuresKept`.

`WorkbenchInv` orders the commands by id; names the one runner of the active
command, of which only a Sync asks and only a deletion is refused; and accounts
for each mark. `model.op` and `model.file` belong to the active command, or to
the head of a queue that the same batch of input started, which is why the
invariant needs `phase`. `model.ai` belongs to an AI commit in the queue, or to
one that went with a command whose prompt was dismissed: that command's task is
`stopped` and cannot complete, so its end unlocks the composer. An error never
waits when the confirmation of a refused deletion replaces the modal, because a
deletion is entered where no error is and only a failed refresh can be shown
until it ends.

`SyncProofs` proves:

* `RebaseAborted`: `Spec => []NoRebaseLeft`, for any interference: the rebase of a
  Sync is in progress only inside it, and while one that Git failed to abort is there
  no Sync starts (`Startable`).
* `PlanPublished`: under `Quiet` (the windows of the run), `Spec =>
  PublishesPlan`. The invariant says what `apply_sync` has established at each
  point: HEAD is on the target's branch until the user is asked and again after
  the verification, the plan counts the tips that are asked about, and after the
  verification the refs are still those tips, until the rebase replaces one by
  its replay. `Quiet` is necessary: `sync_switched` shows a run outside it.
* `WorkSurvivesSync`: under `Quiet`, `Spec => WorkAndUpstreamKept`. `WorkInv`
  adds that the plan is of the tips there are or of those the user is asked
  about, that what is rebased has no merge commit of its own, which plan each
  step executes, and that after it the branch is at the fetched tip and a first
  publication has its upstream. An edit is kept because whatever could reset the
  files runs only where there was none: a rebase starts on a clean checkout, and
  its abort, failing or not, resets nothing else. The step that could lose work
  is the rebase, and that its replay keeps every change of the branch, once, is
  `RetainedElements` (what is kept of the own changes) with the lemmas about
  common prefixes.

`HistoryProofs` proves, while the text of a file can always be read:

* `HistoryIsOneSelection`: `Spec => []OneSelectionShown`, also for a HEAD that
  returns to a commit it was at before.
* `HistoryComes`: for a HEAD that returns to no commit it left
  (`MovesBack = FALSE`), `Spec => []HistoryArrives`.

`SelectionInv` is an invariant of the activity's record (`Consistent`) and what
relates it to the screen. Each half has the lists and the document of its own
selection; and a file that is selected without lists of its own is one of the
committed commit, whose lists it uses until it is promoted. The latter is what
makes a promotion sound, and what a failing text breaks: it forgets the pending
selection and keeps the pending lists. Since the handlers are operators, each
has a lemma that says it preserves `Consistent`, and the steps only combine them.
A frame that displays an earlier document can promote only the same selection:
the files on its screen are those of the selected commit (`RowsMatch`).

`HistoryComes` needs the way of a query through the activity's queue, the worker
and the events. It keeps the order of the numbers (`Numbered`), so the answer to
the latest query of a kind finds no earlier one behind it. `Waits`: what is waited
for is under way, except a list whose answer was of another checkout, which is
asked for again when that snapshot comes. `Settling`: a pending selection has its
document, awaits the query for it, or was dropped for good because the new list
lacks its commit; a patch that is waited for was asked after the list and is of no
commit that is shown, and a selection that can be promoted while the list may
still change is of the selected commit. `Current`: the list is that of the
checkout, with a commit of it selected, or it is pending with one, waited for, or
failed, or its checkout was left. The snapshots in the queue are distinct and end
with the one that was sent last, so whoever waits for a snapshot gets it. A HEAD
that returns to a checkout it left breaks this: the older snapshot is taken for
the newer one.

`BranchesProofs` proves for any refs, commits, lists and filters, and any number
of queries, commands and steps of other processes:

* `PickersAreAnswered`: `Spec => []PickersAnswered`.
* `ChoiceSurvivesSnapshots`: `Spec => SnapshotKeepsChoice`.
* `GitDoesWhatIsConfirmed`: when others do not write between a verification and
  its Git process (`RacesGit = FALSE`), `Spec => GitDoesWhatWasConfirmed`.

`IInv` follows a query by its number. A query is at one place at a time: still to
be sent, in the worker's channel or answered; its number was given to it alone
(`QueriesOnce`, `QueriesNumbered`); the answer on its way is the one it got; and
where the open modal's query is, it is of that modal's kind. From it follows that
a modal that stops loading has just been given its own answer, whatever was
opened and closed in between. Steps are sorted by what they do to the queries:
most keep them (`QuietStep`), a picker that opens, the event loop that sends, the
worker that answers and the drained event each move one.

`IInvGit` adds that what was verified still holds while the command waits for
Git, which is what `RacesGit` would break, and that a forced deletion in the
queue, in the channel or with Git is one the user confirmed. What Git makes of
the repository is a lemma per command. That the listed refs are a sequence at all
rests on `SortedLists`: with a strict total order, counting the elements before
each one numbers them from 0 without gaps.

`RetainingProofs` proves what `retain` keeps (`RetainedSelects`): the elements at
the kept positions in their order. It is a recursive function; the induction is
by the least number at which the claim would fail, since the library's induction
theorem cannot be instantiated here.

`GitReadingProofs` proves for any paths, contents and states of the repository,
and any number of workers and writes:

* `ReadsAreExact`: `Spec => []QuietReadsExact`.
* `ReadsSurviveWrites`: `Spec => []ChurnReadsSound`.

`IInv` keeps one state of the repository in sight, that of the status
(`SnapshotOf`): the workers hold records of it, what they completed are records
of it, and the head that is published is its head, however often HEAD moved since.
Whatever fails is `Excused` by a state that was seen or by an outage, and what
excuses stays seen. `Broken` follows an outage: from the breakdown on a worker or
the metadata thread has failed or the read has ended without a result, and what
has failed stays so until the read ends (`HaltedStays`), so `NoPartialResult`.
`QuietSnapshot` adds, while nobody wrote, that each worker has so far read what
the view shows (`TaskShows`), and that each record is completed, left out or still
in a worker's hands; so the joined result has all of them. A write ends the quiet
and leaves nothing of this half to prove. A command that is not run because the
status shows no change would have answered nothing (`UnchangedIndex`,
`UnchangedWorktree`): the view asks Git about every side, the snapshot does not.
The theorem uses that every record is dealt to a worker (`Dealt`), and that a
set of numbers has an ascending sequence, proved like `RetainedSelects`.

`TaskProofs` proves of the Explorer, for any files, contents and sizes, any number
of changes on disk, of inputs and of failing loads:

* `ViewerFollows`: `Spec => []ViewerFollowsDisk`.

`IInv` follows a request from the activity's queue over the channel and the worker
to the outcomes. `LoadsQueued` and `WindowComing`: the newest load and the pending
window are queued, or the worker's two atomics name them, so neither is taken for
stale. `LoadsOnce`: no two loads under way have the same id, although an id is
given again once nobody holds it; so the answer that ends the wait is the one
waited for. `Documents`: no text is still to come under the id of the viewer or of
a window under way, and windows with the viewer's id are of its text; so late
styles fit or are dropped. `PathsCurrent` and `ViewerCurrent` hold while no change
is still to be noticed: the latest paths and the latest load that were read are
those of the disk, a load that is still to be read is of a file of the tree or of
one that is gone, and without a load under way the viewer is what is on disk. Each
method of the activity has a lemma that it preserves this (`Fits`) for any
outcomes behind the one being handled, and the steps only combine them.

`TaskProofs` proves of the updater, for any number of processes, releases, chunks and outages:

* `UpdateStaysSafe`: `UpdateSpec => []UpdateSafe` (types, `ExecutableWhole`,
  `ToldIsOver`).
* `OnlyOvertakenDowngrades`: `UpdateSpec => NoDowngrade`.

`UpdateInv` says of each process what its next step relies on: what it verified
is what it plans, what it renames is flushed, and unless another process renamed
in between, the executable is still the image it runs. The first two make the
rename of a whole, durable file the only step that changes the executable, also
after a power failure; the third makes every rename one forward. `TaskInv` adds
that a process the application started has ended unless the task waits for it.

`TaskProofs` proves of the bridge, for any set of helpers:

* `AnswersReachTheirHelpers`: `AskpassSpec => []AskpassAnswers`.

`AskpassInv` follows one question from the backlog over the server, the handler
and the broker to the reply, also of a helper that is gone: until it is answered nobody was told anything of it,
the broker's answer is the one the user gave to the helper the server serves, and
as long as no question was lost the bridge's next id is the broker's.

`TaskProofs` proves of the AI commit, when nobody else writes during `git commit` itself:

* `CommitStaysSound`: `CommitSpec => []CommitSound`.
* `CancelledIsNotCommitted`: `CommitSpec => CancelStopsCommit`.

The invariant adds that no command runs before an AI commit that has started;
that HEAD is the request's once the worker has read it, and the whole checkout once
it compared the staged files; and that a child is there only between its start and
the end of its thread, and has ended when the thread joins its output.

The assumptions are those the modules name on their constants; `PlanPublished`
and `WorkSurvivesSync` also assume `Quiet`, two of the workbench's theorems that
`BatchedClicks` is false, as in its run, `LaneImplemented` and `RefreshesArrive`
that `UnmergedDeletes` is empty, `RefreshesArrive` and `ChangesAndQueriesArrive`
that `MaxEarly` is 0, `HistoryIsOneSelection` and `HistoryComes` that `FileFails`
is false, `HistoryComes` that `MovesBack` is false, and `GitDoesWhatIsConfirmed`
that `RacesGit` is false, all as in their runs.
TLC evaluates the named assumptions in every run.

Checked but not proved: all liveness (out of TLAPS's reach), `ContextShared` and
everything about `DiffText`, `DiffView` and `FilePicker`. `DiffText`, `FilePicker`,
`PromptContext` and the modules that use them are built on recursive operators over
data, about which the provers cannot reason by induction; their reference
definitions are checked on every small input instead.

## Not modelled

* Rendering, colors, pixels, input bindings and mouse geometry beyond the file
  list's, grammars and the highlighter: pure functions of state.
* Horizontal scrolling, the commit message editor, pane splits, the palette's
  layout, toasts and the timing of the progress row.
* Wheel friction and the frame trace: smoothing and diagnostics.
* How names of branches are cleaned and checked; fuzzy ranking (a filter).
* Submodules, copies, similarity below 100%, file modes and the stash list in Git
  reading; shallow repositories and user configuration in Sync; TLS, redirects and
  JSON in the updater; errors of the socket in the askpass bridge.
* `everyday.rs` and `everyday/`: not part of the build. The fixture source, the
  end-to-end harness, the measuring tools and the Codex mock: test infrastructure.

## Observed while modelling

Behaviour the models have that no property is about, because no document
promises otherwise:

* Start-up: a change between the first snapshot and the watcher shows only after
  the next event. A watch failure inside a debounce is dropped.
* Sync: `abort_rebase` aborts whatever rebase is in progress and does not look at
  the result. A configured upstream whose ref was pruned looks like no upstream.
* Explorer: `viewer_scroll` is not clamped when a reload shortens the file; a
  quick open survives a later selection; a scroll in an empty file stays pending.
* AI commit: a cancelled thread that waits for Codex's input or output holds the
  command, and with it the queue, until Codex or its descendants move.
* Diff: `failed` is not cleared by a cached document; in a pane of one row a jump
  can stay where it is; a jump counts from the committed scroll, not the pending
  one; the selection of a completed stage overrides one made meanwhile.
* Branches: a snapshot between the frame and Enter can move the selection; the
  wheel can scroll it out of view and Enter still picks it.
* History: `r` pressed while a commit loads changes the commit still shown.
* Update: a cancellation is polled before the exit, so an update that renamed may
  be told as cancelled; a second update from the same process fails, because its
  executable's name is the deleted one; a killed child leaves its temporary file.
* Askpass: a helper that outlives Git keeps the worker waiting for the user; one
  that dies after it sent its question is still asked for, and cancels the command.
* File list: a scrollbar being dragged stays so when the button is released over
  an open menu; a resize may leave an unchanged selection out of view.
* Git reading: the Explorer shows a `git rm --cached` file's patch as a deletion
  beside its contents; a `git rev-parse` that is killed is taken for a repository
  without commits.

## Further work

The composition of `Askpass` with the broker of `RepositoryService`; an abstract
request slot that Explorer, Diff and History implement.
