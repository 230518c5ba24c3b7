----------------------------- MODULE GitReading -----------------------------
(* How diffo-git reads a repository that other programs write. A snapshot is *)
(* a git status, then a git diff or a file read per changed side, on a pool  *)
(* of workers, while one more thread reads the log; the Explorer's file is a *)
(* read of the worktree followed by up to four Git commands, its paths a walk*)
(* of the worktree. Nothing locks the repository: every command and every    *)
(* file access sees it at a moment of its own.                               *)
(* Any of them may fail for a reason of its own.                             *)
(* A file has three sides, head, index and work; a diff is the set of its    *)
(* changed sides. Contents are text, binary, or text to Git and not UTF-8.   *)
EXTENDS Integers, Sequences, FiniteSets, SequencesExt

CONSTANTS
  Paths,        \* numbers: the order in which Git lists paths
  Texts,        \* contents of lines
  Binary,       \* contents that are not text
  Latin,        \* contents that are text to Git and not UTF-8
  Absent, Dir,  \* no such file; a directory in its place
  Unmerged,     \* what the index has of a conflicted file
  NoUpstream, Gone,   \* no upstream; an upstream whose ref is not there
  Nothing,      \* no diff, no result
  Ignored,      \* the paths .gitignore names
  Starts,       \* the repositories a read may find
  Workers,      \* MAX_SNAPSHOT_WORKERS
  MaxWrites     \* bound: writes by others and failures during one read

Contents == Texts \cup {Binary, Latin}
Repositories ==
  [files : [Paths -> [head : Contents \cup {Absent}, index : Contents \cup {Absent, Unmerged},
                      work : Contents \cup {Absent, Dir}]],
   commit : Nat, upstream : Nat \cup {NoUpstream, Gone}, operation : {"None", "Merge"}]

ASSUME ReadingAssumption ==
  /\ Paths \subseteq Nat /\ IsFiniteSet(Paths) /\ Ignored \subseteq Paths
  /\ Starts \subseteq Repositories
  /\ Workers \in Nat \ {0} /\ MaxWrites \in Nat
ASSUME NamesAreDistinct ==
  /\ {Absent, Dir, Unmerged} \cap Contents = {} /\ Absent \notin {Dir, Unmerged}
  /\ Binary \notin Texts /\ Latin \notin Texts /\ Latin # Binary
  /\ NoUpstream # Gone /\ {NoUpstream, Gone} \cap Nat = {}
  /\ Nothing \notin Paths
  /\ \A read \in {"snapshot", "file", "paths"} : [read |-> read, ok |-> FALSE] # Nothing
  /\ \A c \in Contents : {<<"whole", c>>} # Nothing
  /\ \A p \in Paths, from, to \in Contents \cup {Absent, Dir, Unmerged} :
       {<<p, from, to>>} # Nothing

VARIABLES
  repo,      \* [files, commit, upstream, operation]
  seen,      \* the states it had since the read began
  writes,    \* how many writes and failures there were
  outage,    \* whether a command or a read failed for a reason of its own
  pc,        \* the read that runs: "idle", "snapshot", "file" or "paths"
  parsed,    \* the parsed status
  pool,      \* the workers of file_states
  files,     \* what they have completed: <<index, file>>
  meta,      \* the metadata thread
  explorer,  \* the Explorer's read
  result

local == <<parsed, pool, files, meta, explorer>>
vars == <<repo, seen, writes, outage, pc, local, result>>

(* --- What Git and the file system answer -------------------------------- *)

InHead(r, p) == r.files[p].head
InIndex(r, p) == r.files[p].index
InWork(r, p) == r.files[p].work

\* A staged move of a file whose contents are the same.
RenamedFrom(r, p) ==
  IF InHead(r, p) # Absent \/ InIndex(r, p) \notin Contents THEN Nothing
  ELSE IF \E o \in Paths : InHead(r, o) = InIndex(r, p) /\ InIndex(r, o) = Absent
         THEN CHOOSE o \in Paths : InHead(r, o) = InIndex(r, p) /\ InIndex(r, o) = Absent
         ELSE Nothing

RenamedAway(r, o) == \E p \in Paths : RenamedFrom(r, p) = o

IndexStatus(r, p) ==
  IF RenamedFrom(r, p) # Nothing THEN "R"
  ELSE CASE InHead(r, p) = Absent /\ InIndex(r, p) # Absent -> "A"
         [] InHead(r, p) # Absent /\ InIndex(r, p) = Absent /\ ~RenamedAway(r, p) -> "D"
         [] InHead(r, p) # Absent /\ InIndex(r, p) \notin {Absent, InHead(r, p)} -> "M"
         [] OTHER -> "."
WorktreeStatus(r, p) ==
  IF InIndex(r, p) \in {Absent, InWork(r, p)} THEN "."
  ELSE IF InWork(r, p) \in {Absent, Dir} THEN "D" ELSE "M"

(* change_kind *)
ChangeKind(status) ==
  CASE status = "A" -> "Added" [] status = "M" -> "Modified" [] status = "D" -> "Deleted"
    [] status = "R" -> "Renamed"

Entry(p, old, kind, ix, wt) ==
  [path |-> p, old |-> old, kind |-> kind, index |-> ix, worktree |-> wt]

(* The records of git status --untracked-files=all: the changed files, the   *)
(* conflicted ones, the untracked ones.                                      *)
Changed(r) == {p \in Paths : InIndex(r, p) # Unmerged
                             /\ (IndexStatus(r, p) # "." \/ WorktreeStatus(r, p) # ".")}
Conflicted(r) == {p \in Paths : InIndex(r, p) = Unmerged}
Untracked(r) == {p \in Paths \ Ignored : InIndex(r, p) = Absent /\ InWork(r, p) # Absent}

ParsedFile(r, p) ==
  LET ix == IndexStatus(r, p)
      wt == WorktreeStatus(r, p)
  IN Entry(p, RenamedFrom(r, p), ChangeKind(IF ix = "." THEN wt ELSE ix), ix, wt)

(* A set of numbers in their order.                                          *)
Ascending(ns) ==
  CHOOSE s \in [1 .. Cardinality(ns) -> ns] : \A i, j \in DOMAIN s : i < j => s[i] < s[j]

Each(ps, F(_)) == LET order == Ascending(ps) IN [i \in 1 .. Cardinality(ps) |-> F(order[i])]

(* parse_status *)
Status(r) ==
  [commit |-> r.commit,
   upstream |-> r.upstream,
   counts |-> IF r.upstream \in {NoUpstream, Gone} THEN 0 ELSE r.commit - r.upstream,
   files |-> Each(Changed(r), LAMBDA p : ParsedFile(r, p))
             \o Each(Conflicted(r), LAMBDA p : Entry(p, Nothing, "Conflicted", "U", "U"))
             \o Each(Untracked(r), LAMBDA p : Entry(p, Nothing, "Untracked", ".", "."))]

(* git diff and git diff --cached of some paths.                             *)
DiffOf(r, ps, staged) ==
  LET from(p) == IF staged THEN InHead(r, p) ELSE InIndex(r, p)
      to(p) == IF staged THEN InIndex(r, p) ELSE IF InWork(r, p) = Dir THEN Absent ELSE InWork(r, p)
      sides == {<<p, from(p), to(p)>> : p \in {q \in ps :
                 /\ from(q) # to(q)
                 /\ staged \/ from(q) # Absent}}
  IN IF sides = {} THEN Nothing ELSE sides

\* A hunk is there when a side of text differs and is not just moved.
Moved(diff, s) == \E t \in diff : s[2] \in {Absent, t[3]} /\ s[3] \in {Absent, t[2]} /\ t # s
HasHunk(diff) ==
  \E s \in diff : {s[2], s[3]} \cap {Binary, Unmerged} = {} /\ ~Moved(diff, s)

\* String::from_utf8 refuses a diff that shows a line which is not UTF-8.
NotUtf8(diff) ==
  /\ diff # Nothing
  /\ \E s \in diff : /\ Latin \in {s[2], s[3]} /\ Binary \notin {s[2], s[3]}
                     /\ s[3] # Unmerged /\ ~Moved(diff, s)

WholeFile(content) == {<<"whole", content>>}
Context(content) == <<"context", content>>

(* --- The result a quiet repository promises ----------------------------- *)

PathsOf(f) == {f.path} \cup ({f.old} \ {Nothing})
WithContext(f, diff, content) ==
  IF f.kind = "Renamed" /\ diff # Nothing /\ ~HasHunk(diff)
    THEN diff \cup {Context(content)} ELSE diff
Shows(f, staged, unstaged) ==
  [path |-> f.path, old |-> f.old, kind |-> f.kind, staged |-> staged, unstaged |-> unstaged]

ViewOf(r, f) ==
  Shows(f,
    IF f.kind \in {"Conflicted", "Untracked"} THEN Nothing
      ELSE WithContext(f, DiffOf(r, PathsOf(f), TRUE), InIndex(r, f.path)),
    IF f.kind \in {"Conflicted", "Untracked"} THEN WholeFile(InWork(r, f.path))
      ELSE WithContext(f, DiffOf(r, PathsOf(f), FALSE), InWork(r, f.path)))

View(r) ==
  LET listed == Status(r).files
      shown == {i \in DOMAIN listed :
                  ~(listed[i].kind = "Untracked" /\ InWork(r, listed[i].path) = Dir)}
  IN [commit |-> r.commit, upstream |-> r.upstream, counts |-> Status(r).counts,
      files |-> Each(shown, LAMBDA i : ViewOf(r, listed[i])),
      local |-> IF r.commit = 0 \/ r.upstream = NoUpstream THEN Nothing
                ELSE <<r.commit, r.upstream>>,
      recent |-> r.commit, operation |-> r.operation]

\* A changed file one of whose diffs is not UTF-8.
DiffUnreadable(r) ==
  \E i \in DOMAIN Status(r).files :
    LET f == Status(r).files[i]
    IN /\ f.kind \notin {"Conflicted", "Untracked"}
       /\ \E staged \in BOOLEAN : NotUtf8(DiffOf(r, PathsOf(f), staged))

\* A conflicted file that is not there, a move without hunks whose file is not there.
FileUnreadable(r) ==
  \/ DiffUnreadable(r)
  \/ \E p \in Conflicted(r) : InWork(r, p) \in {Absent, Dir}
  \/ \E p \in Paths : /\ RenamedFrom(r, p) # Nothing /\ InWork(r, p) \in {Absent, Dir}
                      /\ InIndex(r, p) = Binary

\* The log of an upstream that is not there.
UpstreamUnreadable(r) == r.upstream = Gone /\ r.commit # 0

(* --- The snapshot ------------------------------------------------------- *)

Idle == [todo |-> <<>>, phase |-> "staged", staged |-> Nothing, unstaged |-> Nothing,
         failed |-> FALSE]
NoMeta == [phase |-> "off", local |-> Nothing, recent |-> Nothing, operation |-> Nothing]
NoRead == [phase |-> "off", path |-> Nothing, content |-> Nothing, paths |-> {}, left |-> {}]

Init ==
  /\ repo \in Starts /\ seen = {} /\ writes = 0 /\ outage = FALSE /\ pc = "idle"
  /\ parsed = Nothing /\ pool = <<>> /\ files = {} /\ meta = NoMeta /\ explorer = NoRead
  /\ result = Nothing

(* Bound: one read in a behaviour. Nothing is kept from one to the next.     *)
Begins(read) ==
  /\ pc = "idle" /\ result = Nothing
  /\ pc' = read /\ seen' = {repo}
  /\ UNCHANGED <<repo, writes, outage, result>>

Finishes(outcome) ==
  /\ result' = outcome /\ pc' = "idle"
  /\ parsed' = Nothing /\ pool' = <<>> /\ files' = {} /\ meta' = NoMeta /\ explorer' = NoRead
  /\ UNCHANGED <<repo, seen>>

Failure(read) == [read |-> read, ok |-> FALSE]
Ends(value) == Finishes([read |-> pc, ok |-> TRUE, value |-> value]) /\ UNCHANGED <<writes, outage>>
Fails == Finishes(Failure(pc)) /\ UNCHANGED <<writes, outage>>

Reads == UNCHANGED <<repo, seen, writes, outage, pc, result>>

(* file_states: file i goes to worker i % worker_count. The metadata thread  *)
(* looks for local commits only on a named branch with an upstream.          *)
TakeStatus ==
  /\ Begins("snapshot")
  /\ parsed' = Status(repo)
  /\ LET n == Len(Status(repo).files)
         count == IF n < Workers THEN n ELSE Workers
     IN pool' = [w \in 1 .. count |->
                   [Idle EXCEPT !.todo = Ascending({i \in 1 .. n : (i - 1) % count = w - 1})]]
  /\ meta' = [NoMeta EXCEPT !.phase =
                IF repo.commit # 0 /\ repo.upstream # NoUpstream THEN "local" ELSE "has_head"]
  /\ UNCHANGED <<files, explorer>>

FileAt(w) == parsed.files[pool[w].todo[1]]
At(w, phase) == pc = "snapshot" /\ pool[w].todo # <<>> /\ pool[w].phase = phase
Advance(w, next) == pool' = [pool EXCEPT ![w] = next]
Finished(w) == [Idle EXCEPT !.todo = Tail(pool[w].todo)]
Fail(w) == Advance(w, [Idle EXCEPT !.failed = TRUE])
Skip(w) == Advance(w, Finished(w)) /\ UNCHANGED files
Complete(w, staged, unstaged) ==
  /\ files' = files \cup {<<pool[w].todo[1], Shows(FileAt(w), staged, unstaged)>>}
  /\ Advance(w, Finished(w))

(* git diff --cached, unless the file is conflicted or its index unchanged.  *)
(* A diff that is not UTF-8 fails the file, and with it the snapshot.        *)
ReadStaged(w) ==
  /\ At(w, "staged")
  /\ LET f == FileAt(w)
         staged == IF f.kind = "Conflicted" \/ f.index = "." THEN Nothing
                   ELSE DiffOf(repo, PathsOf(f), TRUE)
     IN IF NotUtf8(staged) THEN Fail(w)
        ELSE Advance(w, [pool[w] EXCEPT !.phase = "unstaged", !.staged = staged])
  /\ Reads /\ UNCHANGED <<parsed, files, meta, explorer>>

(* The untracked file: inspected, and left out when it is not there or a     *)
(* directory.                                                                *)
Inspect(w) ==
  /\ At(w, "unstaged") /\ FileAt(w).kind = "Untracked"
  /\ IF InWork(repo, FileAt(w).path) \in {Absent, Dir}
       THEN Skip(w)
       ELSE Advance(w, [pool[w] EXCEPT !.phase = "read"]) /\ UNCHANGED files
  /\ Reads /\ UNCHANGED <<parsed, meta, explorer>>

(* worktree_file_diff, of an untracked or of a conflicted file: an untracked *)
(* one that is gone is left out, every other error fails the snapshot.       *)
ReadWhole(w) ==
  /\ \/ At(w, "read")
     \/ At(w, "unstaged") /\ FileAt(w).kind = "Conflicted"
  /\ LET work == InWork(repo, FileAt(w).path)
     IN CASE work \in Contents ->
               Complete(w, pool[w].staged, WholeFile(work))
          [] work = Absent /\ FileAt(w).kind = "Untracked" -> Skip(w)
          [] OTHER -> Fail(w) /\ UNCHANGED files
  /\ Reads /\ UNCHANGED <<parsed, meta, explorer>>

(* git diff of a tracked file, unless its worktree is unchanged; it fails as *)
(* the staged one does. A renamed file goes on to its contexts.              *)
ReadUnstaged(w) ==
  /\ At(w, "unstaged") /\ FileAt(w).kind \notin {"Untracked", "Conflicted"}
  /\ LET f == FileAt(w)
         unstaged == IF f.worktree = "." THEN Nothing ELSE DiffOf(repo, PathsOf(f), FALSE)
     IN IF NotUtf8(unstaged) THEN Fail(w) /\ UNCHANGED files
        ELSE IF f.kind = "Renamed"
          THEN /\ Advance(w, [pool[w] EXCEPT !.phase = "staged_context", !.unstaged = unstaged])
               /\ UNCHANGED files
          ELSE Complete(w, pool[w].staged, unstaged)
  /\ Reads /\ UNCHANGED <<parsed, meta, explorer>>

(* rename_context: a diff without a hunk gets the whole file as context, of  *)
(* the index with git show, of the worktree with a read.                     *)
StagedContext(w) ==
  /\ At(w, "staged_context")
  /\ LET diff == pool[w].staged
         next == [pool[w] EXCEPT !.phase = "unstaged_context"]
     IN IF diff = Nothing \/ HasHunk(diff) THEN Advance(w, next)
        ELSE IF InIndex(repo, FileAt(w).path) \in Contents
          THEN Advance(w, [next EXCEPT !.staged = diff \cup {Context(InIndex(repo, FileAt(w).path))}])
          ELSE Fail(w)
  /\ Reads /\ UNCHANGED <<parsed, files, meta, explorer>>

UnstagedContext(w) ==
  /\ At(w, "unstaged_context")
  /\ LET diff == pool[w].unstaged
         work == InWork(repo, FileAt(w).path)
     IN IF diff = Nothing \/ HasHunk(diff) THEN Complete(w, pool[w].staged, diff)
        ELSE IF work \in Contents THEN Complete(w, pool[w].staged, diff \cup {Context(work)})
        ELSE Fail(w) /\ UNCHANGED files
  /\ Reads /\ UNCHANGED <<parsed, meta, explorer>>

MetaGoes(next) ==
  /\ meta' = next /\ Reads /\ UNCHANGED <<parsed, pool, files, explorer>>
MetaAt(phase) == pc = "snapshot" /\ meta.phase = phase

(* recent_local_commits: git log HEAD --not upstream.                        *)
ReadLocalCommits ==
  /\ MetaAt("local")
  /\ MetaGoes(IF repo.commit = 0 \/ repo.upstream \in {NoUpstream, Gone}
                THEN [meta EXCEPT !.phase = "failed"]
                ELSE [meta EXCEPT !.phase = "has_head", !.local = <<repo.commit, repo.upstream>>])

(* recent_commits: rev-parse --verify HEAD, then git log.                    *)
ReadHasHead ==
  /\ MetaAt("has_head")
  /\ MetaGoes(IF repo.commit = 0 THEN [meta EXCEPT !.phase = "operation", !.recent = 0]
                                 ELSE [meta EXCEPT !.phase = "log"])
ReadLog ==
  /\ MetaAt("log")
  /\ MetaGoes(IF repo.commit = 0 THEN [meta EXCEPT !.phase = "failed"]
                                 ELSE [meta EXCEPT !.phase = "operation", !.recent = repo.commit])

(* repository_operation_state *)
ReadOperation ==
  /\ MetaAt("operation")
  /\ MetaGoes([meta EXCEPT !.phase = "done", !.operation = repo.operation])

\* Mutant: the files are published as the workers are joined.
InStatusOrderAsJoined(completed) ==
  LET worker(i) == (i - 1) % Len(pool)
      order == SetToSortSeq(completed, LAMBDA a, b :
                 IF worker(a[1]) # worker(b[1]) THEN worker(a[1]) < worker(b[1]) ELSE a[1] < b[1])
  IN [i \in DOMAIN order |-> order[i][2]]

InStatusOrder(completed) ==
  Each({c[1] : c \in completed}, LAMBDA i : (CHOOSE c \in completed : c[1] = i)[2])

\* Mutant: the head that is published is the one the log was read for.
PublishedWithLog ==
  [commit |-> meta.recent, upstream |-> parsed.upstream, counts |-> parsed.counts,
   files |-> InStatusOrder(files),
   local |-> meta.local, recent |-> meta.recent, operation |-> meta.operation]

Published ==
  [commit |-> parsed.commit, upstream |-> parsed.upstream, counts |-> parsed.counts,
   files |-> InStatusOrder(files),
   local |-> meta.local, recent |-> meta.recent, operation |-> meta.operation]

(* join_snapshot_work: every worker and the metadata thread are joined, and  *)
(* the first error is the snapshot's.                                        *)
Join ==
  /\ pc = "snapshot" /\ meta.phase \in {"done", "failed"}
  /\ \A w \in DOMAIN pool : pool[w].todo = <<>>
  /\ IF meta.phase = "failed" \/ \E w \in DOMAIN pool : pool[w].failed
       THEN Fails ELSE Ends(Published)

(* --- The Explorer's file and the paths of the worktree ------------------ *)

ExplorerGoes(next) ==
  /\ explorer' = next /\ Reads /\ UNCHANGED <<parsed, pool, files, meta>>
FileAtPhase(phase) == pc = "file" /\ explorer.phase = phase
FileEnds(patch) == Ends([path |-> explorer.path, content |-> explorer.content, patch |-> patch])

(* explorer_contents: a directory or a missing file is an error.             *)
ReadContents(p) ==
  /\ Begins("file")
  /\ explorer' = IF InWork(repo, p) \in Contents
                   THEN [NoRead EXCEPT !.phase = "has_head", !.path = p, !.content = InWork(repo, p)]
                   ELSE [NoRead EXCEPT !.phase = "failed"]
  /\ UNCHANGED <<parsed, pool, files, meta>>

FileFails == FileAtPhase("failed") /\ Fails

(* explorer_patch: rev-parse, git diff HEAD, ls-files and check-ignore, each *)
(* asked only when the one before it left the question open.                 *)
PatchHasHead ==
  /\ FileAtPhase("has_head")
  /\ ExplorerGoes([explorer EXCEPT !.phase = IF repo.commit = 0 THEN "ignored" ELSE "diff"])

DiffHead(r, p) ==
  LET to == IF InIndex(r, p) = Absent THEN Absent ELSE InWork(r, p)
  IN IF InHead(r, p) = to THEN Nothing ELSE {<<p, InHead(r, p), to>>}

\* git diff HEAD fails without a HEAD, and its output when it is not UTF-8.
PatchDiff ==
  /\ FileAtPhase("diff")
  /\ LET patch == DiffHead(repo, explorer.path)
     IN CASE repo.commit = 0 -> Fails
          [] repo.commit # 0 /\ NotUtf8(patch) -> Fails
          [] repo.commit # 0 /\ patch # Nothing /\ ~NotUtf8(patch) -> FileEnds(patch)
          [] OTHER -> ExplorerGoes([explorer EXCEPT !.phase = "tracked"])

PatchTracked ==
  /\ FileAtPhase("tracked")
  /\ IF InIndex(repo, explorer.path) # Absent
       THEN FileEnds(Nothing)
       ELSE ExplorerGoes([explorer EXCEPT !.phase = "ignored"])

PatchIgnored ==
  /\ FileAtPhase("ignored")
  /\ IF explorer.path \in Ignored /\ InIndex(repo, explorer.path) = Absent
       THEN FileEnds(Nothing)
       ELSE ExplorerGoes([explorer EXCEPT !.phase = "whole"])

PatchWhole ==
  /\ FileAtPhase("whole")
  /\ IF InWork(repo, explorer.path) \in Contents
       THEN FileEnds(WholeFile(InWork(repo, explorer.path)))
       ELSE Fails

(* explorer_paths_from: the directory is listed once, every entry inspected  *)
(* afterwards, and those that are gone by then left out. quick_open_paths    *)
(* leaves out the ignored ones of them.                                      *)
ListDirectory ==
  /\ Begins("paths")
  /\ explorer' = [NoRead EXCEPT !.phase = "walk",
                                !.left = {p \in Paths : InWork(repo, p) # Absent}]
  /\ UNCHANGED <<parsed, pool, files, meta>>

InspectEntry(p) ==
  /\ pc = "paths" /\ p \in explorer.left
  /\ ExplorerGoes([explorer EXCEPT !.left = @ \ {p},
                                   !.paths = IF InWork(repo, p) \in Contents THEN @ \cup {p} ELSE @])

Unignored == {p \in Paths : p \notin Ignored \/ InIndex(repo, p) # Absent}
QuickOpenPaths ==
  /\ pc = "paths" /\ explorer.left = {}
  /\ Ends(explorer.paths \cap Unignored)

(* --- Failures of their own ---------------------------------------------- *)

(* A command cannot be started, is killed or finds an object damaged; a file *)
(* cannot be opened. git rev-parse and ls-files only when they cannot be     *)
(* started: that they fail is an answer, taken for no HEAD or no such file.  *)
BreaksDown == writes < MaxWrites /\ writes' = writes + 1 /\ outage' = TRUE

(* As the first command of a read: the read fails.                           *)
OpeningFails(read) ==
  /\ pc = "idle" /\ result = Nothing
  /\ seen' = {repo} /\ BreaksDown /\ result' = Failure(read)
  /\ UNCHANGED <<repo, pc, local>>

(* In a worker: its file fails, and the files it had still to read with it.  *)
FileReadFails(w) ==
  /\ pc = "snapshot" /\ pool[w].todo # <<>>
  /\ Fail(w) /\ BreaksDown
  /\ UNCHANGED <<repo, seen, pc, parsed, files, meta, explorer, result>>

(* git log or rev-parse; the operation is looked up without an error.        *)
MetadataFails ==
  /\ pc = "snapshot" /\ meta.phase \in {"local", "has_head", "log"}
  /\ meta' = [meta EXCEPT !.phase = "failed"] /\ BreaksDown
  /\ UNCHANGED <<repo, seen, pc, parsed, pool, files, explorer, result>>

(* In the Explorer's patch or its walk.                                      *)
ExplorerFails ==
  /\ pc \in {"file", "paths"} /\ explorer.phase # "failed"
  /\ Finishes(Failure(pc)) /\ BreaksDown

Outages ==
  \/ \E read \in {"snapshot", "file", "paths"} : OpeningFails(read)
  \/ \E w \in DOMAIN pool : FileReadFails(w)
  \/ MetadataFails \/ ExplorerFails

(* --- The other programs ------------------------------------------------- *)

Writes(next) ==
  /\ pc # "idle" /\ writes < MaxWrites /\ writes' = writes + 1
  /\ next # repo /\ repo' = next /\ seen' = seen \cup {next}
  /\ UNCHANGED <<outage, pc, local, result>>

WithFile(p, f) == [repo EXCEPT !.files[p] = f]

Edit(p, to) == Writes(WithFile(p, [repo.files[p] EXCEPT !.work = to]))
Stage(p) == /\ InWork(repo, p) # Dir
            /\ Writes(WithFile(p, [repo.files[p] EXCEPT !.index = InWork(repo, p)]))
Unstage(p) == Writes(WithFile(p, [repo.files[p] EXCEPT !.index = InHead(repo, p)]))
Conflict(p) ==
  /\ InHead(repo, p) \in Texts
  /\ Writes([WithFile(p, [repo.files[p] EXCEPT !.index = Unmerged]) EXCEPT !.operation = "Merge"])
Commit ==
  /\ Conflicted(repo) = {}
  /\ Writes([repo EXCEPT !.commit = @ + 1, !.operation = "None",
                         !.files = [p \in Paths |-> [repo.files[p] EXCEPT !.head = InIndex(repo, p)]]])
Orphan ==
  /\ repo.commit # 0
  /\ Writes([repo EXCEPT !.commit = 0, !.operation = "None",
                         !.files = [p \in Paths |-> [repo.files[p] EXCEPT !.head = Absent]]])
Prune == repo.upstream \notin {NoUpstream, Gone} /\ Writes([repo EXCEPT !.upstream = Gone])
Publish == repo.upstream # NoUpstream /\ Writes([repo EXCEPT !.upstream = repo.commit])

Others ==
  \/ \E p \in Paths : \/ \E to \in Contents \cup {Absent, Dir} : Edit(p, to)
                      \/ Stage(p) \/ Unstage(p) \/ Conflict(p)
  \/ Commit \/ Orphan \/ Prune \/ Publish

WorkOn(w) ==
  ReadStaged(w) \/ Inspect(w) \/ ReadWhole(w) \/ ReadUnstaged(w)
  \/ StagedContext(w) \/ UnstagedContext(w)

Next ==
  \/ TakeStatus \/ \E w \in DOMAIN pool : WorkOn(w)
  \/ ReadLocalCommits \/ ReadHasHead \/ ReadLog \/ ReadOperation \/ Join
  \/ \E p \in Paths : ReadContents(p) \/ InspectEntry(p)
  \/ FileFails \/ PatchHasHead \/ PatchDiff \/ PatchTracked \/ PatchIgnored \/ PatchWhole
  \/ ListDirectory \/ QuickOpenPaths
  \/ Outages \/ Others

Spec == Init /\ [][Next]_vars

-----------------------------------------------------------------------------
(* A read that nobody disturbed shows the repository as it is. A snapshot is *)
(* complete and in Git's order, however the workers were scheduled. It fails *)
(* exactly when it cannot show a file, a diff or the log of the upstream: a  *)
(* single file whose diff is not UTF-8 fails all of it. A patch leads from   *)
(* HEAD to the contents beside it, but for a file whose removal is staged;   *)
(* the paths are those of the worktree.                                      *)
Undisturbed(read) ==
  result # Nothing /\ result.read = read /\ seen = {repo} /\ writes = 0

Fits(r, v) ==
  /\ v.content = InWork(r, v.path)
  /\ \/ InIndex(r, v.path) = Absent /\ InHead(r, v.path) # Absent
     \/ IF v.patch = Nothing
          THEN v.content = InHead(r, v.path) \/ v.path \in Ignored
          ELSE \A side \in v.patch : side[Len(side)] = v.content

QuietReadsExact ==
  /\ Undisturbed("snapshot") =>
       IF FileUnreadable(repo) \/ UpstreamUnreadable(repo) THEN ~result.ok
       ELSE result.ok /\ result.value = View(repo)
  /\ Undisturbed("file") /\ result.ok => Fits(repo, result.value)
  /\ Undisturbed("paths") =>
       result.value = {p \in Unignored : InWork(repo, p) \in Contents}

(* A snapshot that was disturbed fails only for what can disturb one: a      *)
(* command that failed by itself, a conflicted or moved file that was not    *)
(* there at some moment, a changed one that is not UTF-8, a directory in a   *)
(* file's place, an upstream whose ref is gone, a HEAD that came or went.    *)
(* Untracked files, and tracked ones, may come and go under it.              *)
Disturbing(r) ==
  \/ Conflicted(r) # {} \/ \E p \in Paths : RenamedFrom(r, p) # Nothing \/ InWork(r, p) = Dir
  \/ \E p \in Paths : /\ Latin \in {InHead(r, p), InIndex(r, p), InWork(r, p)}
                      /\ InHead(r, p) # InIndex(r, p) \/ InIndex(r, p) # InWork(r, p)
  \/ UpstreamUnreadable(r)
ChurnNeverFails ==
  result # Nothing /\ ~result.ok /\ result.read = "snapshot" =>
    \/ outage \/ \E r \in seen : Disturbing(r)
    \/ \E r, t \in seen : r.commit = 0 /\ t.commit # 0

(* A read one of whose commands broke down gives no result: what was read    *)
(* beside it, on other workers or before it, is not taken for all there is.  *)
NoPartialResult == result # Nothing /\ outage => ~result.ok

(* A snapshot shows a head with its own list of files and its own counts,    *)
(* though the log is read beside it and HEAD may have moved by then.         *)
HeadWithItsFiles ==
  result # Nothing /\ result.ok /\ result.read = "snapshot" =>
    \E r \in seen :
      /\ result.value.commit = r.commit /\ result.value.upstream = r.upstream
      /\ result.value.counts = Status(r).counts
      /\ \A i \in DOMAIN result.value.files :
           \E f \in ToSet(Status(r).files) :
             LET shown == result.value.files[i]
             IN shown.path = f.path /\ shown.old = f.old /\ shown.kind = f.kind

(* Other programs writing between two commands fail no read that they do not *)
(* disturb, a failed command leaves no partial result, and a snapshot has    *)
(* the files and counts of the head it names (snapshot.rs: snapshot,         *)
(* file_diff).                                                               *)
ChurnReadsSound == ChurnNeverFails /\ NoPartialResult /\ HeadWithItsFiles

(* Every repository whose files can be read has a snapshot.                  *)
QuietSnapshotSucceeds ==
  Undisturbed("snapshot") /\ ~FileUnreadable(repo) => result.ok
=============================================================================
