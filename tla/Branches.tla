------------------------------ MODULE Branches ------------------------------
(***************************************************************************)
(* Checkout, create, delete and merge from the command palette: the pickers *)
(* and forms, the query each of them loads, the command the user's choice   *)
(* enters, and what diffo-git verifies before Git runs.                     *)
(*                                                                          *)
(* The repository moves under all of it: other processes move refs and      *)
(* switch branches while a picker is open, while a command waits and, when  *)
(* RacesGit, between the verification and the Git process.  The worker      *)
(* serves queries and commands in order (RepositoryService has its details) *)
(* and the waiting commands are the queue of Workbench, reduced to what     *)
(* binds a choice to the Git command it becomes.                            *)
(***************************************************************************)
EXTENDS SearchPicker, FiniteSets, SequencesExt

CONSTANTS
  RefNames,    \* the refs there can be, in the order of their names
  Kind,        \* [ref -> "Local", "Remote" or "Tag"]
  Short,       \* [ref -> the ref of the local branch a remote one checks out]
  Commits, Time, Ancestors, \* commits, their time, and [commit -> its ancestors]
  MergeOf,     \* [two diverged commits -> the commit that merges them]
  OtherCommits, \* the commits other processes and fetches move refs to
  Remotes,     \* the remotes that may be configured
  Texts,       \* what is typed into a picker's filter
  StartRepos,  \* the repositories the program may start in
  MaxQueries, MaxCommands, MaxForeign,
  RacesGit     \* whether others act between a verification and its Git process

None == "None"
Gone == "Gone"
Detached == "Detached"
Refs == ToSet(RefNames)
OfKind(k) == {r \in Refs : Kind[r] = k}

Branches == OfKind("Local")

\* What a repository may be: refs, the branch checked out, the commit of a
\* detached HEAD, the operation in progress, and the upstreams.
Operations == {None, "Merge", "Other"}
Repositories ==
  [refs : [Refs -> Commits \cup {Gone}], branch : Branches \cup {Detached}, at : Commits,
   op : Operations, tracks : [Branches -> OfKind("Remote") \cup {None}]]

ASSUME BranchesAssumption ==
  /\ RefNames \in Seq(Refs) /\ IsInjective(RefNames)
  /\ {None, Gone, Detached} \cap (Refs \cup Commits) = {}
  /\ Kind \in [Refs -> {"Local", "Remote", "Tag"}]
  /\ \A r \in Branches : Short[r] = r
  /\ \A r \in OfKind("Remote") : Short[r] \in Branches
  /\ Time \in [Commits -> Int] /\ Ancestors \in [Commits -> SUBSET Commits]
  /\ \A c \in Commits : c \in Ancestors[c]
  /\ \A c, d \in Commits : c \notin Ancestors[d] /\ d \notin Ancestors[c] =>
       MergeOf[{c, d}] \in Commits /\ {c, d} \subseteq Ancestors[MergeOf[{c, d}]]
  /\ OtherCommits \subseteq Commits /\ StartRepos \subseteq Repositories
  /\ IsFiniteSet(Remotes)
  /\ {MaxQueries, MaxCommands, MaxForeign} \subseteq Nat
  /\ RacesGit \in BOOLEAN

VARIABLES
  repo,      \* the repository
  requests,  \* the channel to the worker
  job,       \* the command whose target the worker has verified
  events,    \* the channel back
  sent,      \* the snapshot the worker sent last
  snap,      \* the snapshot of the workbench
  modal, pending,   \* the open modal; the query it wants sent
  nextQuery, queued, active, entered,
  answered,  \* what each query was answered with
  confirmed, \* the deletions the user confirmed
  foreign    \* steps of other processes

repoVars == <<repo, job, foreign>>
channels == <<requests, events, sent>>
commands == <<queued, active, entered>>
asking == <<modal, pending, nextQuery>>
history == <<answered, confirmed>>
vars == <<repoVars, channels, snap, asking, commands, history>>

HeadState(r) ==
  [name |-> r.branch, commit |-> IF r.branch = Detached THEN r.at ELSE r.refs[r.branch]]
Unborn(h) == h.name # Detached /\ h.commit = Gone
Snapshot(r) ==
  [head |-> HeadState(r), op |-> r.op,
   upstream |-> IF r.branch = Detached THEN None ELSE r.tracks[r.branch]]

NoCommand == [kind |-> None]
NoModal == [kind |-> None]
Slots == {"Branches", "Merge", "Remotes"}    \* the pending queries

Init ==
  /\ repo \in StartRepos
  /\ requests = <<>> /\ job = NoCommand /\ events = <<>>
  /\ sent = Snapshot(repo) /\ snap = Snapshot(repo)
  /\ modal = NoModal /\ pending = [s \in Slots |-> 0] /\ nextQuery = 1
  /\ queued = <<>> /\ active = NoCommand /\ entered = 0
  /\ answered = [q \in 1..MaxQueries |-> {}] /\ confirmed = {}
  /\ foreign = 0

-----------------------------------------------------------------------------
(* Other processes.                                                         *)

Foreign ==
  /\ foreign < MaxForeign
  /\ job # NoCommand => RacesGit
  /\ foreign' = foreign + 1
  /\ \/ \E r \in Refs, c \in OtherCommits \cup {Gone} :
          /\ repo.refs[r] \notin {c, Gone}
          /\ c = Gone => repo.branch # r
          /\ repo' = [repo EXCEPT !.refs[r] = c]
     \/ \E b \in Branches :
          /\ repo.op = None /\ repo.refs[b] # Gone /\ repo.branch # b
          /\ repo' = [repo EXCEPT !.branch = b]
     \/ /\ repo.branch # Detached /\ ~Unborn(HeadState(repo))
        /\ repo' = [repo EXCEPT !.branch = Detached, !.at = repo.refs[repo.branch]]
     \/ \E op \in Operations :
          /\ repo.op # op /\ ~Unborn(HeadState(repo))
          /\ repo' = [repo EXCEPT !.op = op]
  /\ UNCHANGED <<job, channels, snap, asking, commands, history>>

-----------------------------------------------------------------------------
(* What a query answers, and what a picker lists of it.                     *)

\* A set of ref records in the order the parsers sort them into.
Position(ref) == CHOOSE i \in DOMAIN RefNames : RefNames[i] = ref
Rank(ref) == CASE Kind[ref] = "Local" -> 0 [] Kind[ref] = "Remote" -> 1 [] OTHER -> 2
Sorted(before) ==    \* before: [ref record -> those that come before it]
  [i \in 1..Cardinality(DOMAIN before) |->
     CHOOSE x \in DOMAIN before : Cardinality(before[x]) = i - 1]

ByRecency(x, y) ==
  \/ Time[x.commit] > Time[y.commit]
  \/ /\ Time[x.commit] = Time[y.commit]
     /\ \/ Rank(x.ref) < Rank(y.ref)
        \/ Rank(x.ref) = Rank(y.ref) /\ Position(x.ref) < Position(y.ref)
ByKind(x, y) ==
  \/ Rank(x.ref) < Rank(y.ref)
  \/ /\ Rank(x.ref) = Rank(y.ref)
     /\ \/ Time[x.commit] > Time[y.commit]
        \/ Time[x.commit] = Time[y.commit] /\ Position(x.ref) < Position(y.ref)

ListedRefs(kinds) ==
  {[ref |-> r, commit |-> repo.refs[r]] : r \in {q \in Refs : repo.refs[q] # Gone /\ Kind[q] \in kinds}}
BranchRefs == ListedRefs({"Local", "Remote"})
MergeRefs == ListedRefs({"Local", "Remote", "Tag"})

\* CheckoutPicker::refresh: the loaded branches against the snapshot.
BranchItems(purpose, loaded, s) ==
  LET listed == {b \in loaded : purpose = "Delete" =>
                                  Kind[b.ref] = "Local" /\ b.ref # s.head.name}
      order  == Sorted([x \in listed |-> {y \in listed : ByRecency(y, x)}]) IN
  [i \in DOMAIN order |->
    [identity |-> order[i].ref, payload |-> order[i],
     enabled |-> purpose = "Checkout" => order[i].ref \notin {s.head.name, s.upstream}]]

\* MergePicker::refresh binds the destination to each item as well.
MergeItems(loaded, s) ==
  LET listed == {r \in loaded : r.ref \notin {s.head.name, s.upstream}}
      order  == Sorted([x \in listed |-> {y \in listed : ByKind(y, x)}]) IN
  [i \in DOMAIN order |->
    [identity |-> order[i].ref,
     payload |-> [ref |-> order[i].ref, commit |-> order[i].commit, head |-> s.head],
     enabled |-> ~Unborn(s.head) /\ s.op = None]]

-----------------------------------------------------------------------------
(* The modal.  A picker takes the query it has not sent with it.            *)

SlotOf(m) == CASE m.kind \in {"Branches", "Create"} -> "Branches"
               [] m.kind \in {"Merge", "Remotes"} -> m.kind
               [] OTHER -> None

\* set_modal, and close_modal with NoModal.
SetModal(m) ==
  /\ modal' = m
  /\ pending' = [s \in Slots |-> IF s = SlotOf(modal) THEN 0 ELSE pending[s]]

CloseModal == SetModal(NoModal)
ErrorModal == [kind |-> "Error"]
\* show_error: the errors behind a visible one are in Workbench.
ShowError == IF modal.kind = "Error" THEN UNCHANGED <<modal, pending>> ELSE SetModal(ErrorModal)

Enter(a) ==
  /\ entered < MaxCommands
  /\ entered' = entered + 1
  /\ queued' = Append(queued, a)
  /\ UNCHANGED active

\* One step of the user, on the workbench alone.
User == UNCHANGED <<repoVars, channels, snap, answered>>
NoEntry == UNCHANGED <<commands, confirmed>>

\* open_checkout_picker, open_create_branch_from, open_delete_branch,
\* open_create_branch, open_merge_picker and execute_sync without an upstream.
Loading(m) ==
  /\ nextQuery <= MaxQueries
  /\ nextQuery' = nextQuery + 1
  /\ modal' = m
  /\ pending' = [pending EXCEPT ![SlotOf(m)] = nextQuery]

PickerFor(purpose) ==
  [kind |-> "Branches", purpose |-> purpose, loaded |-> {}, picker |-> NewPicker,
   query |-> nextQuery, loading |-> TRUE]

OpenPalette ==
  /\ modal.kind = None
  /\ SetModal([kind |-> "Palette",
               merge |-> CASE snap.op = "Merge" -> "AbortMerge"
                           [] snap.op = None /\ ~Unborn(snap.head) -> "Merge"
                           [] OTHER -> None])
  /\ UNCHANGED nextQuery /\ NoEntry /\ User

NoStart == [from |-> None]

\* execute_palette_command.  The palette has closed, its list may be stale.
PaletteOpens ==
  /\ modal.kind = "Palette"
  /\ \/ \E p \in {"Checkout", "CreateFrom", "Delete"} : Loading(PickerFor(p))
     \/ Loading([kind |-> "Create", names |-> {}, start |-> NoStart,
                 query |-> nextQuery, loading |-> TRUE])
     \/ /\ modal.merge = "Merge" /\ snap.op = None /\ ~Unborn(snap.head)
        /\ Loading([kind |-> "Merge", loaded |-> {}, picker |-> NewPicker,
                    query |-> nextQuery, loading |-> TRUE])
     \/ /\ snap.upstream = None /\ snap.head.name # Detached
        /\ entered < MaxCommands    \* the answer may enter one
        /\ Loading([kind |-> "Remotes", picker |-> NewPicker,
                    query |-> nextQuery, loading |-> TRUE])
  /\ NoEntry /\ User

PaletteEnters ==
  /\ modal.kind = "Palette"
  /\ CloseModal
  /\ \E k \in {"Fetch", "AbortMerge"} :
       /\ k = "AbortMerge" => modal.merge = k /\ snap.op = "Merge"
       /\ Enter([kind |-> k])
  /\ UNCHANGED <<nextQuery, confirmed>> /\ User

\* Esc, a click outside, Enter in an empty form, or OK.
Close ==
  /\ modal.kind \notin {None, "Confirm"}
  /\ CloseModal
  /\ UNCHANGED nextQuery /\ NoEntry /\ User

\* Keys and the wheel in a picker.
Browse ==
  /\ modal.kind \in {"Branches", "Merge", "Remotes"}
  /\ \E p \in {Filter(modal.picker, t) : t \in Texts}
              \cup {MoveSelection(modal.picker, d) : d \in BOOLEAN}
              \cup {Wheel(modal.picker, d) : d \in BOOLEAN} :
       modal' = [modal EXCEPT !.picker = p]
  /\ UNCHANGED <<pending, nextQuery>> /\ NoEntry /\ User

\* Mutant: the picker deletes what is not merged.
DeletionForced(t) == [kind |-> "Delete", ref |-> t.ref, commit |-> t.commit, force |-> TRUE]

Deletion(t) == [kind |-> "Delete", ref |-> t.ref, commit |-> t.commit, force |-> FALSE]

Checkout(t) == [kind |-> "Checkout", ref |-> t.ref, commit |-> t.commit]
Merge(t) == [kind |-> "Merge", ref |-> t.ref, commit |-> t.commit, head |-> t.head]

\* Enter or a click on a row of the picker.
Pick ==
  /\ modal.kind \in {"Branches", "Merge", "Remotes"}
  /\ \E t \in Activations(modal.picker) :
       \/ /\ modal.kind = "Branches" /\ modal.purpose = "CreateFrom"
          /\ SetModal([kind |-> "Create", query |-> 0, loading |-> FALSE,
                       names |-> {b.ref : b \in modal.loaded} \cap Branches,
                       start |-> [from |-> "Branch", ref |-> t.ref, commit |-> t.commit]])
          /\ UNCHANGED commands
       \/ /\ CloseModal
          /\ CASE modal.kind = "Remotes" -> Enter([kind |-> "SyncTo", remote |-> t])
               [] modal.kind = "Merge" -> Enter(Merge(t))
               [] modal.kind = "Branches" /\ modal.purpose = "Checkout" -> Enter(Checkout(t))
               [] modal.kind = "Branches" /\ modal.purpose = "Delete" -> Enter(Deletion(t))
               [] OTHER -> FALSE
  /\ UNCHANGED <<nextQuery, confirmed>> /\ User

\* Enter in the name form: an invalid, a taken and a premature name stay there.
SubmitName ==
  /\ modal.kind = "Create" /\ ~modal.loading
  /\ modal.start.from = "Head" => ~Unborn(modal.start.head)
  /\ CloseModal
  /\ \E name \in Branches \ modal.names :
       Enter([kind |-> "Create", name |-> name, start |-> modal.start])
  /\ UNCHANGED <<nextQuery, confirmed>> /\ User

Confirmation(a) == [kind |-> "Confirm", target |-> a, choice |-> "Cancel"]

\* Arrows, and Enter, Esc or a click on a button of the warning.
Choose ==
  /\ modal.kind = "Confirm"
  /\ \E c \in {"Cancel", "Continue"} : modal' = [modal EXCEPT !.choice = c]
  /\ UNCHANGED <<pending, nextQuery>> /\ NoEntry /\ User
Decide ==
  /\ modal.kind = "Confirm"
  /\ CloseModal
  /\ \/ NoEntry
     \/ /\ modal.choice = "Continue"
        /\ Enter([modal.target EXCEPT !.force = TRUE])
        /\ confirmed' = confirmed \cup {modal.target}
  /\ UNCHANGED nextQuery /\ User

-----------------------------------------------------------------------------
(* The event loop: queries first, then the next command.                    *)

Dispatch ==
  /\ \E s \in Slots :
       /\ pending[s] # 0
       /\ requests' = Append(requests, [kind |-> "Query", slot |-> s, query |-> pending[s]])
       /\ pending' = [pending EXCEPT ![s] = 0]
  /\ UNCHANGED <<repoVars, events, sent, snap, modal, nextQuery, commands, history>>

TakeCommand ==
  /\ \A s \in Slots : pending[s] = 0
  /\ active = NoCommand /\ queued # <<>>
  /\ active' = Head(queued)
  /\ queued' = Tail(queued)
  /\ requests' = Append(requests, Head(queued))
  /\ UNCHANGED <<repoVars, events, sent, snap, asking, entered, history>>

-----------------------------------------------------------------------------
(* The worker.                                                              *)

IsQuery(r) == r.kind = "Query"

\* Remotes come and go: any of them may be configured when git remote runs.
Answers(slot) ==
  CASE slot = "Branches" -> {BranchRefs} [] slot = "Merge" -> {MergeRefs}
    [] slot = "Remotes" -> SUBSET Remotes

\* queries::branches, merge_refs and remotes.
Serve ==
  /\ job = NoCommand /\ requests # <<>> /\ IsQuery(Head(requests))
  /\ LET q == Head(requests) IN
       \/ \E found \in Answers(q.slot) :
            /\ events' = Append(events, [kind |-> "Loaded", slot |-> q.slot, query |-> q.query, found |-> found])
            /\ answered' = [answered EXCEPT ![q.query] = found]
       \/ /\ events' = Append(events, [kind |-> "LoadFailed", slot |-> q.slot, query |-> q.query])
          /\ UNCHANGED answered
  /\ requests' = Tail(requests)
  /\ UNCHANGED <<repoVars, sent, snap, asking, commands, confirmed>>

\* refresh, after the watcher saw a change.
Refresh ==
  /\ job = NoCommand /\ Snapshot(repo) # sent
  /\ sent' = Snapshot(repo)
  /\ \E k \in {"Snapshot", "RefreshFailed"} :
       events' = Append(events, [kind |-> k, snapshot |-> sent'])
  /\ UNCHANGED <<repoVars, requests, snap, asking, commands, history>>

Reported(a, result, r) ==
  /\ sent' = Snapshot(r)
  /\ events' = Append(events, [kind |-> result, action |-> a, snapshot |-> sent'])

\* verify_checkout_target: the ref is still at the commit that was picked.
StillAt(t) == repo.refs[t.ref] = t.commit

\* configure_checkout
VerifiesCheckout(a) ==
  /\ StillAt(a)
  /\ Kind[a.ref] = "Remote" /\ repo.refs[Short[a.ref]] # Gone =>
       repo.tracks[Short[a.ref]] = a.ref

\* configure_create_branch
VerifiesCreate(a) ==
  /\ repo.refs[a.name] = Gone
  /\ IF a.start.from = "Head" THEN HeadState(repo) = a.start.head ELSE StillAt(a.start)

\* configure_delete_branch
VerifiesDelete(a) == StillAt(a) /\ repo.branch # a.ref

\* verify_merge_target
VerifiesMerge(a) ==
  repo.op = None /\ StillAt(a) /\ HeadState(repo) = a.head /\ ~Unborn(a.head)

Verifies(a) ==
  CASE a.kind = "Checkout" -> VerifiesCheckout(a)
    [] a.kind = "Create" -> VerifiesCreate(a)
    [] a.kind = "Delete" -> VerifiesDelete(a)
    [] a.kind = "Merge" -> VerifiesMerge(a)
    [] a.kind = "AbortMerge" -> repo.op = "Merge"
    [] OTHER -> TRUE

Verify ==
  /\ job = NoCommand /\ requests # <<>> /\ ~IsQuery(Head(requests))
  /\ requests' = Tail(requests)
  /\ IF Verifies(Head(requests))
       THEN job' = Head(requests) /\ UNCHANGED <<events, sent>>
       ELSE UNCHANGED job /\ Reported(Head(requests), "Failed", repo)
  /\ UNCHANGED <<repo, foreign, snap, asking, commands, history>>

\* What Git makes of the repository, by the command's arguments alone.
HeadCommit == HeadState(repo).commit
Merged(ref) ==
  LET up   == repo.tracks[ref]
      into == IF up # None /\ repo.refs[up] # Gone THEN repo.refs[up] ELSE HeadCommit IN
  into # Gone /\ repo.refs[ref] \in Ancestors[into]

MovedHead(c) ==
  IF repo.branch = Detached THEN [repo EXCEPT !.at = c] ELSE [repo EXCEPT !.refs[repo.branch] = c]

Switched(b) == [repo EXCEPT !.branch = b]
Created(b, c, up) == [repo EXCEPT !.refs[b] = c, !.branch = b, !.tracks[b] = up]

GitCheckout(a) ==
  LET local == Short[a.ref] IN
  IF repo.op # None \/ repo.refs[a.ref] = Gone THEN {}
  ELSE IF repo.refs[local] # Gone THEN {Switched(local)}
  ELSE {Created(local, repo.refs[a.ref], a.ref)}

GitCreate(a) ==
  IF repo.op # None \/ repo.refs[a.name] # Gone THEN {}
  ELSE {Created(a.name, IF a.start.from = "Head" THEN a.start.head.commit ELSE a.start.commit, None)}

GitDelete(a) ==
  IF repo.branch = a.ref \/ repo.refs[a.ref] = Gone \/ ~(a.force \/ Merged(a.ref)) THEN {}
  ELSE {[repo EXCEPT !.refs[a.ref] = Gone, !.tracks[a.ref] = None]}

\* Conflicts leave a merge in progress and count as completed.
GitMerge(a) ==
  LET c == repo.refs[a.ref] IN
  IF repo.op # None \/ c = Gone THEN {}
  ELSE IF c \in Ancestors[HeadCommit] THEN {repo}
  ELSE IF HeadCommit \in Ancestors[c] THEN {MovedHead(c)}
  ELSE {MovedHead(MergeOf[{HeadCommit, c}]), [repo EXCEPT !.op = "Merge"]}

GitFetch == {repo} \cup {[repo EXCEPT !.refs[r] = c] : r \in OfKind("Remote"), c \in OtherCommits}

Git(a) ==
  CASE a.kind = "Checkout" -> GitCheckout(a)
    [] a.kind = "Create" -> GitCreate(a)
    [] a.kind = "Delete" -> GitDelete(a)
    [] a.kind = "Merge" -> GitMerge(a)
    [] a.kind = "AbortMerge" -> IF repo.op = "Merge" THEN {[repo EXCEPT !.op = None]} ELSE {}
    [] a.kind = "Fetch" -> GitFetch
    [] OTHER -> {repo}

NotMerged(a) ==
  /\ a.kind = "Delete" /\ ~a.force
  /\ repo.branch # a.ref /\ repo.refs[a.ref] # Gone /\ ~Merged(a.ref)

\* The Git process ends: it may always fail, for local changes for instance.
Run ==
  /\ job # NoCommand
  /\ job' = NoCommand
  /\ \/ \E r \in Git(job) : repo' = r /\ Reported(job, "Completed", r)
     \/ repo' = repo /\ Reported(job, IF NotMerged(job) THEN "NotMerged" ELSE "Failed", repo)
  /\ UNCHANGED <<foreign, requests, snap, asking, commands, history>>

-----------------------------------------------------------------------------
(* The workbench drains the worker's events.                                *)

Drain(k) ==
  /\ events # <<>> /\ Head(events).kind = k
  /\ events' = Tail(events)
  /\ UNCHANGED <<repoVars, requests, sent, nextQuery, entered, history>>
Quiet == UNCHANGED <<queued, active>>

\* The open modal asked for this answer.
Wants(e) == SlotOf(modal) = e.slot /\ modal.query = e.query

ItemsOf(m, s) ==
  IF m.kind = "Branches" THEN BranchItems(m.purpose, m.loaded, s) ELSE MergeItems(m.loaded, s)
Refreshed(m, s) == [m EXCEPT !.picker = Reconcile(@, ItemsOf(m, s))]

\* branches_loaded, merge_refs_loaded
RefsLoaded ==
  /\ Drain("Loaded") /\ Quiet /\ Head(events).slot # "Remotes"
  /\ LET e == Head(events) IN
     modal' = IF ~Wants(e) THEN modal
              ELSE IF modal.kind = "Create"
                THEN [modal EXCEPT !.loading = FALSE,
                        !.names = {b.ref : b \in e.found} \cap Branches,
                        !.start = [from |-> "Head", head |-> snap.head]]
              ELSE Refreshed([modal EXCEPT !.loading = FALSE, !.loaded = e.found], snap)
  /\ UNCHANGED <<snap, pending>>

RemoteItems(found) ==
  LET order == SetToSeq(found) IN
  [i \in DOMAIN order |-> [identity |-> order[i], payload |-> order[i], enabled |-> TRUE]]

\* sync_remotes_loaded: origin or the only remote needs no question.
RemotesLoaded ==
  /\ events # <<>> /\ Head(events).kind = "Loaded" /\ Head(events).slot = "Remotes"
  /\ LET e    == Head(events)
         sole == IF "origin" \in e.found THEN {"origin"}
                 ELSE IF Cardinality(e.found) = 1 THEN e.found ELSE {} IN
     \/ ~Wants(e) /\ UNCHANGED <<modal, pending, commands>>
     \/ /\ Wants(e) /\ sole # {}
        /\ CloseModal
        /\ \E r \in sole : Enter([kind |-> "SyncTo", remote |-> r])
     \/ Wants(e) /\ e.found = {} /\ SetModal(ErrorModal) /\ UNCHANGED commands
     \/ /\ Wants(e) /\ sole = {} /\ e.found # {}
        /\ modal' = [modal EXCEPT !.query = 0, !.loading = FALSE,
                                  !.picker = SetItems(@, RemoteItems(e.found))]
        /\ UNCHANGED <<pending, commands>>
  /\ events' = Tail(events)
  /\ UNCHANGED <<repoVars, requests, sent, snap, nextQuery, history>>

\* Mutant: a failed load leaves the picker as it is.
ForgetLoad(e) == UNCHANGED <<modal, pending>>

FailLoad(e) == IF Wants(e) THEN SetModal(ErrorModal) ELSE UNCHANGED <<modal, pending>>

LoadFailed ==
  /\ Drain("LoadFailed") /\ Quiet
  /\ FailLoad(Head(events))
  /\ UNCHANGED snap

\* repository_changed: the open picker follows the snapshot; a merge that can no
\* longer be started closes.
RepositoryChanged(s) ==
  /\ snap' = s
  /\ CASE modal.kind = "Branches" -> modal' = Refreshed(modal, s) /\ UNCHANGED pending
       [] modal.kind = "Merge" /\ s.op # None -> CloseModal
       [] modal.kind = "Merge" /\ s.op = None -> modal' = Refreshed(modal, s) /\ UNCHANGED pending
       [] OTHER -> UNCHANGED <<modal, pending>>

SnapshotArrives ==
  /\ Drain("Snapshot") /\ Quiet
  /\ IF Head(events).snapshot = snap
       THEN UNCHANGED <<snap, modal, pending>>
       ELSE RepositoryChanged(Head(events).snapshot)

RefreshFails ==
  /\ Drain("RefreshFailed") /\ Quiet
  /\ ShowError
  /\ UNCHANGED snap

\* operation_completed installs the snapshot and leaves the open picker alone.
Completes ==
  /\ Drain("Completed")
  /\ active' = NoCommand
  /\ snap' = Head(events).snapshot
  /\ UNCHANGED <<modal, pending, queued>>

\* A failure drops the waiting commands; its error replaces the picker.
Fails ==
  /\ Drain("Failed")
  /\ active' = NoCommand /\ queued' = <<>>
  /\ ShowError
  /\ snap' = Head(events).snapshot

\* handle_delete_branch_failure: the warning replaces whatever is open.
AsksToForce ==
  /\ Drain("NotMerged")
  /\ active' = NoCommand /\ queued' = <<>>
  /\ SetModal(Confirmation(Head(events).action))
  /\ UNCHANGED snap

Accept ==
  \/ RefsLoaded \/ RemotesLoaded \/ LoadFailed \/ SnapshotArrives \/ RefreshFails
  \/ Completes \/ Fails \/ AsksToForce
Input ==
  OpenPalette \/ PaletteOpens \/ PaletteEnters \/ Close \/ Browse \/ Pick \/ SubmitName
  \/ Choose \/ Decide
Worker == Serve \/ Verify \/ Run

Next == Foreign \/ Input \/ Dispatch \/ TakeCommand \/ Worker \/ Refresh \/ Accept

Spec == Init /\ [][Next]_vars

-----------------------------------------------------------------------------
(* Types.                                                                   *)

HeadStates == [name : Branches \cup {Detached}, commit : Commits \cup {Gone}]
Snapshots == [head : HeadStates, op : Operations, upstream : OfKind("Remote") \cup {None}]

\* What a query lists: each ref once, at its commit.
RefRecords(kinds) == [ref : UNION {OfKind(k) : k \in kinds}, commit : Commits]
Lists(kinds) ==
  {found \in SUBSET RefRecords(kinds) :
     IsFiniteSet(found) /\ \A x, y \in found : x.ref = y.ref => x = y}
BranchKinds == {"Local", "Remote"}
RefKinds == {"Local", "Remote", "Tag"}
MergePayloads == [ref : Refs, commit : Commits, head : HeadStates]

Items(payloads) == [identity : Refs \cup Remotes, payload : payloads, enabled : BOOLEAN]
Pickers(payloads) ==
  [items : Seq(Items(payloads)), query : Texts \cup {""}, matches : Seq(Items(payloads)),
   selected : Nat, offset : Int]
Starts ==
  [from : {"Head"}, head : HeadStates] \cup [from : {"Branch"}, ref : Refs, commit : Commits]
UnforcedDeletions == [kind : {"Delete"}, ref : Refs, commit : Commits, force : {FALSE}]

Palettes == [kind : {"Palette"}, merge : {"AbortMerge", "Merge", None}]
BranchPickers ==
  [kind : {"Branches"}, purpose : {"Checkout", "CreateFrom", "Delete"}, loaded : Lists(BranchKinds),
   picker : Pickers(RefRecords(BranchKinds)), query : Nat, loading : BOOLEAN]
MergePickers ==
  [kind : {"Merge"}, loaded : Lists(RefKinds), picker : Pickers(MergePayloads),
   query : Nat, loading : BOOLEAN]
RemotePickers ==
  [kind : {"Remotes"}, picker : Pickers(Remotes), query : Nat, loading : BOOLEAN]
Forms ==
  [kind : {"Create"}, names : SUBSET Branches, start : {NoStart}, query : Nat, loading : {TRUE}]
  \cup [kind : {"Create"}, names : SUBSET Branches, start : Starts, query : Nat, loading : {FALSE}]
Confirmations ==
  [kind : {"Confirm"}, target : UnforcedDeletions, choice : {"Cancel", "Continue"}]
Modals ==
  {NoModal, ErrorModal} \cup Palettes \cup BranchPickers \cup MergePickers \cup RemotePickers
  \cup Forms \cup Confirmations

Commands ==
  [kind : {"Checkout"}, ref : UNION {OfKind(k) : k \in BranchKinds}, commit : Commits]
  \cup [kind : {"Create"}, name : Branches, start : Starts]
  \cup [kind : {"Delete"}, ref : Refs, commit : Commits, force : BOOLEAN]
  \cup [kind : {"Merge"}, ref : Refs, commit : Commits, head : HeadStates]
  \cup [kind : {"SyncTo"}, remote : Remotes]
  \cup [kind : {"AbortMerge", "Fetch"}]
Queries == [kind : {"Query"}, slot : Slots, query : Nat]

Loads ==
  [kind : {"Loaded"}, slot : {"Branches"}, query : Nat, found : Lists(BranchKinds)]
  \cup [kind : {"Loaded"}, slot : {"Merge"}, query : Nat, found : Lists(RefKinds)]
  \cup [kind : {"Loaded"}, slot : {"Remotes"}, query : Nat, found : SUBSET Remotes]
  \cup [kind : {"LoadFailed"}, slot : Slots, query : Nat]
Updates ==
  [kind : {"Snapshot", "RefreshFailed"}, snapshot : Snapshots]
  \cup [kind : {"Completed", "Failed"}, action : Commands, snapshot : Snapshots]
  \cup [kind : {"NotMerged"}, action : UnforcedDeletions, snapshot : Snapshots]

IsPicker(m) == m.kind \in {"Branches", "Merge"}

\* The selected row of a picker can always be entered: Enter does not look.
TypeOK ==
  /\ repo \in Repositories /\ job \in Commands \cup {NoCommand}
  /\ requests \in Seq(Commands \cup Queries) /\ events \in Seq(Loads \cup Updates)
  /\ sent \in Snapshots /\ snap \in Snapshots
  /\ modal \in Modals /\ pending \in [Slots -> Nat] /\ nextQuery \in Nat \ {0}
  /\ queued \in Seq(Commands) /\ active \in Commands \cup {NoCommand}
  /\ confirmed \subseteq UnforcedDeletions
  /\ DOMAIN answered = 1..MaxQueries
  /\ {entered, foreign} \subseteq Nat
  /\ modal.kind \in {"Branches", "Merge", "Remotes"} =>
       modal.picker.selected \in EnabledRows(modal.picker) \cup {NoRow}

-----------------------------------------------------------------------------
(* Properties.                                                             *)

\* A picker shows the answer to the query it was opened with, whichever answers
\* of closed pickers arrive in between, and a query that is still to be sent is
\* the one of the open modal.
PickerShowsItsAnswer ==
  /\ IsPicker(modal) /\ ~modal.loading => modal.loaded = answered[modal.query]
  /\ modal.kind = "Create" /\ ~modal.loading /\ modal.query # 0 =>
       modal.names = {b.ref : b \in answered[modal.query]} \cap Branches
  /\ \A s \in Slots : pending[s] # 0 => SlotOf(modal) = s /\ modal.query = pending[s]

\* While a picker is open a snapshot changes neither which ref is selected nor
\* the first visible row, as long as that ref can still be chosen.
KeepsChoice ==
  (IsPicker(modal) /\ modal'.kind = modal.kind /\ snap' # snap) =>
    \A id \in ToSet(SelectedIdentity(modal.picker)) :
      (\E i \in DOMAIN modal'.picker.matches :
         modal'.picker.matches[i].identity = id /\ modal'.picker.matches[i].enabled) =>
      /\ SelectedIdentity(modal'.picker) = <<id>>
      /\ \A top \in ToSet(TopIdentity(modal.picker)) :
           (\E i \in DOMAIN modal'.picker.matches : modal'.picker.matches[i].identity = top) =>
           TopIdentity(modal'.picker) = <<top>>
SnapshotKeepsChoice == [][KeepsChoice]_vars

\* What Git changes is what was picked: the deleted branch is at the commit the
\* picker listed, the merged ref too and the destination the one the picker was
\* last bound to, the new branch starts at the captured commit and is checked
\* out, and so is the branch that was chosen or the one that tracks it.  Others
\* do not act between the verification and Git.
DoesWhatWasPicked ==
  LET before == HeadState(repo) after == HeadState(repo') IN
  (job # NoCommand /\ job' = NoCommand /\ repo' # repo) =>
    /\ job.kind = "Delete" => StillAt(job) /\ before = after
    /\ job.kind = "Merge" => /\ StillAt(job) /\ before = job.head
                             /\ after.name = before.name
                             /\ repo'.op = None => job.commit \in Ancestors[after.commit]
    /\ job.kind = "Create" =>
         /\ after.name = job.name
         /\ after.commit = IF job.start.from = "Head" THEN before.commit
                           ELSE repo.refs[job.start.ref]
    /\ job.kind = "Checkout" =>
         /\ after.name = Short[job.ref]
         /\ repo.refs[Short[job.ref]] \in {Gone, job.commit} => after.commit = job.commit
GitDoesWhatWasPicked == [][DoesWhatWasPicked]_vars

\* A branch whose commits are on no other branch Git looks at disappears only
\* after the user confirmed the deletion of that branch at that commit.
DeletesWhatWasConfirmed ==
  \A b \in Branches :
    (job.kind = "Delete" /\ repo.refs[b] # Gone /\ repo'.refs[b] = Gone /\ job' # job /\ ~Merged(b)) =>
    [kind |-> "Delete", ref |-> b, commit |-> repo.refs[b], force |-> FALSE] \in confirmed
UnmergedNeedsConfirmation == [][DeletesWhatWasConfirmed]_vars

Waiting(q) ==
  /\ q # 0
  /\ \/ \E s \in Slots : pending[s] = q
     \/ \E i \in DOMAIN requests : IsQuery(requests[i]) /\ requests[i].query = q
     \/ \E i \in DOMAIN events : events[i].kind \in {"Loaded", "LoadFailed"} /\ events[i].query = q

\* A picker or form that says it is loading has its query or the answer to it on
\* the way: closing, reopening, failures and errors leave none that loads forever.
LoadingIsAnswered ==
  SlotOf(modal) # None => IF modal.loading THEN Waiting(modal.query) ELSE ~Waiting(modal.query)

\* An open picker shows the answer to its own query, and one that says it loads
\* has its query or the answer on the way. (branches.rs, checkout_picker.rs:
\* accept of the loaded branches; ADR 0079.)
PickersAnswered == TypeOK /\ PickerShowsItsAnswer /\ LoadingIsAnswered

\* Git deletes, merges, creates and checks out what was picked, at the commit it
\* was picked at, and deletes unmerged work only after it was confirmed.
\* (delete_branch.rs, merge.rs, create_branch.rs, checkout.rs.)
GitDoesWhatWasConfirmed == GitDoesWhatWasPicked /\ UnmergedNeedsConfirmation
=============================================================================
